---------------------- MODULE MCServiceContainer ----------------------
(* Three of the services of index.ts: the servers come from config, and the  *)
(* tool policies are made from the agent file, which config stands for here, *)
(* and from the servers.                                                     *)
EXTENDS ServiceContainer, TLC

CONSTANTS config, mcp, tools

MCService == {config, mcp, tools}
MCRegistered == <<tools, config, mcp>>

MCDeps == (config :> << >>) @@ (mcp :> <<config>>) @@ (tools :> <<config, mcp>>)

MCUpstream == (config :> {config}) @@ (mcp :> {config, mcp})
              @@ (tools :> {config, mcp, tools})

MCAffected == (config :> <<tools, mcp>>) @@ (mcp :> <<tools>>) @@ (tools :> << >>)

(* The order there would be if tools were registered last.                   *)
MCLate == (config :> <<mcp, tools>>) @@ (mcp :> <<tools>>) @@ (tools :> << >>)

(* The servers publish their state, when they are closed and when they run;  *)
(* the other services that do so here do it in the last moment.              *)
MCSets == (config :> {}) @@ (mcp :> {mcp}) @@ (tools :> {})

-----------------------------------------------------------------------------
(* All the services of index.ts, for what the theorems ask of the graph.     *)

IndexRegistered ==
  <<"auth", "apiClient", "agentFile", "toolPermissions", "systemMessage", "update", "config",
    "model", "mcp", "fileIndex", "resourceMonitoring", "storageSync", "chatHistory">>

IndexService == ToSet(IndexRegistered)

IndexDeps ==
  ("apiClient" :> <<"auth">>)
    @@ ("agentFile" :> <<"auth", "apiClient">>)
    @@ ("toolPermissions" :> <<"agentFile", "mcp">>)
    @@ ("systemMessage" :> <<"toolPermissions">>)
    @@ ("config" :> <<"auth", "apiClient", "agentFile">>)
    @@ ("model" :> <<"config", "auth", "agentFile">>)
    @@ ("mcp" :> <<"config">>)
    @@ [s \in IndexService |-> << >>]

IndexUpstream[s \in IndexService] ==
  {s} \cup UNION {IndexUpstream[d] : d \in ToSet(IndexDeps[s])}

(* findDeps: the direct dependents in the order of their registration, each    *)
(* followed by its own.                                                       *)
RECURSIVE findDeps(_, _)
findDeps(found, name) ==
  IF name \in found.visited THEN found
  ELSE FoldLeft(
         LAMBDA f, d : findDeps([f EXCEPT !.result = IF d \in ToSet(@) THEN @ ELSE Append(@, d)], d),
         [found EXCEPT !.visited = @ \cup {name}],
         SelectSeq(IndexRegistered, LAMBDA d : name \in ToSet(IndexDeps[d])))

IndexAffected ==
  [s \in IndexService |-> findDeps([visited |-> {}, result |-> << >>], s).result]

(* The factory of config sets auth, AgentFileService.setState sets "update",  *)
(* and three services publish their own state.                               *)
IndexSets ==
  ("config" :> {"auth"}) @@ ("agentFile" :> {"update"}) @@ ("mcp" :> {"mcp"})
    @@ ("update" :> {"update"}) @@ ("fileIndex" :> {"fileIndex"})
    @@ [s \in IndexService |-> {}]

(* ConfigService reloads the model and the servers, the slash commands the    *)
(* login.                                                                    *)
IndexReloaded == {"auth", "model", "mcp"}

Index(reloaded) == INSTANCE ServiceGraph WITH
  Service <- IndexService, Deps <- IndexDeps, Upstream <- IndexUpstream,
  Affected <- IndexAffected, Registered <- IndexRegistered, Sets <- IndexSets,
  Reloaded <- reloaded, Source <- {"auth", "agentFile", "config", "mcp"}

(* The services of index.ts are as the theorems ask, and so are the three of   *)
(* the runs; if config were reloaded, index.ts would not do.                   *)
ASSUME IndexPremises ==
  /\ Index(IndexReloaded)!GraphAssumption
  /\ Index(IndexReloaded)!AffectedAssumption
  /\ Index(IndexReloaded)!UpstreamAssumption
  /\ Index(IndexReloaded)!AcyclicAssumption
  /\ Index(IndexReloaded)!PublishersApart
  /\ Index(IndexReloaded)!ReloadsInOrder
  /\ ~Index({"config"})!ReloadsInOrder
ASSUME RunPremises == PublishersApart /\ (ReloadsInOrder <=> Affected = MCAffected)
=======================================================================
