------------------------- MODULE ServiceContainer -------------------------
(***************************************************************************)
(* The service container of the command line agent                         *)
(* (extensions/cli/src/services/ServiceContainer.ts) with the services     *)
(* index.ts registers in it.                                               *)
(*                                                                         *)
(* A service has a factory and a list of services it depends on.  load()   *)
(* marks the service "loading", loads its dependencies, runs the factory   *)
(* (which reads the dependencies again with get()) and stores the value;   *)
(* get() and load() of a service that is "loading" wait for its next       *)
(* :ready or :error event; reload() forgets a service and all that depend  *)
(* on it and loads them again.  Everything runs on one thread and          *)
(* interleaves at each await; a call of load() or get() runs, with the     *)
(* calls it makes in turn, up to the first await without interruption:     *)
(* those calls are the stack "calls", and nothing else moves until it is   *)
(* empty.                                                                  *)
(*                                                                         *)
(* A value is abstracted to the sources it is behind: outdated[s] holds    *)
(* each service u whose source (the login, the agent file, config.yaml,    *)
(* the list of servers) has changed since it was read for the value of s.  *)
(***************************************************************************)
EXTENDS ServiceGraph

CONSTANTS
  Slot,        \* names of the loads of one service in flight (a bound)
  Client,      \* the callers: initializeServices, UI hooks, slash commands
  MaxCalls     \* how many calls the clients make in all (a bound)

ASSUME BoundsAssumption == Slot \subseteq Nat /\ MaxCalls \in Nat

ASSUME NamesAssumption == (Service \X Slot) \cap Client = {}

Load == Service \X Slot
Waiter == Load \cup Client

VARIABLES
  state,       \* services[s].state
  outdated,    \* of the value the container holds for s
  held,        \* of the state the service object itself holds
  at,          \* where each load and each client is
  awaitsLoad,  \* the loads whose promise a waiter awaits
  awaitsEvent, \* the services whose :ready or :error event a waiter awaits
  seen,        \* the sources behind which the inputs of a load are
  calls,       \* the calls of load() and get() still to be made, the next first
  kind,        \* what a client called
  asked,       \* the services a client's call is to load
  alone,       \* the clients whose call nothing has disturbed
  made         \* the number of calls of clients so far

vars == <<state, outdated, held, at, awaitsLoad, awaitsEvent, seen, calls,
          kind, asked, alone, made>>

clients == <<kind, asked, alone, made>>

State == {"idle", "loading", "ready", "error"}
LoadPhase == {"free", "deps", "inputs", "body", "failing"}
ClientPhase == {"free", "running", "failing"}
Kind == {"init", "get", "reload"}
How == {"load", "get"}

Calls == [svc : Service, how : How, by : Waiter]

TypeOK ==
  /\ state \in [Service -> State]
  /\ outdated \in [Service -> SUBSET Service]
  /\ held \in [Service -> SUBSET Service]
  /\ at \in [Waiter -> LoadPhase \cup ClientPhase]
  /\ \A id \in Load : at[id] \in LoadPhase
  /\ \A c \in Client : at[c] \in ClientPhase
  /\ awaitsLoad \in [Waiter -> SUBSET Load]
  /\ awaitsEvent \in [Waiter -> SUBSET Service]
  /\ seen \in [Load -> SUBSET Service]
  /\ calls \in Seq(Calls)
  /\ kind \in [Client -> Kind]
  /\ asked \in [Client -> SUBSET Service]
  /\ alone \in SUBSET Client
  /\ made \in 0 .. MaxCalls

Init ==
  /\ state = [s \in Service |-> "idle"]
  /\ outdated = [s \in Service |-> Upstream[s] \cap Source]
  /\ held = [s \in Service |-> Upstream[s] \cap Source]
  /\ at = [w \in Waiter |-> "free"]
  /\ awaitsLoad = [w \in Waiter |-> {}]
  /\ awaitsEvent = [w \in Waiter |-> {}]
  /\ seen = [id \in Load |-> {}]
  /\ calls = << >>
  /\ kind = [c \in Client |-> "get"]
  /\ asked = [c \in Client |-> {}]
  /\ alone = {}
  /\ made = 0

(* The calls w makes, one for each service of the list, in its order. *)
CallsOf(list, how, w) ==
  [i \in 1 .. Len(list) |-> [svc |-> list[i], how |-> how, by |-> w]]

Settled(w) == awaitsLoad[w] = {} /\ awaitsEvent[w] = {}
Quiet == calls = << >>

ActiveLoads(s) == {id \in Load : id[1] = s /\ at[id] # "free"}

(* A load takes the least name no load of its service in flight has. *)
FreeSlot(s, k) ==
  /\ at[<<s, k>>] = "free"
  /\ \A j \in Slot : at[<<s, j>>] = "free" => k <= j

-----------------------------------------------------------------------------
(* The calls. *)

(* Mutant: get() of a ready service waits for its next event. *)
WaitsForEventReady(s, w) ==
  /\ \/ state[s] = "loading"
     \/ state[s] = "ready" /\ Head(calls).how = "get"
  /\ calls' = Tail(calls)
  /\ awaitsEvent' = [awaitsEvent EXCEPT ![w] = @ \cup {s}]
  /\ UNCHANGED <<state, outdated, held, at, awaitsLoad, seen>>

(* The service is loading: the caller waits for its next event. *)
WaitsForEvent(s, w) ==
  /\ state[s] = "loading"
  /\ calls' = Tail(calls)
  /\ awaitsEvent' = [awaitsEvent EXCEPT ![w] = @ \cup {s}]
  /\ UNCHANGED <<state, outdated, held, at, awaitsLoad, seen>>

(* Mutant: a dependency that is ready is not loaded again. *)
HasValueOrDep(s, w) ==
  /\ state[s] = "ready"
  /\ calls' = Tail(calls)
  /\ IF w \in Load
       THEN seen' = [seen EXCEPT ![w] = @ \cup outdated[s]]
       ELSE UNCHANGED seen
  /\ UNCHANGED <<state, outdated, held, at, awaitsLoad, awaitsEvent>>

(* get() of a service that is ready: the caller, a factory or a client, has *)
(* its value at once.                                                        *)
HasValue(s, w) ==
  /\ state[s] = "ready"
  /\ Head(calls).how = "get"
  /\ calls' = Tail(calls)
  /\ IF w \in Load
       THEN seen' = [seen EXCEPT ![w] = @ \cup outdated[s]]
       ELSE UNCHANGED seen
  /\ UNCHANGED <<state, outdated, held, at, awaitsLoad, awaitsEvent>>

(* Mutant: load() does not look whether the service is loading. *)
StartsLoadingAgain(s, w, k) ==
  /\ Head(calls).how = "get" => state[s] \in {"idle", "error"}
  /\ FreeSlot(s, k)
  /\ state' = [state EXCEPT ![s] = "loading"]
  /\ at' = [at EXCEPT ![<<s, k>>] = "deps"]
  /\ awaitsLoad' = [awaitsLoad EXCEPT ![w] = @ \cup {<<s, k>>}]
  /\ calls' = CallsOf(Deps[s], "load", <<s, k>>) \o Tail(calls)
  /\ UNCHANGED <<outdated, held, awaitsEvent, seen>>

(* Otherwise the service is loaded, also when load() finds it ready, and the *)
(* dependencies are loaded before the caller's next call.                    *)
StartsLoading(s, w, k) ==
  /\ state[s] # "loading"
  /\ Head(calls).how = "get" => state[s] # "ready"
  /\ FreeSlot(s, k)
  /\ state' = [state EXCEPT ![s] = "loading"]
  /\ at' = [at EXCEPT ![<<s, k>>] = "deps"]
  /\ awaitsLoad' = [awaitsLoad EXCEPT ![w] = @ \cup {<<s, k>>}]
  /\ calls' = CallsOf(Deps[s], "load", <<s, k>>) \o Tail(calls)
  /\ UNCHANGED <<outdated, held, awaitsEvent, seen>>

Call ==
  /\ ~Quiet
  /\ LET s == Head(calls).svc
         w == Head(calls).by
     IN \/ WaitsForEvent(s, w)
        \/ HasValue(s, w)
        \/ \E k \in Slot : StartsLoading(s, w, k)
  /\ UNCHANGED clients

-----------------------------------------------------------------------------
(* A load. *)

(* All dependencies are loaded: the factory starts, and reads them with      *)
(* get().                                                                    *)
DepsLoaded(id) ==
  /\ Quiet
  /\ at[id] = "deps" /\ Settled(id)
  /\ at' = [at EXCEPT ![id] = "inputs"]
  /\ calls' = CallsOf(Deps[id[1]], "get", id)
  /\ seen' = [seen EXCEPT ![id] = {}]
  /\ UNCHANGED <<state, outdated, held, awaitsLoad, awaitsEvent>>
  /\ UNCHANGED clients

(* The factory has its inputs and initializes the service: it reads the      *)
(* service's own source.                                                     *)
BodyStarts(id) ==
  /\ Quiet
  /\ at[id] = "inputs" /\ Settled(id)
  /\ at' = [at EXCEPT ![id] = "body"]
  /\ UNCHANGED <<state, outdated, held, awaitsLoad, awaitsEvent, seen, calls>>
  /\ UNCHANGED clients

(* Mutant: setServiceError emits no event. *)
WokenByPromise(id) == {w \in Waiter : id \in awaitsLoad[w]}

(* The waiters an event of s wakes, and those the end of the load id wakes. *)
EventWaiters(s) == {w \in Waiter : s \in awaitsEvent[w]}
WokenBy(id) == {w \in Waiter : id \in awaitsLoad[w]} \cup EventWaiters(id[1])

(* s has a value behind the sources "old": the waiters of its :ready event    *)
(* go on, and, when a load returned it, those of its promise.  A factory that *)
(* waited for an input has it now.                                            *)
Answer(s, old, promise) ==
  /\ state' = [state EXCEPT ![s] = "ready"]
  /\ outdated' = [outdated EXCEPT ![s] = old]
  /\ awaitsEvent' = [w \in Waiter |-> awaitsEvent[w] \ {s}]
  /\ awaitsLoad' = [w \in Waiter |-> awaitsLoad[w] \ promise]
  /\ LET reader(l) == /\ at[l] = "inputs"
                      /\ \/ s \in awaitsEvent[l]
                         \/ awaitsLoad[l] \cap promise # {}
     IN seen' = [l \in Load |-> IF reader(l) THEN seen[l] \cup old ELSE seen[l]]

(* A factory publishes a state in the middle of its work: the state of its   *)
(* own service, of before (MCPService.shutdownConnections, the setState that *)
(* begins FileIndexService.performFullIndex) or already the new one, or the  *)
(* state another service object holds (the factory of config sets auth).     *)
Set(id, t) ==
  /\ Quiet
  /\ at[id] = "body"
  /\ t \in Sets[id[1]]
  /\ \/ Answer(t, held[t], {}) /\ UNCHANGED held
     \/ /\ t = id[1]
        /\ Answer(t, seen[id], {})
        /\ held' = [held EXCEPT ![t] = seen[id]]
  /\ UNCHANGED <<at, calls>>
  /\ UNCHANGED clients

(* The factory returns: the value is stored, whatever was stored meanwhile. *)
Finish(id) ==
  /\ Quiet
  /\ at[id] = "body"
  /\ Answer(id[1], seen[id], {id})
  /\ held' = [held EXCEPT ![id[1]] = seen[id]]
  /\ at' = [at EXCEPT ![id] = "free"]
  /\ UNCHANGED calls
  /\ UNCHANGED clients

(* initializeAll() catches each error and waits for the other services. *)
Tolerant(w) == w \in Client /\ kind[w] = "init"

(* The load id has failed: of those woken, each that is rejected awaits         *)
(* nothing more and fails in its turn.                                          *)
Reject(id, woken) ==
  LET rejected == {w \in woken : ~Tolerant(w)}
      left(w, awaited, x) == IF w \in rejected THEN {}
                             ELSE IF w \in woken THEN awaited \ {x} ELSE awaited
  IN /\ at' = [w \in Waiter |-> IF w = id THEN "free"
                               ELSE IF w \in rejected THEN "failing" ELSE at[w]]
     /\ awaitsLoad' = [w \in Waiter |-> left(w, awaitsLoad[w], id)]
     /\ awaitsEvent' = [w \in Waiter |-> left(w, awaitsEvent[w], id[1])]

(* Mutant: an error is stored under a name that is no state. *)
FailUnnamed(id) ==
  /\ Quiet
  /\ at[id] \in {"body", "failing"}
  /\ Reject(id, WokenBy(id))
  /\ state' = [state EXCEPT ![id[1]] = "failed"]
  /\ UNCHANGED <<outdated, held, seen, calls>>
  /\ UNCHANGED clients

(* Mutant: load() does not store the error. *)
FailSilently(id) ==
  /\ Quiet
  /\ at[id] \in {"body", "failing"}
  /\ Reject(id, WokenBy(id))
  /\ UNCHANGED state
  /\ UNCHANGED <<outdated, held, seen, calls>>
  /\ UNCHANGED clients

(* A factory throws, or what a load awaited was rejected: the error is        *)
(* stored, and every waiter of the event and of the promise is rejected.      *)
Fail(id) ==
  /\ Quiet
  /\ at[id] \in {"body", "failing"}
  /\ Reject(id, WokenBy(id))
  /\ state' = [state EXCEPT ![id[1]] = "error"]
  /\ UNCHANGED <<outdated, held, seen, calls>>
  /\ UNCHANGED clients

-----------------------------------------------------------------------------
(* The clients. *)

(* A call disturbs every call that runs, and is itself alone only when        *)
(* nothing runs.                                                             *)
Begin(c, k, list) ==
  /\ Quiet
  /\ at[c] = "free"
  /\ made < MaxCalls
  /\ made' = made + 1
  /\ at' = [at EXCEPT ![c] = "running"]
  /\ kind' = [kind EXCEPT ![c] = k]
  /\ asked' = [asked EXCEPT ![c] = ToSet(list)]
  /\ alone' = IF \A w \in Waiter : at[w] = "free" THEN {c} ELSE {}
  /\ calls' = CallsOf(list, IF k = "get" THEN "get" ELSE "load", c)
  /\ UNCHANGED <<outdated, held, awaitsLoad, awaitsEvent, seen>>

(* initializeServices() loads all services; a hook of the user interface may *)
(* have called before.                                                       *)
Initialize(c) ==
  /\ Begin(c, "init", Registered)
  /\ UNCHANGED state

Get(c, s) ==
  /\ Begin(c, "get", <<s>>)
  /\ UNCHANGED state

(* The service and its dependents are reset, without an event, and loaded. *)
Reload(c, s) ==
  LET list == <<s>> \o Affected[s]
  IN /\ Begin(c, "reload", list)
     /\ state' = [t \in Service |-> IF t \in ToSet(list) THEN "idle" ELSE state[t]]

(* What the client called settles. *)
Return(c) ==
  /\ Quiet
  /\ at[c] \in {"running", "failing"}
  /\ Settled(c)
  /\ at' = [at EXCEPT ![c] = "free"]
  /\ alone' = alone \ {c}
  /\ UNCHANGED <<state, outdated, held, awaitsLoad, awaitsEvent, seen,
                 calls, kind, asked, made>>

(* Between calls the user logs in or out, edits a file, or changes the list    *)
(* of servers: what was made from the source of u falls behind.  An edit during *)
(* a call is left out, for Fresh would say nothing of that call.                *)
Edit(u) ==
  /\ Quiet
  /\ \A w \in Waiter : at[w] = "free"
  /\ outdated' = [s \in Service |->
                    IF u \in Upstream[s] THEN outdated[s] \cup {u} ELSE outdated[s]]
  /\ held' = [s \in Service |->
                IF u \in Upstream[s] THEN held[s] \cup {u} ELSE held[s]]
  /\ UNCHANGED <<state, at, awaitsLoad, awaitsEvent, seen, calls>>
  /\ UNCHANGED clients

Next ==
  \/ Call
  \/ \E id \in Load :
       \/ DepsLoaded(id) \/ BodyStarts(id) \/ Finish(id) \/ Fail(id)
       \/ \E t \in Service : Set(id, t)
  \/ \E c \in Client :
       \/ Initialize(c) \/ Return(c)
       \/ \E s \in Service : Get(c, s)
       \/ \E s \in Reloaded : Reload(c, s)
  \/ \E u \in Source : Edit(u)

(* Each pending call runs, each promise that settled resumes its waiter, and  *)
(* a factory returns or throws (index.ts awaits files and requests that end   *)
(* or time out).  Nobody has to call, to edit or to publish.                  *)
Fairness ==
  /\ WF_vars(Call)
  /\ \A id \in Load : WF_vars(DepsLoaded(id)) /\ WF_vars(BodyStarts(id))
  /\ \A id \in Load : WF_vars(Finish(id) \/ Fail(id))
  /\ \A c \in Client : WF_vars(Return(c))

Spec == Init /\ [][Next]_vars /\ Fairness

-----------------------------------------------------------------------------
(* What the container promises. *)

(* A service that shows "loading" is being loaded: no error, early value or   *)
(* reset leaves it loading for ever, with its spinner and all that wait for   *)
(* it.                                                                        *)
NoOrphanLoading ==
  \A s \in Service : state[s] = "loading" => ActiveLoads(s) # {}

(* Whoever waits for the events of a service will get one, for a load of it   *)
(* runs, also after a reload forgot the service without an event; and the     *)
(* promise a waiter awaits is that of a load that runs.                       *)
NoLostWaiter ==
  \A w \in Waiter :
    /\ \A s \in awaitsEvent[w] : ActiveLoads(s) # {}
    /\ \A id \in awaitsLoad[w] : at[id] # "free"

(* One call, however many of the services it loads depend on one another,     *)
(* runs each factory once at a time (ServiceContainer.test.ts counts them).   *)
OneLoadEach ==
  \A c \in alone : at[c] = "running" =>
    \A s \in Service : Cardinality(ActiveLoads(s)) <= 1

(* The service reloaded publishes its state while its factory runs: what       *)
(* depends on it may be made from the state of before (DependenciesFirst).      *)
RootPublishes(c) ==
  \E s \in Service : s \in Sets[s] /\ asked[c] = {s} \cup ToSet(Affected[s])

(* When a reload that nothing disturbed returns, the service and its            *)
(* dependents are ready and, unless the service publishes early, made from what *)
(* the sources say now.                                                         *)
Fresh ==
  \A c \in alone :
    at[c] = "running" /\ kind[c] = "reload" /\ Quiet /\ Settled(c) =>
      \A s \in asked[c] :
        /\ state[s] = "ready"
        /\ ~RootPublishes(c) => outdated[s] = {}

(* Every call is answered. *)
AllAnswered == \A c \in Client : at[c] # "free" ~> at[c] = "free"

(* "Load dependencies first" (ServiceContainer.ts:142): no factory starts its  *)
(* work while that of a dependency runs.                                       *)
DependenciesFirst ==
  [][\A id \in Load : at[id] = "inputs" /\ at'[id] = "body" =>
       \A d \in ToSet(Deps[id[1]]) : ActiveLoads(d) = {}]_vars
=============================================================================
