----------------------- MODULE ServiceContainer_proofs -----------------------
(***************************************************************************)
(* Theorems about ServiceContainer for any services, dependencies, clients *)
(* and number of calls: its types, that no service shows "loading" without *)
(* being loaded, that whoever waits waits for a load that runs, that one   *)
(* client's call runs each factory once at a time, and that a reload which *)
(* nothing disturbs leaves what it loads ready and up to date.             *)
(***************************************************************************)
EXTENDS ServiceContainer, SequenceTheorems, FiniteSetTheorems, TLAPS

\* The two claims hold each other up: a waiter joins the event of a service only when the
\* service says "loading", and a service stops saying so only when its waiters are woken.
IInv == TypeOK /\ NoOrphanLoading /\ NoLostWaiter

-----------------------------------------------------------------------------
(* The lists of calls. *)

LEMMA CallsTyped ==
    ASSUME NEW list \in Seq(Service), NEW how \in How, NEW w \in Waiter
    PROVE CallsOf(list, how, w) \in Seq(Calls)
<1> DEFINE call(i) == [svc |-> list[i], how |-> how, by |-> w]
<1>1. Len(list) \in Nat /\ \A i \in 1 .. Len(list) : list[i] \in Service
  BY LenProperties, ElementOfSeq
<1>2. \A i \in 1 .. Len(list) : call(i) \in Calls
  BY <1>1 DEF Calls
<1>3. [i \in 1 .. Len(list) |-> call(i)] \in Seq(Calls)
  BY <1>1, <1>2, IsASeq
<1>4. QED
  BY <1>3 DEF CallsOf

LEMMA ToSetTyped ==
    ASSUME NEW list \in Seq(Service) PROVE ToSet(list) \in SUBSET Service
<1>1. \A i \in 1 .. Len(list) : list[i] \in Service
  BY ElementOfSeq
<1>2. DOMAIN list = 1 .. Len(list)
  BY LenProperties
<1>3. QED
  BY <1>1, <1>2 DEF ToSet

LEMMA ListsTyped ==
    /\ \A s \in Service : Deps[s] \in Seq(Service)
    /\ \A s \in Service : <<s>> \o Affected[s] \in Seq(Service)
    /\ \A s \in Service : <<s>> \in Seq(Service)
    /\ Registered \in Seq(Service)
<1>1. \A s \in Service : <<s>> \in Seq(Service)
  OBVIOUS
<1>2. \A s \in Service : Affected[s] \in Seq(Service)
  BY GraphAssumption
<1>3. \A s \in Service : <<s>> \o Affected[s] \in Seq(Service)
  BY <1>1, <1>2, ConcatProperties
<1>4. QED
  BY <1>1, <1>3, GraphAssumption

\* The next call is one of a waiter for a service, and the others are calls too.
LEMMA NextCall ==
    ASSUME TypeOK, ~Quiet
    PROVE /\ Head(calls).svc \in Service /\ Head(calls).by \in Waiter
          /\ Tail(calls) \in Seq(Calls)
<1>1. calls \in Seq(Calls) /\ calls # << >>
  BY DEF TypeOK, Quiet
<1>2. Head(calls) \in Calls /\ Tail(calls) \in Seq(Calls)
  BY <1>1, HeadTailProperties
<1>3. QED
  BY <1>2 DEF Calls

-----------------------------------------------------------------------------
(* Type correctness. *)

LEMMA CallTypes ==
    ASSUME TypeOK, Call PROVE TypeOK'
<1> DEFINE s == Head(calls).svc
           w == Head(calls).by
<1>1. ~Quiet /\ UNCHANGED clients
  BY DEF Call
<1>2. s \in Service /\ w \in Waiter /\ Tail(calls) \in Seq(Calls)
  BY <1>1, NextCall
<1> HIDE DEF s, w
<1>3. CASE WaitsForEvent(s, w)
  BY <1>1, <1>2, <1>3 DEF TypeOK, WaitsForEvent, clients
<1>4. CASE HasValue(s, w)
  BY <1>1, <1>2, <1>4 DEF TypeOK, HasValue, clients
<1>5. ASSUME NEW k \in Slot, StartsLoading(s, w, k) PROVE TypeOK'
  <2>1. <<s, k>> \in Load /\ <<s, k>> \in Waiter /\ <<s, k>> \notin Client
    BY <1>2, NamesAssumption DEF Load, Waiter
  <2>2. CallsOf(Deps[s], "load", <<s, k>>) \in Seq(Calls)
    BY <1>2, <2>1, ListsTyped, CallsTyped DEF How
  <2>3. calls' \in Seq(Calls)
    BY <1>2, <2>2, <1>5, ConcatProperties DEF StartsLoading
  <2>4. state' \in [Service -> State]
    BY <1>5 DEF TypeOK, StartsLoading, State
  <2>5. /\ at' \in [Waiter -> LoadPhase \cup ClientPhase]
        /\ \A id \in Load : at'[id] \in LoadPhase
        /\ \A c \in Client : at'[c] \in ClientPhase
    <3>1. at' = [at EXCEPT ![<<s, k>>] = "deps"]
      BY <1>5 DEF StartsLoading
    <3>2. Load \subseteq Waiter /\ Client \subseteq Waiter
      BY DEF Waiter
    <3>3. QED
      BY <3>1, <3>2, <2>1 DEF TypeOK, LoadPhase
  <2>6. awaitsLoad' \in [Waiter -> SUBSET Load]
    BY <1>2, <1>5, <2>1 DEF TypeOK, StartsLoading
  <2>7. QED
    BY <1>1, <1>5, <2>3, <2>4, <2>5, <2>6 DEF TypeOK, StartsLoading, clients
<1>6. QED
  BY <1>3, <1>4, <1>5 DEF Call, s, w

LEMMA DepsLoadedTypes ==
    ASSUME TypeOK, NEW id \in Load, DepsLoaded(id) PROVE TypeOK'
<1>1. id \in Waiter /\ id \notin Client /\ id[1] \in Service
  BY NamesAssumption DEF Load, Waiter
<1>2. calls' \in Seq(Calls)
  BY <1>1, ListsTyped, CallsTyped DEF DepsLoaded, How
<1>3. /\ at' \in [Waiter -> LoadPhase \cup ClientPhase]
      /\ \A l \in Load : at'[l] \in LoadPhase
      /\ \A c \in Client : at'[c] \in ClientPhase
  <2>1. at' = [at EXCEPT ![id] = "inputs"]
    BY DEF DepsLoaded
  <2>2. Load \subseteq Waiter /\ Client \subseteq Waiter
    BY DEF Waiter
  <2>3. QED
    BY <2>1, <2>2, <1>1 DEF TypeOK, LoadPhase
<1>4. QED
  BY <1>2, <1>3 DEF TypeOK, DepsLoaded, clients

LEMMA BodyStartsTypes ==
    ASSUME TypeOK, NEW id \in Load, BodyStarts(id) PROVE TypeOK'
<1>1. id \in Waiter /\ id \notin Client
  BY NamesAssumption DEF Load, Waiter
<1>2. at' = [at EXCEPT ![id] = "body"] /\ Load \subseteq Waiter /\ Client \subseteq Waiter
  BY DEF BodyStarts, Waiter
<1>3. /\ at' \in [Waiter -> LoadPhase \cup ClientPhase]
      /\ \A l \in Load : at'[l] \in LoadPhase
      /\ \A c \in Client : at'[c] \in ClientPhase
  BY <1>1, <1>2 DEF TypeOK, LoadPhase
<1>4. QED
  BY <1>3 DEF TypeOK, BodyStarts, clients

LEMMA AnswerTypes ==
    ASSUME TypeOK, NEW s \in Service, NEW old \in SUBSET Service, NEW promise \in SUBSET Load,
           Answer(s, old, promise)
    PROVE /\ state' \in [Service -> State]
          /\ outdated' \in [Service -> SUBSET Service]
          /\ awaitsLoad' \in [Waiter -> SUBSET Load]
          /\ awaitsEvent' \in [Waiter -> SUBSET Service]
          /\ seen' \in [Load -> SUBSET Service]
<1> USE DEF TypeOK, Answer
<1>1. state' \in [Service -> State] /\ outdated' \in [Service -> SUBSET Service]
  BY DEF State
<1>2. awaitsLoad' \in [Waiter -> SUBSET Load] /\ awaitsEvent' \in [Waiter -> SUBSET Service]
  OBVIOUS
<1>3. seen' \in [Load -> SUBSET Service]
  OBVIOUS
<1>4. QED
  BY <1>1, <1>2, <1>3

LEMMA SetTypes ==
    ASSUME TypeOK, NEW id \in Load, NEW t \in Service, Set(id, t) PROVE TypeOK'
<1>1. held[t] \in SUBSET Service /\ seen[id] \in SUBSET Service
  BY DEF TypeOK
<1>2. held' \in [Service -> SUBSET Service] /\ UNCHANGED <<at, calls, clients>>
  BY <1>1 DEF TypeOK, Set
<1>3. PICK old \in SUBSET Service : Answer(t, old, {})
  BY <1>1 DEF Set
<1>4. {} \in SUBSET Load
  OBVIOUS
<1>5. /\ state' \in [Service -> State]
      /\ outdated' \in [Service -> SUBSET Service]
      /\ awaitsLoad' \in [Waiter -> SUBSET Load]
      /\ awaitsEvent' \in [Waiter -> SUBSET Service]
      /\ seen' \in [Load -> SUBSET Service]
  BY <1>3, <1>4, AnswerTypes
<1>6. QED
  BY <1>2, <1>5 DEF TypeOK, clients

LEMMA FinishTypes ==
    ASSUME TypeOK, NEW id \in Load, Finish(id) PROVE TypeOK'
<1>1. id \in Waiter /\ id \notin Client /\ id[1] \in Service /\ seen[id] \in SUBSET Service
  BY NamesAssumption DEF Load, Waiter, TypeOK
<1>2. held' \in [Service -> SUBSET Service] /\ UNCHANGED <<calls, clients>>
  BY <1>1 DEF TypeOK, Finish
<1>3. /\ at' \in [Waiter -> LoadPhase \cup ClientPhase]
      /\ \A l \in Load : at'[l] \in LoadPhase
      /\ \A c \in Client : at'[c] \in ClientPhase
  <2>1. at' = [at EXCEPT ![id] = "free"] /\ Load \subseteq Waiter /\ Client \subseteq Waiter
    BY DEF Finish, Waiter
  <2>2. QED
    BY <2>1, <1>1 DEF TypeOK, LoadPhase
<1>4. Answer(id[1], seen[id], {id})
  BY DEF Finish
<1>5. /\ state' \in [Service -> State]
      /\ outdated' \in [Service -> SUBSET Service]
      /\ awaitsLoad' \in [Waiter -> SUBSET Load]
      /\ awaitsEvent' \in [Waiter -> SUBSET Service]
      /\ seen' \in [Load -> SUBSET Service]
  <2>1. PICK s \in Service, old \in SUBSET Service, promise \in SUBSET Load :
          Answer(s, old, promise)
    BY <1>1, <1>4
  <2>2. QED
    BY <2>1, AnswerTypes
<1>6. QED
  BY <1>2, <1>3, <1>5 DEF TypeOK, clients

LEMMA FailTypes ==
    ASSUME TypeOK, NEW id \in Load, Fail(id) PROVE TypeOK'
<1>1. id \in Waiter /\ id \notin Client /\ id[1] \in Service
  BY NamesAssumption DEF Load, Waiter
<1>2. UNCHANGED <<outdated, held, seen, calls, clients>>
  BY DEF Fail
<1>3. state' \in [Service -> State]
  BY DEF TypeOK, Fail, State
<1>4. /\ at' \in [Waiter -> LoadPhase \cup ClientPhase]
      /\ \A l \in Load : at'[l] \in LoadPhase
      /\ \A c \in Client : at'[c] \in ClientPhase
  <2>1. \A w \in Waiter : at'[w] \in {"free", "failing", at[w]}
    BY DEF Fail, Reject
  <2>2. at' \in [Waiter -> LoadPhase \cup ClientPhase]
    BY DEF Fail, Reject, TypeOK, LoadPhase
  <2>3. Load \subseteq Waiter /\ Client \subseteq Waiter
    BY DEF Waiter
  <2>4. QED
    BY <2>1, <2>2, <2>3 DEF TypeOK, LoadPhase, ClientPhase
<1>5. awaitsLoad' \in [Waiter -> SUBSET Load] /\ awaitsEvent' \in [Waiter -> SUBSET Service]
  BY DEF TypeOK, Fail, Reject
<1>6. QED
  BY <1>2, <1>3, <1>4, <1>5 DEF TypeOK, clients

LEMMA BeginTypes ==
    ASSUME TypeOK, NEW c \in Client, NEW k \in Kind, NEW list \in Seq(Service),
           Begin(c, k, list), state' \in [Service -> State]
    PROVE TypeOK'
<1>1. c \in Waiter /\ c \notin Load
  BY NamesAssumption DEF Load, Waiter
<1>2. calls' \in Seq(Calls)
  BY <1>1, CallsTyped DEF Begin, How
<1>3. /\ at' \in [Waiter -> LoadPhase \cup ClientPhase]
      /\ \A l \in Load : at'[l] \in LoadPhase
      /\ \A d \in Client : at'[d] \in ClientPhase
  <2>1. at' = [at EXCEPT ![c] = "running"] /\ Load \subseteq Waiter /\ Client \subseteq Waiter
    BY DEF Begin, Waiter
  <2>2. QED
    BY <2>1, <1>1 DEF TypeOK, ClientPhase
<1>4. kind' \in [Client -> Kind] /\ asked' \in [Client -> SUBSET Service]
  BY ToSetTyped DEF TypeOK, Begin
<1>5. alone' \in SUBSET Client /\ made' \in 0 .. MaxCalls
  BY BoundsAssumption DEF TypeOK, Begin
<1>6. QED
  BY <1>2, <1>3, <1>4, <1>5 DEF TypeOK, Begin

LEMMA ReturnTypes ==
    ASSUME TypeOK, NEW c \in Client, Return(c) PROVE TypeOK'
<1>1. c \in Waiter /\ c \notin Load
  BY NamesAssumption DEF Load, Waiter
<1>2. at' = [at EXCEPT ![c] = "free"] /\ Load \subseteq Waiter /\ Client \subseteq Waiter
  BY DEF Return, Waiter
<1>3. /\ at' \in [Waiter -> LoadPhase \cup ClientPhase]
      /\ \A l \in Load : at'[l] \in LoadPhase
      /\ \A d \in Client : at'[d] \in ClientPhase
  BY <1>1, <1>2 DEF TypeOK, ClientPhase
<1>4. QED
  BY <1>3 DEF TypeOK, Return

LEMMA EditTypes ==
    ASSUME TypeOK, NEW u \in Source, Edit(u) PROVE TypeOK'
<1>1. u \in Service
  BY GraphAssumption
<1>2. /\ outdated' \in [Service -> SUBSET Service]
      /\ held' \in [Service -> SUBSET Service]
  BY <1>1 DEF TypeOK, Edit
<1>3. QED
  BY <1>2 DEF TypeOK, Edit, clients

LEMMA TypeStep ==
    ASSUME TypeOK, [Next]_vars PROVE TypeOK'
<1>1. CASE Call
  BY <1>1, CallTypes
<1>2. ASSUME NEW id \in Load,
             \/ DepsLoaded(id) \/ BodyStarts(id) \/ Finish(id) \/ Fail(id)
             \/ \E t \in Service : Set(id, t)
      PROVE TypeOK'
  BY <1>2, DepsLoadedTypes, BodyStartsTypes, FinishTypes, FailTypes, SetTypes
<1>3. ASSUME NEW c \in Client, Initialize(c) PROVE TypeOK'
  BY <1>3, BeginTypes, ListsTyped DEF Initialize, Kind, TypeOK
<1>4. ASSUME NEW c \in Client, NEW s \in Service, Get(c, s) PROVE TypeOK'
  <2>1. Begin(c, "get", <<s>>) /\ UNCHANGED state /\ <<s>> \in Seq(Service)
    BY <1>4, ListsTyped DEF Get
  <2>2. QED
    BY <2>1, BeginTypes DEF Kind, TypeOK
<1>5. ASSUME NEW c \in Client, NEW s \in Service, Reload(c, s) PROVE TypeOK'
  <2>1. PICK list \in Seq(Service) : list = <<s>> \o Affected[s]
    BY ListsTyped
  <2>2. Begin(c, "reload", list)
    BY <1>5, <2>1 DEF Reload
  <2>3. state' \in [Service -> State]
    BY <1>5 DEF Reload, TypeOK, State
  <2>4. QED
    BY <2>2, <2>3, BeginTypes DEF Kind
<1>6. ASSUME NEW c \in Client, Return(c) PROVE TypeOK'
  BY <1>6, ReturnTypes
<1>7. ASSUME NEW u \in Source, Edit(u) PROVE TypeOK'
  BY <1>7, EditTypes
<1>8. CASE UNCHANGED vars
  BY <1>8 DEF vars, TypeOK
<1>9. QED
  BY <1>1, <1>2, <1>3, <1>4, <1>5, <1>6, <1>7, <1>8, GraphAssumption DEF Next

-----------------------------------------------------------------------------
(* Who loads and who waits. *)

\* A load that has a service of its own is active as long as its phase is not "free".
LEMMA OthersStay ==
    ASSUME NEW id \in Load, NEW s \in Service, id[1] # s,
           \A l \in Load : l # id /\ at[l] # "free" => at'[l] # "free",
           ActiveLoads(s) # {}
    PROVE ActiveLoads(s)' # {}
BY DEF ActiveLoads

\* When no load ends, the services that are being loaded still are, and the loads that
\* are awaited still run.
LEMMA NobodyEnds ==
    ASSUME TypeOK, NoOrphanLoading, NoLostWaiter,
           \A id \in Load : at[id] # "free" => at'[id] # "free",
           \A s \in Service : state'[s] = "loading" => state[s] = "loading",
           \A w \in Waiter : /\ awaitsEvent'[w] \subseteq awaitsEvent[w]
                             /\ awaitsLoad'[w] \subseteq awaitsLoad[w]
    PROVE NoOrphanLoading' /\ NoLostWaiter'
<1>1. \A s \in Service : ActiveLoads(s) # {} => ActiveLoads(s)' # {}
  BY DEF ActiveLoads
<1>2. NoOrphanLoading'
  BY <1>1 DEF NoOrphanLoading
<1>3. ASSUME NEW w \in Waiter, NEW s \in awaitsEvent'[w] PROVE ActiveLoads(s)' # {}
  BY <1>1, <1>3 DEF NoLostWaiter, TypeOK
<1>4. ASSUME NEW w \in Waiter, NEW id \in awaitsLoad'[w] PROVE at'[id] # "free"
  BY <1>4 DEF NoLostWaiter, TypeOK
<1>5. QED
  BY <1>2, <1>3, <1>4 DEF NoLostWaiter

\* When the load id ends and all that wait for its service or for its promise are woken,
\* the others wait for loads that still run.
LEMMA OneEnds ==
    ASSUME TypeOK, NoOrphanLoading, NoLostWaiter, NEW id \in Load,
           \A l \in Load : l # id /\ at[l] # "free" => at'[l] # "free",
           state'[id[1]] # "loading",
           \A s \in Service : state'[s] = "loading" => state[s] = "loading",
           \A w \in Waiter : /\ awaitsEvent'[w] \subseteq awaitsEvent[w] \ {id[1]}
                             /\ awaitsLoad'[w] \subseteq awaitsLoad[w] \ {id}
    PROVE NoOrphanLoading' /\ NoLostWaiter'
<1>1. \A s \in Service : s # id[1] /\ ActiveLoads(s) # {} => ActiveLoads(s)' # {}
  BY OthersStay
<1>2. NoOrphanLoading'
  BY <1>1 DEF NoOrphanLoading
<1>3. ASSUME NEW w \in Waiter, NEW s \in awaitsEvent'[w] PROVE ActiveLoads(s)' # {}
  <2>1. s \in awaitsEvent[w] /\ s # id[1] /\ s \in Service
    BY <1>3 DEF TypeOK
  <2>2. QED
    BY <2>1, <1>1 DEF NoLostWaiter
<1>4. ASSUME NEW w \in Waiter, NEW l \in awaitsLoad'[w] PROVE at'[l] # "free"
  <2>1. l \in awaitsLoad[w] /\ l # id /\ l \in Load
    BY <1>4 DEF TypeOK
  <2>2. QED
    BY <2>1 DEF NoLostWaiter
<1>5. QED
  BY <1>2, <1>3, <1>4 DEF NoLostWaiter

\* A call makes its caller wait for a service that is being loaded, or for the load it
\* starts.
LEMMA CallWaits ==
    ASSUME TypeOK, NoOrphanLoading, NoLostWaiter, Call
    PROVE NoOrphanLoading' /\ NoLostWaiter'
<1>0. Head(calls).svc \in Service /\ Head(calls).by \in Waiter
  BY NextCall DEF Call
<1>1. PICK s \in Service, w \in Waiter : s = Head(calls).svc /\ w = Head(calls).by
  BY <1>0
<1>2. CASE WaitsForEvent(s, w)
  <2>1. \A t \in Service : ActiveLoads(t)' = ActiveLoads(t)
    BY <1>2 DEF WaitsForEvent, ActiveLoads
  <2>2. NoOrphanLoading'
    BY <1>2, <2>1 DEF WaitsForEvent, NoOrphanLoading
  <2>3. ASSUME NEW v \in Waiter, NEW t \in awaitsEvent'[v] PROVE ActiveLoads(t)' # {}
    <3>1. t \in awaitsEvent[v] \/ t = s
      BY <1>1, <1>2, <2>3 DEF WaitsForEvent, TypeOK
    <3>2. ActiveLoads(s) # {}
      BY <1>1, <1>2 DEF WaitsForEvent, NoOrphanLoading
    <3>3. t \in Service
      BY <3>1, <1>1 DEF TypeOK
    <3>4. QED
      BY <3>1, <3>2, <3>3, <2>1 DEF NoLostWaiter
  <2>4. \A v \in Waiter : \A id \in awaitsLoad'[v] : at'[id] # "free"
    BY <1>2 DEF WaitsForEvent, NoLostWaiter
  <2>5. QED
    BY <2>2, <2>3, <2>4 DEF NoLostWaiter
<1>3. CASE HasValue(s, w)
  BY <1>3, NobodyEnds DEF HasValue
<1>4. ASSUME NEW k \in Slot, StartsLoading(s, w, k)
      PROVE NoOrphanLoading' /\ NoLostWaiter'
  <2>1. <<s, k>> \in Load /\ <<s, k>> \in Waiter
    BY <1>1 DEF Load, Waiter
  <2>2. at'[<<s, k>>] = "deps" /\ \A id \in Load : at[id] # "free" => at'[id] # "free"
    <3>1. at' = [at EXCEPT ![<<s, k>>] = "deps"] /\ Load \subseteq Waiter
      BY <1>4 DEF StartsLoading, Waiter
    <3>2. QED
      BY <3>1, <2>1 DEF TypeOK
  <2>3. <<s, k>> \in ActiveLoads(s)'
    BY <2>1, <2>2 DEF ActiveLoads
  <2>4. \A t \in Service : ActiveLoads(t) # {} => ActiveLoads(t)' # {}
    BY <2>2 DEF ActiveLoads
  <2>5. NoOrphanLoading'
    <3>1. \A t \in Service : t # s => state'[t] = state[t]
      BY <1>1, <1>4 DEF StartsLoading, TypeOK
    <3>2. QED
      BY <3>1, <2>3, <2>4 DEF NoOrphanLoading
  <2>6. \A v \in Waiter : \A t \in awaitsEvent'[v] : ActiveLoads(t)' # {}
    BY <1>4, <2>4 DEF StartsLoading, NoLostWaiter, TypeOK
  <2>7. ASSUME NEW v \in Waiter, NEW id \in awaitsLoad'[v] PROVE at'[id] # "free"
    <3>1. id \in awaitsLoad[v] \/ id = <<s, k>>
      BY <1>1, <1>4, <2>7 DEF StartsLoading, TypeOK
    <3>2. CASE id = <<s, k>>
      BY <3>2, <2>2
    <3>3. CASE id \in awaitsLoad[v]
      BY <3>3, <2>2 DEF NoLostWaiter, TypeOK
    <3>4. QED
      BY <3>1, <3>2, <3>3
  <2>8. QED
    BY <2>5, <2>6, <2>7 DEF NoLostWaiter
<1>5. QED
  BY <1>1, <1>2, <1>3, <1>4 DEF Call

LEMMA WaitStep ==
    ASSUME IInv, [Next]_vars PROVE NoOrphanLoading' /\ NoLostWaiter'
<1> USE DEF IInv
<1>0. Load \subseteq Waiter /\ Load \cap Client = {}
  BY NamesAssumption DEF Load, Waiter
<1>1. CASE Call
  BY <1>1, CallWaits
<1>2. ASSUME NEW id \in Load, DepsLoaded(id) \/ BodyStarts(id)
      PROVE NoOrphanLoading' /\ NoLostWaiter'
  <2>1. /\ at' \in {[at EXCEPT ![id] = "inputs"], [at EXCEPT ![id] = "body"]}
        /\ UNCHANGED <<state, awaitsLoad, awaitsEvent>>
    BY <1>2 DEF DepsLoaded, BodyStarts
  <2>2. \A l \in Load : at[l] # "free" => at'[l] # "free"
    BY <2>1, <1>0 DEF TypeOK
  <2>3. QED
    BY <2>1, <2>2, NobodyEnds
<1>3. ASSUME NEW id \in Load, NEW t \in Service, Set(id, t)
      PROVE NoOrphanLoading' /\ NoLostWaiter'
  <2>1. PICK old : Answer(t, old, {}) /\ UNCHANGED at
    BY <1>3 DEF Set
  <2>2. \A s \in Service : state'[s] = "loading" => state[s] = "loading"
    BY <2>1 DEF Answer, TypeOK
  <2>3. \A w \in Waiter : /\ awaitsEvent'[w] \subseteq awaitsEvent[w]
                          /\ awaitsLoad'[w] \subseteq awaitsLoad[w]
    BY <2>1 DEF Answer
  <2>4. QED
    BY <2>1, <2>2, <2>3, NobodyEnds
<1>4. ASSUME NEW id \in Load, Finish(id) PROVE NoOrphanLoading' /\ NoLostWaiter'
  <2>1. id[1] \in Service
    BY DEF Load
  <2>2. Answer(id[1], seen[id], {id}) /\ at' = [at EXCEPT ![id] = "free"]
    BY <1>4 DEF Finish
  <2>3. \A l \in Load : l # id /\ at[l] # "free" => at'[l] # "free"
    BY <2>2, <1>0 DEF TypeOK
  <2>4. state'[id[1]] # "loading" /\ \A s \in Service : state'[s] = "loading" => state[s] = "loading"
    BY <2>1, <2>2 DEF Answer, TypeOK
  <2>5. \A w \in Waiter : /\ awaitsEvent'[w] \subseteq awaitsEvent[w] \ {id[1]}
                          /\ awaitsLoad'[w] \subseteq awaitsLoad[w] \ {id}
    BY <2>2 DEF Answer
  <2>6. QED
    BY <2>3, <2>4, <2>5, OneEnds
<1>5. ASSUME NEW id \in Load, Fail(id) PROVE NoOrphanLoading' /\ NoLostWaiter'
  <2>1. id[1] \in Service
    BY DEF Load
  <2>2. Reject(id, WokenBy(id)) /\ state' = [state EXCEPT ![id[1]] = "error"]
    BY <1>5 DEF Fail
  <2>3. \A l \in Load : l # id /\ at[l] # "free" => at'[l] # "free"
    BY <2>2, <1>0 DEF Reject
  <2>4. state'[id[1]] # "loading" /\ \A s \in Service : state'[s] = "loading" => state[s] = "loading"
    BY <2>1, <2>2 DEF TypeOK
  <2>5. \A w \in Waiter : /\ awaitsEvent'[w] \subseteq awaitsEvent[w] \ {id[1]}
                          /\ awaitsLoad'[w] \subseteq awaitsLoad[w] \ {id}
    BY <2>2 DEF Reject, WokenBy, EventWaiters
  <2>6. QED
    BY <2>3, <2>4, <2>5, OneEnds
<1>6. ASSUME NEW c \in Client, NEW k, NEW list, Begin(c, k, list),
             \A s \in Service : state'[s] = "loading" => state[s] = "loading"
      PROVE NoOrphanLoading' /\ NoLostWaiter'
  <2>1. at' = [at EXCEPT ![c] = "running"] /\ UNCHANGED <<awaitsLoad, awaitsEvent>>
    BY <1>6 DEF Begin
  <2>2. \A l \in Load : at[l] # "free" => at'[l] # "free"
    BY <2>1, <1>0 DEF TypeOK
  <2>3. QED
    BY <1>6, <2>1, <2>2, NobodyEnds
<1>7. ASSUME NEW c \in Client, NEW s \in Service, Initialize(c) \/ Get(c, s)
      PROVE NoOrphanLoading' /\ NoLostWaiter'
  BY <1>6, <1>7 DEF Initialize, Get
<1>8. ASSUME NEW c \in Client, NEW s \in Service, Reload(c, s)
      PROVE NoOrphanLoading' /\ NoLostWaiter'
  <2>1. \E list : Begin(c, "reload", list)
    BY <1>8 DEF Reload
  <2>2. \A t \in Service : state'[t] = "loading" => state[t] = "loading"
    BY <1>8 DEF Reload
  <2>3. QED
    BY <1>6, <2>1, <2>2
<1>9. ASSUME NEW c \in Client, Return(c) PROVE NoOrphanLoading' /\ NoLostWaiter'
  <2>1. \A l \in Load : at[l] # "free" => at'[l] # "free"
    BY <1>9, <1>0 DEF Return, TypeOK
  <2>2. QED
    BY <1>9, <2>1, NobodyEnds DEF Return
<1>10. ASSUME NEW u \in Source, Edit(u) PROVE NoOrphanLoading' /\ NoLostWaiter'
  BY <1>10, NobodyEnds DEF Edit
<1>11. CASE UNCHANGED vars
  BY <1>11, NobodyEnds DEF vars
<1>12. ASSUME NEW c \in Client, Initialize(c) PROVE NoOrphanLoading' /\ NoLostWaiter'
  BY <1>6, <1>12 DEF Initialize
<1>13. QED
  BY <1>1, <1>2, <1>3, <1>4, <1>5, <1>7, <1>8, <1>9, <1>10, <1>11, <1>12, GraphAssumption
  DEF Next

-----------------------------------------------------------------------------
(* The theorems. *)

LEMMA Initially == Init => IInv
<1> SUFFICES ASSUME Init PROVE IInv
  OBVIOUS
<1>1. << >> \in Seq(Calls)
  BY EmptySeq
<1>2. TypeOK
  BY <1>1, GraphAssumption, BoundsAssumption
  DEF Init, TypeOK, State, LoadPhase, ClientPhase, Kind, Load, Waiter
<1>3. NoOrphanLoading
  BY DEF Init, NoOrphanLoading
<1>4. NoLostWaiter
  BY DEF Init, NoLostWaiter
<1>5. QED
  BY <1>2, <1>3, <1>4 DEF IInv

(* The inductive invariant of the container, for any graph of services. *)
THEOREM Invariant == Spec => []IInv
<1>1. Init => IInv
  BY Initially
<1>2. IInv /\ [Next]_vars => IInv'
  BY TypeStep, WaitStep DEF IInv
<1>3. QED
  BY <1>1, <1>2, PTL DEF Spec

(* Every variable keeps to its type, however calls, loads and edits interleave. *)
THEOREM TypeCorrect == Spec => []TypeOK
<1>1. IInv => TypeOK
  BY DEF IInv
<1>2. QED
  BY <1>1, Invariant, PTL

(* A service that shows "loading" is being loaded (load(), reload(), setServiceError()). *)
THEOREM NoneOrphaned == Spec => []NoOrphanLoading
<1>1. IInv => NoOrphanLoading
  BY DEF IInv
<1>2. QED
  BY <1>1, Invariant, PTL

(* Whoever waits for an event or a promise waits for a load that runs (get(), load()). *)
THEOREM NobodyForgotten == Spec => []NoLostWaiter
<1>1. IInv => NoLostWaiter
  BY DEF IInv
<1>2. QED
  BY <1>1, Invariant, PTL

-----------------------------------------------------------------------------
(* One load of a service at a time, while one client's call runs alone. *)

\* s has a value while its factory runs.
Early(s) == state[s] = "ready" /\ ActiveLoads(s) # {}

\* The call loads its service unless that is loading.
Starts(call) == call.how = "load" \/ state[call.svc] \in {"idle", "error"}

\* The load id waits, or is still to ask, for the service d.
Awaits(id, d) ==
    \/ \E call \in ToSet(calls) : call.svc = d /\ call.by = id
    \/ d \in awaitsEvent[id]
    \/ \E l \in awaitsLoad[id] : l[1] = d

\* The service d was loaded in this call.
Loaded(d) ==
    /\ state[d] # "idle"
    /\ state[d] = "error" \/ ActiveLoads(d) # {} => d \in Again

\* Every load that waits for its dependencies waits for all of them.
AllAwaited ==
    \A id \in Load : at[id] = "deps" => \A d \in ToSet(Deps[id[1]]) : Awaits(id, d)

Once ==
    /\ \A l, m \in Load : at[l] # "free" /\ at[m] # "free" /\ l[1] = m[1] => l = m
    /\ \A l \in Load : at[l] # "free" =>
         state[l[1]] = "loading" \/ (state[l[1]] = "ready" /\ l[1] \in Published)
    /\ \A l \in Load : at[l] = "deps" =>
         \A d \in ToSet(Deps[l[1]]) : Awaits(l, d) \/ Loaded(d)
    /\ \A l \in Load : at[l] \notin {"deps", "inputs"} => Settled(l)
    /\ \A call \in ToSet(calls) :
         /\ call.by \in Load =>
              at[call.by] = IF call.how = "load" THEN "deps" ELSE "inputs"
         /\ Starts(call) =>
              /\ \A u \in Upstream[call.svc] : ~Early(u)
              /\ call.svc \in Again \/ AllAwaited

\* The service d has a value and is not being loaded.
Done(d) == state[d] = "ready" /\ ActiveLoads(d) = {}

\* A load that has not failed.
Busy(l) == at[l] \in {"deps", "inputs", "body"}

\* A factory that sets a service it is made from runs when that service is loaded.
Firm ==
    /\ \A l \in Load : l[1] \in Setter /\ Busy(l) =>
         \A d \in Below(l[1]) : Awaits(l, d) \/ Done(d)
    /\ \A call \in ToSet(calls) : Starts(call) =>
         /\ call.svc \in Again \/ \A l \in Load : at[l] \in {"free", "deps"}
         /\ \A l \in Load : l[1] \in Setter /\ Busy(l) /\ call.svc \in Below(l[1]) =>
              /\ at[l] = "deps"
              /\ \A u \in Upstream[call.svc] \cap Below(l[1]) : Awaits(l, u)

OnceInv == alone # {} => Once /\ Firm

LEMMA UpstreamFacts ==
    ASSUME NEW s \in Service
    PROVE  /\ s \in Upstream[s] /\ Upstream[s] \subseteq Service
           /\ ToSet(Deps[s]) \subseteq Service
           /\ \A d \in ToSet(Deps[s]) : Upstream[d] \subseteq Upstream[s]
<1>1. /\ s \in Upstream[s] /\ Upstream[s] \subseteq Service
      /\ \A t \in Upstream[s] : ToSet(Deps[t]) \subseteq Upstream[s]
  BY GraphAssumption, UpstreamAssumption
<1>2. ASSUME NEW d \in ToSet(Deps[s]) PROVE Upstream[d] \subseteq Upstream[s]
  <2>1. d \in Upstream[s] /\ d \in Service
    BY <1>1
  <2>2. Upstream[s] \in SUBSET Service
    BY <1>1
  <2>3. QED
    BY <1>1, <2>1, <2>2, UpstreamAssumption
<1>3. QED
  BY <1>1, <1>2

LEMMA AgainUpstream ==
    ASSUME NEW d \in Again, NEW u \in ToSet(Deps[d]) PROVE u \in Again
<1>1. PICK q \in Published : d \in Upstream[q] /\ \E r \in Service : q \in ToSet(Deps[r])
  BY DEF Again
<1>2. q \in Service /\ d \in Service
  BY DEF Published, Again
<1>3. u \in Upstream[q] /\ u \in Service
  BY <1>1, <1>2, UpstreamAssumption, UpstreamFacts
<1>4. QED
  BY <1>1, <1>3 DEF Again

LEMMA SetOfTail ==
    ASSUME NEW S, NEW q \in Seq(S), q # << >>
    PROVE  ToSet(q) = {Head(q)} \cup ToSet(Tail(q))
<1>1. /\ Len(q) \in Nat /\ Len(q) # 0 /\ DOMAIN q = 1 .. Len(q)
      /\ Tail(q) \in Seq(S) /\ Len(Tail(q)) = Len(q) - 1
      /\ DOMAIN Tail(q) = 1 .. Len(q) - 1
      /\ \A i \in 1 .. Len(q) - 1 : Tail(q)[i] = q[i + 1]
      /\ Head(q) = q[1]
  OBVIOUS
<1>2. ASSUME NEW i \in 1 .. Len(q) PROVE q[i] \in {Head(q)} \cup ToSet(Tail(q))
  <2>1. CASE i = 1
    BY <1>1, <2>1
  <2>2. CASE i # 1
    <3>1. i - 1 \in 1 .. Len(q) - 1 /\ Tail(q)[i - 1] = q[i]
      BY <1>1, <2>2
    <3>2. QED
      BY <1>1, <3>1 DEF ToSet
  <2>3. QED
    BY <2>1, <2>2
<1>3. ASSUME NEW i \in 1 .. Len(q) - 1 PROVE Tail(q)[i] \in ToSet(q)
  <2>1. i + 1 \in 1 .. Len(q)
    BY <1>1
  <2>2. QED
    BY <1>1, <2>1 DEF ToSet
<1>4. Head(q) \in ToSet(q)
  BY <1>1 DEF ToSet
<1>5. QED
  BY <1>1, <1>2, <1>3, <1>4 DEF ToSet

LEMMA SetOfBoth ==
    ASSUME NEW S, NEW a \in Seq(S), NEW b \in Seq(S)
    PROVE  ToSet(a \o b) = ToSet(a) \cup ToSet(b)
<1>1. /\ Len(a) \in Nat /\ Len(b) \in Nat
      /\ DOMAIN a = 1 .. Len(a) /\ DOMAIN b = 1 .. Len(b)
  OBVIOUS
<1>2. /\ a \o b \in Seq(S) /\ Len(a \o b) = Len(a) + Len(b)
      /\ \A i \in 1 .. Len(a) + Len(b) :
           (a \o b)[i] = IF i <= Len(a) THEN a[i] ELSE b[i - Len(a)]
  BY ConcatProperties
<1>. PICK ab : ab = a \o b
  OBVIOUS
<1>3. /\ DOMAIN ab = 1 .. Len(a) + Len(b)
      /\ \A i \in 1 .. Len(a) + Len(b) :
           ab[i] = IF i <= Len(a) THEN a[i] ELSE b[i - Len(a)]
  BY <1>2
<1>4. \A i \in 1 .. Len(a) + Len(b) : ab[i] \in ToSet(a) \cup ToSet(b)
  <2>. SUFFICES ASSUME NEW i \in 1 .. Len(a) + Len(b)
                PROVE  ab[i] \in ToSet(a) \cup ToSet(b)
    OBVIOUS
  <2>1. CASE i <= Len(a)
    BY <1>1, <1>3, <2>1 DEF ToSet
  <2>2. CASE ~(i <= Len(a))
    <3>1. i - Len(a) \in 1 .. Len(b) /\ ab[i] = b[i - Len(a)]
      BY <1>1, <1>3, <2>2
    <3>2. QED
      BY <1>1, <3>1 DEF ToSet
  <2>3. QED
    BY <2>1, <2>2
<1>5. \A i \in 1 .. Len(a) : a[i] \in ToSet(ab)
  <2>. SUFFICES ASSUME NEW i \in 1 .. Len(a) PROVE a[i] \in ToSet(ab)
    OBVIOUS
  <2>1. i \in 1 .. Len(a) + Len(b) /\ ab[i] = a[i]
    BY <1>1, <1>3
  <2>2. QED
    BY <1>3, <2>1 DEF ToSet
<1>6. \A i \in 1 .. Len(b) : b[i] \in ToSet(ab)
  <2>. SUFFICES ASSUME NEW i \in 1 .. Len(b) PROVE b[i] \in ToSet(ab)
    OBVIOUS
  <2>1. i + Len(a) \in 1 .. Len(a) + Len(b) /\ ab[i + Len(a)] = b[i]
    BY <1>1, <1>3
  <2>2. QED
    BY <1>3, <2>1 DEF ToSet
<1>7. ToSet(ab) = ToSet(a) \cup ToSet(b)
  BY <1>1, <1>3, <1>4, <1>5, <1>6 DEF ToSet
<1>8. QED
  BY <1>7

LEMMA SetOfCalls ==
    ASSUME NEW list \in Seq(Service), NEW how, NEW w
    PROVE  ToSet(CallsOf(list, how, w)) =
             {[svc |-> d, how |-> how, by |-> w] : d \in ToSet(list)}
<1>1. DOMAIN list = 1 .. Len(list)
  OBVIOUS
<1>2. QED
  BY <1>1 DEF ToSet, CallsOf

LEMMA CallsAre ==
    ASSUME TypeOK
    PROVE  /\ ToSet(calls) \subseteq Calls
           /\ \A call \in ToSet(calls) : call.svc \in Service /\ call.by \in Waiter
           /\ ~Quiet => /\ Head(calls) \in ToSet(calls)
                        /\ ToSet(calls) = {Head(calls)} \cup ToSet(Tail(calls))
<1>1. calls \in Seq(Calls) /\ DOMAIN calls = 1 .. Len(calls)
  BY DEF TypeOK
<1>2. \A i \in DOMAIN calls : calls[i] \in Calls
  BY <1>1
<1>3. ToSet(calls) \subseteq Calls
  BY <1>2 DEF ToSet
<1>4. ~Quiet => ToSet(calls) = {Head(calls)} \cup ToSet(Tail(calls))
  BY <1>1, SetOfTail DEF Quiet
<1>5. QED
  BY <1>3, <1>4 DEF Calls

\* Who awaits goes on to, when the call he made is the next and puts him in a queue.
LEMMA AwaitsKept ==
    ASSUME TypeOK, NEW id \in Load, NEW d, Awaits(id, d),
           \A call \in ToSet(calls) : call \in ToSet(calls') \/ (call.svc = d /\ call.by = id =>
             d \in awaitsEvent'[id] \/ \E l \in awaitsLoad'[id] : l[1] = d),
           awaitsEvent[id] \subseteq awaitsEvent'[id], awaitsLoad[id] \subseteq awaitsLoad'[id]
    PROVE  Awaits(id, d)'
BY DEF Awaits

LEMMA WaitsOnce ==
    ASSUME TypeOK, Once, ~Quiet, NEW s, NEW w, s = Head(calls).svc, w = Head(calls).by,
           WaitsForEvent(s, w) \/ HasValue(s, w)
    PROVE  Once'
<1>1. /\ UNCHANGED <<state, at, awaitsLoad>> /\ calls' = Tail(calls)
      /\ awaitsEvent' = awaitsEvent \/ awaitsEvent' = [awaitsEvent EXCEPT ![w] = @ \cup {s}]
  BY DEF WaitsForEvent, HasValue
<1>2. /\ ToSet(calls) = {Head(calls)} \cup ToSet(calls')
      /\ Head(calls) \in ToSet(calls) /\ w \in Waiter /\ s \in Service
  BY <1>1, CallsAre
<1>3. /\ \A u \in Service : ActiveLoads(u)' = ActiveLoads(u)
      /\ \A u \in Service : Early(u)' <=> Early(u)
      /\ \A d \in Service : Loaded(d)' <=> Loaded(d)
      /\ \A call \in ToSet(calls') : Starts(call)' <=> Starts(call)
  BY <1>1 DEF ActiveLoads, Early, Loaded, Starts
<1>4. ASSUME NEW id \in Load, at[id] = "deps", NEW d, Awaits(id, d) PROVE Awaits(id, d)'
  <2>1. awaitsEvent[id] \subseteq awaitsEvent'[id] /\ awaitsLoad[id] \subseteq awaitsLoad'[id]
    <3>1. id \in Waiter /\ awaitsEvent \in [Waiter -> SUBSET Service]
      BY DEF TypeOK, Waiter
    <3>2. awaitsEvent[id] \subseteq awaitsEvent'[id]
      BY <1>1, <3>1
    <3>3. QED
      BY <1>1, <3>2
  <2>2. Head(calls).svc = d /\ Head(calls).by = id => d \in awaitsEvent'[id]
    <3>. SUFFICES ASSUME s = d, w = id PROVE d \in awaitsEvent'[id]
      OBVIOUS
    <3>1. Head(calls).how # "get"
      BY <1>2, <1>4 DEF Once
    <3>2. awaitsEvent' = [awaitsEvent EXCEPT ![w] = @ \cup {s}]
      BY <3>1 DEF WaitsForEvent, HasValue
    <3>3. QED
      BY <1>2, <3>2 DEF TypeOK
  <2>3. QED
    BY <1>2, <1>4, <2>1, <2>2, AwaitsKept
<1>5. AllAwaited => AllAwaited'
  BY <1>1, <1>4 DEF AllAwaited
<1>6. \A l \in Load : at[l] = "deps" =>
         \A d \in ToSet(Deps[l[1]]) : (Awaits(l, d) \/ Loaded(d))'
  <2>. SUFFICES ASSUME NEW l \in Load, at[l] = "deps", NEW d \in ToSet(Deps[l[1]])
                PROVE  Awaits(l, d)' \/ Loaded(d)'
    OBVIOUS
  <2>1. Awaits(l, d) \/ Loaded(d)
    BY DEF Once
  <2>2. d \in Service
    BY UpstreamFacts DEF Load
  <2>3. QED
    BY <1>3, <1>4, <2>1, <2>2
<1>7. ASSUME NEW call \in ToSet(calls')
      PROVE  /\ call.by \in Load => at'[call.by] = IF call.how = "load" THEN "deps" ELSE "inputs"
             /\ Starts(call)' => /\ \A u \in Upstream[call.svc] : ~Early(u)'
                                 /\ call.svc \in Again \/ AllAwaited'
  <2>1. call \in ToSet(calls) /\ call.svc \in Service
    BY <1>2, CallsAre
  <2>2. Upstream[call.svc] \subseteq Service
    BY <2>1, UpstreamFacts
  <2>3. QED
    BY <1>1, <1>3, <1>5, <2>1, <2>2 DEF Once
<1>8. ASSUME NEW l \in Load, at'[l] \notin {"deps", "inputs"} PROVE Settled(l)'
  <2>1. at[l] \notin {"deps", "inputs"} /\ Settled(l)
    BY <1>1, <1>8 DEF Once
  <2>2. l # w
    BY <1>2, <2>1 DEF Once
  <2>3. l \in Waiter /\ awaitsEvent \in [Waiter -> SUBSET Service]
    BY DEF TypeOK, Waiter
  <2>4. QED
    BY <1>1, <2>1, <2>2, <2>3 DEF Settled
<1>9. QED
  BY <1>1, <1>6, <1>7, <1>8 DEF Once

LEMMA StartsOnce ==
    ASSUME IInv, Once, ~Quiet, NEW s, NEW w, s = Head(calls).svc, w = Head(calls).by,
           NEW k \in Slot, StartsLoading(s, w, k)
    PROVE  Once'
<1>0. TypeOK /\ NoOrphanLoading
  BY DEF IInv
<1>1. PICK id : id = <<s, k>>
  OBVIOUS
<1>2. /\ w \in Waiter /\ s \in Service /\ Head(calls) \in ToSet(calls)
      /\ ToSet(calls) = {Head(calls)} \cup ToSet(Tail(calls))
  BY <1>0, CallsAre
<1>3. id \in Load /\ id[1] = s /\ Load \subseteq Waiter /\ at[id] = "free"
  BY <1>1, <1>2 DEF Load, Waiter, StartsLoading, FreeSlot
<1>4. /\ state[s] # "loading" /\ state' = [state EXCEPT ![s] = "loading"]
      /\ at' = [at EXCEPT ![id] = "deps"]
      /\ awaitsLoad' = [awaitsLoad EXCEPT ![w] = @ \cup {id}]
      /\ calls' = CallsOf(Deps[s], "load", id) \o Tail(calls)
      /\ UNCHANGED awaitsEvent
      /\ Head(calls).how = "get" => state[s] # "ready"
  BY <1>1 DEF StartsLoading
<1>5. Starts(Head(calls))
  <2>1. Head(calls).how \in How /\ state[s] \in State
    BY <1>0, <1>2, CallsAre DEF Calls, TypeOK
  <2>2. QED
    BY <1>4, <2>1 DEF Starts, How, State
<1>6. /\ \A u \in Upstream[s] : ~Early(u)
      /\ s \in Again \/ AllAwaited
  BY <1>2, <1>5 DEF Once
<1>7. \A l \in Load : l[1] = s => at[l] = "free"
  <2>1. ~Early(s)
    BY <1>2, <1>6, UpstreamFacts
  <2>2. \A l \in Load : at[l] # "free" => state[l[1]] = "loading" \/ state[l[1]] = "ready"
    BY DEF Once
  <2>3. QED
    BY <1>4, <2>1, <2>2 DEF Early, ActiveLoads
<1>8. /\ at'[id] = "deps" /\ \A l \in Load : l # id => at'[l] = at[l]
      /\ state'[s] = "loading" /\ \A t \in Service : t # s => state'[t] = state[t]
  BY <1>0, <1>2, <1>3, <1>4 DEF TypeOK
<1>9. /\ \A u \in Service : u # s => ActiveLoads(u)' = ActiveLoads(u)
      /\ \A u \in Service : Early(u)' => Early(u)
  BY <1>3, <1>8 DEF ActiveLoads, Early
<1>10. ToSet(calls') = {[svc |-> d, how |-> "load", by |-> id] : d \in ToSet(Deps[s])}
                       \cup ToSet(Tail(calls))
  <2>1. Deps[s] \in Seq(Service) /\ id \in Waiter
    BY <1>2, <1>3, GraphAssumption
  <2>2. CallsOf(Deps[s], "load", id) \in Seq(Calls)
    BY <2>1, CallsTyped DEF How
  <2>3. Tail(calls) \in Seq(Calls)
    BY <1>0, NextCall
  <2>4. PICK a \in Seq(Calls), b \in Seq(Calls) :
          a = CallsOf(Deps[s], "load", id) /\ b = Tail(calls)
    BY <2>2, <2>3
  <2>5. ToSet(a \o b) = ToSet(a) \cup ToSet(b)
    BY SetOfBoth
  <2>6. ToSet(a) = {[svc |-> d, how |-> "load", by |-> id] : d \in ToSet(Deps[s])}
    BY <2>1, <2>4, SetOfCalls
  <2>7. calls' = a \o b
    BY <1>4, <2>4
  <2>8. QED
    BY <2>4, <2>5, <2>6, <2>7
<1>11. ASSUME NEW l \in Load, NEW d, Awaits(l, d) PROVE Awaits(l, d)'
  <2>1. awaitsEvent[l] \subseteq awaitsEvent'[l] /\ awaitsLoad[l] \subseteq awaitsLoad'[l]
    BY <1>0, <1>3, <1>4 DEF TypeOK
  <2>2. s = d /\ w = l => \E m \in awaitsLoad'[l] : m[1] = d
    BY <1>0, <1>2, <1>3, <1>4 DEF TypeOK
  <2>3. QED
    BY <1>0, <1>2, <1>10, <1>11, <2>1, <2>2, AwaitsKept
<1>12. \A d \in ToSet(Deps[s]) : Awaits(id, d)'
  <2>. SUFFICES ASSUME NEW d \in ToSet(Deps[s]) PROVE Awaits(id, d)'
    OBVIOUS
  <2>1. PICK call : call = [svc |-> d, how |-> "load", by |-> id]
    OBVIOUS
  <2>2. call \in ToSet(calls') /\ call.svc = d /\ call.by = id
    BY <1>10, <2>1
  <2>3. QED
    BY <2>2 DEF Awaits
<1>13. AllAwaited => AllAwaited'
  BY <1>3, <1>8, <1>11, <1>12 DEF AllAwaited
<1>14. \A l, m \in Load : at'[l] # "free" /\ at'[m] # "free" /\ l[1] = m[1] => l = m
  <2>1. \A l, m \in Load : at[l] # "free" /\ at[m] # "free" /\ l[1] = m[1] => l = m
    BY DEF Once
  <2>2. QED
    BY <1>3, <1>7, <1>8, <2>1
<1>15. \A l \in Load : at'[l] # "free" =>
         state'[l[1]] = "loading" \/ (state'[l[1]] = "ready" /\ l[1] \in Published)
  <2>. SUFFICES ASSUME NEW l \in Load, at'[l] # "free"
                PROVE  state'[l[1]] = "loading" \/ (state'[l[1]] = "ready" /\ l[1] \in Published)
    OBVIOUS
  <2>1. CASE l[1] = s
    BY <1>8, <2>1
  <2>2. CASE l[1] # s
    <3>1. l[1] \in Service /\ at[l] # "free"
      BY <1>3, <1>8, <2>2 DEF Load
    <3>2. QED
      BY <1>8, <2>2, <3>1 DEF Once
  <2>3. QED
    BY <2>1, <2>2
<1>16. ASSUME NEW l \in Load, at'[l] = "deps", NEW d \in ToSet(Deps[l[1]])
       PROVE  Awaits(l, d)' \/ Loaded(d)'
  <2>1. CASE l = id
    BY <1>3, <1>12, <1>16, <2>1
  <2>2. CASE l # id
    <3>1. at[l] = "deps" /\ d \in Service
      BY <1>8, <1>16, <2>2, UpstreamFacts DEF Load
    <3>2. CASE Awaits(l, d)
      BY <1>11, <3>2
    <3>3. CASE ~Awaits(l, d)
      <4>1. Loaded(d)
        BY <3>1, <3>3 DEF Once
      <4>2. s \in Again
        BY <1>6, <3>1, <3>3 DEF AllAwaited
      <4>3. Loaded(d)'
        BY <1>8, <1>9, <3>1, <4>1, <4>2 DEF Loaded
      <4>4. QED
        BY <4>3
    <3>4. QED
      BY <3>2, <3>3
  <2>3. QED
    BY <2>1, <2>2
<1>17. ASSUME NEW call \in ToSet(Tail(calls))
       PROVE  /\ call.by \in Load => at'[call.by] = IF call.how = "load" THEN "deps" ELSE "inputs"
              /\ Starts(call)' => /\ \A u \in Upstream[call.svc] : ~Early(u)'
                                  /\ call.svc \in Again \/ AllAwaited'
  <2>1. call \in ToSet(calls) /\ call.svc \in Service /\ Upstream[call.svc] \subseteq Service
    BY <1>0, <1>2, CallsAre, UpstreamFacts
  <2>2. Starts(call)' => Starts(call)
    BY <1>8, <2>1 DEF Starts
  <2>3. call.by \in Load => call.by # id
    BY <1>3, <2>1 DEF Once
  <2>4. QED
    BY <1>8, <1>9, <1>13, <2>1, <2>2, <2>3 DEF Once
<1>18. ASSUME NEW d \in ToSet(Deps[s])
       PROVE  /\ \A u \in Upstream[d] : ~Early(u)'
              /\ d \in Again \/ AllAwaited'
  <2>1. Upstream[d] \subseteq Upstream[s] /\ Upstream[s] \subseteq Service
    BY <1>2, UpstreamFacts
  <2>2. \A u \in Upstream[d] : ~Early(u)'
    BY <1>6, <1>9, <2>1
  <2>3. QED
    BY <1>6, <1>13, <2>2, AgainUpstream
<1>19. ASSUME NEW call \in ToSet(calls')
       PROVE  /\ call.by \in Load => at'[call.by] = IF call.how = "load" THEN "deps" ELSE "inputs"
              /\ Starts(call)' => /\ \A u \in Upstream[call.svc] : ~Early(u)'
                                  /\ call.svc \in Again \/ AllAwaited'
  <2>1. CASE call \in ToSet(Tail(calls))
    BY <1>17, <2>1
  <2>2. ASSUME NEW d \in ToSet(Deps[s]), call = [svc |-> d, how |-> "load", by |-> id]
        PROVE  /\ call.by \in Load => at'[call.by] = IF call.how = "load" THEN "deps" ELSE "inputs"
               /\ \A u \in Upstream[call.svc] : ~Early(u)'
               /\ call.svc \in Again \/ AllAwaited'
    <3>1. call.svc = d /\ call.how = "load" /\ call.by = id
      BY <2>2
    <3>2. QED
      BY <1>8, <1>18, <3>1
  <2>3. QED
    BY <1>10, <2>1, <2>2
<1>20. ASSUME NEW l \in Load, at'[l] \notin {"deps", "inputs"} PROVE Settled(l)'
  <2>1. l # id /\ at[l] \notin {"deps", "inputs"} /\ Settled(l)
    BY <1>8, <1>20 DEF Once
  <2>2. l # w
    BY <1>2, <2>1 DEF Once
  <2>3. l \in Waiter /\ awaitsLoad \in [Waiter -> SUBSET Load]
    BY <1>0, <1>3 DEF TypeOK
  <2>4. QED
    BY <1>4, <2>1, <2>2, <2>3 DEF Settled
<1>21. QED
  BY <1>14, <1>15, <1>16, <1>19, <1>20 DEF Once

\* A step between calls, after which the loads that still wait for a service have it or
\* await it as before.
LEMMA QuietOnce ==
    ASSUME Once, Quiet, calls' = calls,
           \A l \in Load : at'[l] # "free" => at[l] # "free",
           \A l \in Load : at'[l] # "free" =>
             state'[l[1]] = "loading" \/ (state'[l[1]] = "ready" /\ l[1] \in Published),
           \A l \in Load : at'[l] = "deps" =>
             \A d \in ToSet(Deps[l[1]]) : Awaits(l, d)' \/ Loaded(d)',
           \A l \in Load : at'[l] \notin {"deps", "inputs"} => Settled(l)'
    PROVE  Once'
<1>1. \A l, m \in Load : at'[l] # "free" /\ at'[m] # "free" /\ l[1] = m[1] => l = m
  BY DEF Once
<1>2. ToSet(calls') = {}
  BY DEF Quiet, ToSet
<1>3. QED
  BY <1>1, <1>2 DEF Once

\* Nothing is to be asked between calls.
LEMMA QuietAwaits ==
    ASSUME Quiet, NEW l, NEW d
    PROVE  Awaits(l, d) <=> d \in awaitsEvent[l] \/ \E m \in awaitsLoad[l] : m[1] = d
<1>1. ToSet(calls) = {}
  BY DEF Quiet, ToSet
<1>2. QED
  BY <1>1 DEF Awaits

LEMMA DepsLoadedOnce ==
    ASSUME IInv, Once, PublishersApart, NEW id \in Load, DepsLoaded(id)
    PROVE  Once'
<1>0. TypeOK /\ Quiet
  BY DEF IInv, DepsLoaded
<1>1. PICK s \in Service : s = id[1]
  BY DEF Load
<1>2. id \in Waiter /\ Load \subseteq Waiter
  BY DEF Waiter
<1>3. /\ at[id] = "deps" /\ Settled(id) /\ at' = [at EXCEPT ![id] = "inputs"]
      /\ calls' = CallsOf(Deps[s], "get", id)
      /\ UNCHANGED <<state, awaitsLoad, awaitsEvent>>
  BY <1>1 DEF DepsLoaded
<1>4. at'[id] = "inputs" /\ \A l \in Load : l # id => at'[l] = at[l]
  BY <1>0, <1>2, <1>3 DEF TypeOK
<1>5. ToSet(calls') = {[svc |-> d, how |-> "get", by |-> id] : d \in ToSet(Deps[s])}
  BY <1>3, GraphAssumption, SetOfCalls
<1>6. \A u : ActiveLoads(u)' = ActiveLoads(u) /\ (Early(u)' <=> Early(u)) /\ (Loaded(u)' <=> Loaded(u))
  BY <1>3, <1>4 DEF ActiveLoads, Early, Loaded
<1>7. \A l \in Load : \A d : Awaits(l, d) => Awaits(l, d)'
  <2>1. ToSet(calls) = {}
    BY <1>0 DEF Quiet, ToSet
  <2>2. QED
    BY <1>3, <2>1 DEF Awaits
<1>8. ASSUME NEW d \in ToSet(Deps[s])
      PROVE  state[d] \in {"idle", "error"} =>
               d \in Again /\ \A u \in Upstream[d] : ~Early(u)
  <2>1. ~Awaits(id, d)
    BY <1>0, <1>3, QuietAwaits DEF Settled
  <2>2. Loaded(d)
    BY <1>1, <1>3, <2>1 DEF Once
  <2>3. d \in Service /\ Upstream[d] \subseteq Service
    BY UpstreamFacts
  <2>. SUFFICES ASSUME state[d] \in {"idle", "error"}
                PROVE  d \in Again /\ \A u \in Upstream[d] : ~Early(u)
    OBVIOUS
  <2>4. state[d] = "error" /\ d \in Again
    BY <2>2 DEF Loaded
  <2>5. ASSUME NEW u \in Upstream[d], Early(u) PROVE FALSE
    <3>1. u \in Published
      BY <2>5 DEF Early, ActiveLoads, Once
    <3>2. u = d
      BY <2>4, <3>1 DEF PublishersApart
    <3>3. QED
      BY <2>4, <2>5, <3>2 DEF Early
  <2>6. QED
    BY <2>4, <2>5
<1>9. ASSUME NEW call \in ToSet(calls')
      PROVE  /\ call.by \in Load => at'[call.by] = IF call.how = "load" THEN "deps" ELSE "inputs"
             /\ Starts(call)' => /\ \A u \in Upstream[call.svc] : ~Early(u)'
                                 /\ call.svc \in Again \/ AllAwaited'
  <2>1. PICK d \in ToSet(Deps[s]) : call = [svc |-> d, how |-> "get", by |-> id]
    BY <1>5
  <2>2. call.svc = d /\ call.how = "get" /\ call.by = id
    BY <2>1
  <2>3. Starts(call)' => state[d] \in {"idle", "error"}
    BY <1>3, <2>2 DEF Starts
  <2>4. QED
    BY <1>4, <1>6, <1>8, <2>2, <2>3
<1>10. \A l, m \in Load : at'[l] # "free" /\ at'[m] # "free" /\ l[1] = m[1] => l = m
  BY <1>3, <1>4 DEF Once
<1>11. \A l \in Load : at'[l] # "free" =>
         state'[l[1]] = "loading" \/ (state'[l[1]] = "ready" /\ l[1] \in Published)
  BY <1>3, <1>4 DEF Once
<1>12. \A l \in Load : at'[l] = "deps" =>
         \A d \in ToSet(Deps[l[1]]) : Awaits(l, d)' \/ Loaded(d)'
  BY <1>4, <1>6, <1>7 DEF Once
<1>13. \A l \in Load : at'[l] \notin {"deps", "inputs"} => Settled(l)'
  BY <1>3, <1>4 DEF Once, Settled
<1>14. QED
  BY <1>9, <1>10, <1>11, <1>12, <1>13 DEF Once

LEMMA BodyStartsOnce ==
    ASSUME IInv, Once, NEW id \in Load, BodyStarts(id)
    PROVE  Once'
<1>1. /\ Quiet /\ at[id] = "inputs" /\ Settled(id) /\ at' = [at EXCEPT ![id] = "body"]
      /\ UNCHANGED <<state, awaitsLoad, awaitsEvent, calls>>
  BY DEF BodyStarts
<1>2. at'[id] = "body" /\ \A l \in Load : l # id => at'[l] = at[l]
  BY <1>1 DEF IInv, TypeOK, Waiter
<1>3. \A u : ActiveLoads(u)' = ActiveLoads(u) /\ (Loaded(u)' <=> Loaded(u))
  BY <1>1, <1>2 DEF ActiveLoads, Loaded
<1>4. \A l, d : Awaits(l, d)' <=> Awaits(l, d)
  BY <1>1 DEF Awaits
<1>5. \A l \in Load : at'[l] = "deps" =>
        \A d \in ToSet(Deps[l[1]]) : Awaits(l, d)' \/ Loaded(d)'
  BY <1>2, <1>3, <1>4 DEF Once
<1>6. \A l \in Load : at'[l] \notin {"deps", "inputs"} => Settled(l)'
  BY <1>1, <1>2 DEF Once, Settled
<1>7. \A l \in Load : at'[l] # "free" =>
         /\ at[l] # "free"
         /\ state'[l[1]] = "loading" \/ (state'[l[1]] = "ready" /\ l[1] \in Published)
  BY <1>1, <1>2 DEF Once
<1>8. QED
  BY <1>1, <1>5, <1>6, <1>7, QuietOnce

\* A factory that publishes a state sets its own service, or one that is loaded.
LEMMA SetsDone ==
    ASSUME Once, Firm, NEW id \in Load, NEW t \in Service, Set(id, t)
    PROVE  t \in Published \/ Done(t)
<1>1. /\ Quiet /\ at[id] = "body" /\ t \in Sets[id[1]] /\ id[1] \in Service
  BY DEF Set, Load
<1>2. CASE t \in Below(id[1])
  <2>1. id[1] \in Setter /\ Busy(id)
    BY <1>1, <1>2 DEF Setter, Busy
  <2>2. Awaits(id, t) \/ Done(t)
    BY <1>2, <2>1 DEF Firm
  <2>3. Settled(id)
    BY <1>1 DEF Once
  <2>4. QED
    BY <1>1, <2>2, <2>3, QuietAwaits DEF Settled
<1>3. CASE t \notin Below(id[1])
  BY <1>1, <1>3 DEF Published
<1>4. QED
  BY <1>2, <1>3

LEMMA SetOnce ==
    ASSUME IInv, Once, Firm, NEW id \in Load, NEW t \in Service, Set(id, t)
    PROVE  Once'
<1>1. PICK old : Answer(t, old, {})
  BY DEF Set
<1>2. /\ Quiet /\ UNCHANGED <<at, calls>>
      /\ t \in Published \/ ActiveLoads(t) = {}
  BY SetsDone DEF Set, Done
<1>3. /\ state'[t] = "ready" /\ \A s \in Service : s # t => state'[s] = state[s]
      /\ \A w \in Waiter : awaitsEvent'[w] = awaitsEvent[w] \ {t} /\ awaitsLoad'[w] = awaitsLoad[w]
  BY <1>1 DEF Answer, IInv, TypeOK
<1>4. \A u : ActiveLoads(u)' = ActiveLoads(u)
  BY <1>2 DEF ActiveLoads
<1>5. ASSUME NEW l \in Load, at[l] = "deps", NEW d \in ToSet(Deps[l[1]])
      PROVE  Awaits(l, d)' \/ Loaded(d)'
  <2>1. d \in Service /\ l[1] \in Service /\ l \in Waiter
    BY UpstreamFacts DEF Load, Waiter
  <2>2. Awaits(l, d) \/ Loaded(d)
    BY <1>5 DEF Once
  <2>3. CASE d = t
    <3>1. t \in Again \/ ActiveLoads(t)' = {}
      BY <1>2, <1>4, <1>5, <2>1, <2>3, UpstreamFacts DEF Again
    <3>2. QED
      BY <1>3, <2>3, <3>1 DEF Loaded
  <2>4. CASE d # t
    <3>1. Loaded(d) => Loaded(d)'
      BY <1>3, <1>4, <2>1, <2>4 DEF Loaded
    <3>2. Awaits(l, d) => Awaits(l, d)'
      BY <1>2, <1>3, <2>1, <2>4 DEF Awaits
    <3>3. QED
      BY <2>2, <3>1, <3>2
  <2>5. QED
    BY <2>3, <2>4
<1>6. \A l \in Load : at'[l] \notin {"deps", "inputs"} => Settled(l)'
  BY <1>2, <1>3 DEF Once, Settled, Waiter
<1>7. ASSUME NEW l \in Load, at'[l] # "free"
      PROVE  /\ at[l] # "free"
             /\ state'[l[1]] = "loading" \/ (state'[l[1]] = "ready" /\ l[1] \in Published)
  <2>1. l[1] \in Service /\ l \in ActiveLoads(l[1])
    BY <1>2, <1>7 DEF Load, ActiveLoads
  <2>2. CASE l[1] = t
    BY <1>2, <1>3, <1>7, <2>1, <2>2
  <2>3. CASE l[1] # t
    BY <1>2, <1>3, <1>7, <2>1, <2>3 DEF Once
  <2>4. QED
    BY <2>2, <2>3
<1>8. QED
  BY <1>2, <1>5, <1>6, <1>7, QuietOnce

\* The load id ends, and nobody waits for it any more.
LEMMA EndOnce ==
    ASSUME IInv, Once, Quiet, calls' = calls, NEW id \in Load, at[id] # "free",
           at'[id] = "free",
           state' = [state EXCEPT ![id[1]] = "ready"] \/ state' = [state EXCEPT ![id[1]] = "error"],
           \A l \in Load : at'[l] # "free" => at[l] # "free",
           \A l \in Load : at'[l] = "deps" =>
             /\ at[l] = "deps"
             /\ \A d \in Service : d # id[1] /\ Awaits(l, d) => Awaits(l, d)'
             /\ state'[id[1]] = "ready" \/ ~Awaits(l, id[1]),
           \A l \in Load : l # id /\ l[1] # id[1] /\ at[l] # "free" => at'[l] # "free",
           \A l \in Load : at'[l] \notin {"deps", "inputs"} => Settled(l)'
    PROVE  Once'
<1>1. PICK s \in Service : s = id[1]
  BY DEF Load
<1>2. ActiveLoads(s) # {} /\ ActiveLoads(s)' = {}
  <2>1. \A l \in Load : l[1] = s /\ at[l] # "free" => l = id
    BY <1>1 DEF Once
  <2>2. QED
    BY <1>1, <2>1 DEF ActiveLoads
<1>3. \A d \in Service : d # s => ActiveLoads(d)' = ActiveLoads(d) /\ state'[d] = state[d]
  <2>1. \A l \in Load : l[1] # s => (at'[l] # "free" <=> at[l] # "free")
    BY <1>1
  <2>2. QED
    BY <1>1, <2>1 DEF ActiveLoads, IInv, TypeOK
<1>4. state'[s] = "ready" \/ state'[s] = "error"
  BY <1>1 DEF IInv, TypeOK
<1>5. ASSUME NEW l \in Load, at'[l] = "deps", NEW d \in ToSet(Deps[l[1]])
      PROVE  Awaits(l, d)' \/ Loaded(d)'
  <2>1. d \in Service /\ at[l] = "deps"
    BY <1>5, UpstreamFacts DEF Load
  <2>2. Awaits(l, d) \/ Loaded(d)
    BY <2>1 DEF Once
  <2>3. CASE d = s
    <3>1. CASE state'[s] = "ready"
      BY <1>2, <2>3, <3>1 DEF Loaded
    <3>2. CASE state'[s] = "error"
      <4>1. Loaded(s)
        BY <1>1, <1>5, <2>2, <2>3, <3>2
      <4>2. s \in Again
        BY <1>2, <4>1 DEF Loaded
      <4>3. QED
        BY <2>3, <3>2, <4>2 DEF Loaded
    <3>3. QED
      BY <1>4, <3>1, <3>2
  <2>4. CASE d # s
    <3>1. Loaded(d) => Loaded(d)'
      BY <1>3, <2>1, <2>4 DEF Loaded
    <3>2. QED
      BY <1>1, <1>5, <2>1, <2>2, <2>4, <3>1
  <2>5. QED
    BY <2>3, <2>4
<1>6. \A l \in Load : at'[l] # "free" =>
        state'[l[1]] = "loading" \/ (state'[l[1]] = "ready" /\ l[1] \in Published)
  <2>. SUFFICES ASSUME NEW l \in Load, at'[l] # "free"
                PROVE  state'[l[1]] = "loading" \/ (state'[l[1]] = "ready" /\ l[1] \in Published)
    OBVIOUS
  <2>1. l[1] # s /\ l[1] \in Service
    BY <1>2 DEF ActiveLoads, Load
  <2>2. QED
    BY <1>3, <2>1 DEF Once
<1>7. QED
  BY <1>5, <1>6, QuietOnce

LEMMA FinishOnce ==
    ASSUME IInv, Once, NEW id \in Load, Finish(id)
    PROVE  Once'
<1>1. PICK s \in Service : s = id[1]
  BY DEF Load
<1>2. /\ Quiet /\ at[id] = "body" /\ at' = [at EXCEPT ![id] = "free"] /\ UNCHANGED calls
      /\ Answer(s, seen[id], {id})
  BY <1>1 DEF Finish
<1>3. at'[id] = "free" /\ \A l \in Load : l # id => at'[l] = at[l]
  BY <1>2 DEF IInv, TypeOK, Waiter
<1>4. \A w \in Waiter : /\ awaitsEvent'[w] = awaitsEvent[w] \ {s}
                        /\ awaitsLoad'[w] = awaitsLoad[w] \ {id}
  BY <1>2 DEF Answer
<1>5. state' = [state EXCEPT ![s] = "ready"] /\ state'[s] = "ready"
  BY <1>2 DEF Answer, IInv, TypeOK
<1>6. ASSUME NEW l \in Load, NEW d \in Service, d # s, Awaits(l, d) PROVE Awaits(l, d)'
  <2>1. l \in Waiter
    BY DEF Waiter
  <2>2. QED
    BY <1>1, <1>2, <1>4, <1>6, <2>1 DEF Awaits
<1>7. \A l \in Load : at'[l] \notin {"deps", "inputs"} => Settled(l)'
  <2>. SUFFICES ASSUME NEW l \in Load, at'[l] \notin {"deps", "inputs"} PROVE Settled(l)'
    OBVIOUS
  <2>1. Settled(l) /\ l \in Waiter
    BY <1>2, <1>3 DEF Once, Waiter
  <2>2. QED
    BY <1>4, <2>1 DEF Settled
<1>8. \A l \in Load : at'[l] = "deps" =>
             /\ at[l] = "deps"
             /\ \A d \in Service : d # id[1] /\ Awaits(l, d) => Awaits(l, d)'
             /\ state'[id[1]] = "ready" \/ ~Awaits(l, id[1])
  BY <1>1, <1>3, <1>5, <1>6
<1>9. QED
  BY <1>1, <1>2, <1>3, <1>5, <1>7, <1>8, EndOnce

LEMMA FailOnce ==
    ASSUME IInv, Once, NEW id \in Load, Fail(id)
    PROVE  Once'
<1>0. TypeOK /\ NoLostWaiter
  BY DEF IInv
<1>1. PICK s \in Service : s = id[1]
  BY DEF Load
<1>2. /\ Quiet /\ at[id] \in {"body", "failing"} /\ Reject(id, WokenBy(id)) /\ UNCHANGED calls
      /\ state' = [state EXCEPT ![s] = "error"]
  BY <1>1 DEF Fail
<1>3. /\ WokenBy(id) \subseteq Waiter /\ id \in Waiter /\ Load \subseteq Waiter
      /\ \A w \in Waiter : w \in WokenBy(id) <=> id \in awaitsLoad[w] \/ s \in awaitsEvent[w]
  BY <1>1 DEF WokenBy, EventWaiters, Waiter
<1>4. \A l \in Load : ~Tolerant(l)
  BY NamesAssumption DEF Tolerant, Load
<1>5. PICK woken \in SUBSET Waiter : woken = WokenBy(id)
  BY <1>3
<1>6. \A l \in Load : at'[l] = IF l = id THEN "free" ELSE IF l \in woken THEN "failing" ELSE at[l]
  BY <1>2, <1>3, <1>4, <1>5 DEF Reject
<1>7. \A l \in Load :
        /\ awaitsEvent'[l] = IF l \in woken THEN {} ELSE awaitsEvent[l]
        /\ awaitsLoad'[l] = IF l \in woken THEN {} ELSE awaitsLoad[l]
  BY <1>2, <1>3, <1>4, <1>5 DEF Reject
<1>8. \A l \in Load : l \in woken => at[l] # "free"
  <2>. SUFFICES ASSUME NEW l \in Load, l \in woken, at[l] = "free" PROVE FALSE
    OBVIOUS
  <2>1. Settled(l)
    BY DEF Once
  <2>2. QED
    BY <1>3, <1>5, <2>1 DEF Settled
<1>9. \A l \in Load : at'[l] # "free" => at[l] # "free"
  BY <1>6, <1>8
<1>10. ASSUME NEW l \in Load, at'[l] = "deps"
       PROVE  /\ at[l] = "deps"
              /\ \A d \in Service : d # id[1] /\ Awaits(l, d) => Awaits(l, d)'
              /\ state'[id[1]] = "ready" \/ ~Awaits(l, id[1])
  <2>1. l # id /\ l \notin woken /\ at[l] = "deps"
    BY <1>6, <1>10
  <2>2. \A d : Awaits(l, d) => Awaits(l, d)'
    BY <1>2, <1>7, <2>1 DEF Awaits
  <2>3. ~Awaits(l, s)
    <3>1. s \notin awaitsEvent[l] /\ id \notin awaitsLoad[l] /\ l \in Waiter
      BY <1>3, <1>5, <2>1
    <3>2. \A m \in awaitsLoad[l] : m \in Load /\ at[m] # "free"
      BY <1>0, <3>1 DEF NoLostWaiter, TypeOK
    <3>3. \A m \in awaitsLoad[l] : m[1] = s => m = id
      BY <1>1, <1>2, <3>2 DEF Once
    <3>4. QED
      BY <1>2, <3>1, <3>3, QuietAwaits
  <2>4. QED
    BY <1>1, <2>1, <2>2, <2>3
<1>11. \A l \in Load : at'[l] \notin {"deps", "inputs"} => Settled(l)'
  <2>. SUFFICES ASSUME NEW l \in Load, at'[l] \notin {"deps", "inputs"} PROVE Settled(l)'
    OBVIOUS
  <2>1. CASE l \in woken
    BY <1>7, <2>1 DEF Settled
  <2>2. CASE l \notin woken
    <3>1. Settled(l)
      BY <1>2, <1>6, <2>2 DEF Once
    <3>2. QED
      BY <1>7, <2>2, <3>1 DEF Settled
  <2>3. QED
    BY <2>1, <2>2
<1>12. \A l \in Load : l # id /\ l[1] # id[1] /\ at[l] # "free" => at'[l] # "free"
  BY <1>6
<1>13. at[id] # "free" /\ at'[id] = "free"
  BY <1>2, <1>6
<1>14. QED
  BY <1>1, <1>2, <1>9, <1>10, <1>11, <1>12, <1>13, EndOnce

\* A step between calls, after which a load that has not failed awaits what its factory
\* may set as before, or that has been loaded.
LEMMA QuietFirm ==
    ASSUME Firm, calls' = calls, Quiet,
           \A l \in Load : l[1] \in Setter /\ Busy(l)' =>
             \A d \in Below(l[1]) : Awaits(l, d)' \/ Done(d)'
    PROVE  Firm'
<1>1. ToSet(calls') = {}
  BY DEF Quiet, ToSet
<1>2. QED
  BY <1>1 DEF Firm

LEMMA BelowFacts ==
    ASSUME PublishersApart, NEW x \in Setter
    PROVE  /\ x \in Service /\ Below(x) \subseteq Service
           /\ Below(x) \cap Published = {} /\ Below(x) \subseteq ToSet(Deps[x])
           /\ \A e \in Again \ Upstream[x] : ToSet(Deps[e]) \cap Below(x) = {}
<1>1. x \in Service
  BY DEF Setter
<1>2. QED
  BY <1>1, UpstreamFacts DEF PublishersApart, Below

LEMMA WaitsFirm ==
    ASSUME PublishersApart, TypeOK, Once, Firm, ~Quiet,
           NEW s, NEW w, s = Head(calls).svc, w = Head(calls).by,
           WaitsForEvent(s, w) \/ HasValue(s, w)
    PROVE  Firm'
<1>1. /\ UNCHANGED <<state, at, awaitsLoad>> /\ calls' = Tail(calls)
      /\ awaitsEvent' = awaitsEvent \/ awaitsEvent' = [awaitsEvent EXCEPT ![w] = @ \cup {s}]
  BY DEF WaitsForEvent, HasValue
<1>2. /\ ToSet(calls) = {Head(calls)} \cup ToSet(calls')
      /\ Head(calls) \in ToSet(calls) /\ w \in Waiter /\ s \in Service
  BY <1>1, CallsAre
<1>3. /\ \A u : ActiveLoads(u)' = ActiveLoads(u) /\ (Done(u)' <=> Done(u))
      /\ \A l : Busy(l)' <=> Busy(l)
      /\ \A call \in ToSet(calls') : Starts(call)' <=> Starts(call)
  BY <1>1 DEF ActiveLoads, Done, Busy, Starts
<1>4. ASSUME NEW l \in Load, NEW d, Awaits(l, d)
      PROVE  Awaits(l, d)' \/ (w = l /\ s = d /\ HasValue(s, w))
  <2>1. l \in Waiter /\ awaitsEvent \in [Waiter -> SUBSET Service]
    BY DEF TypeOK, Waiter
  <2>2. awaitsEvent[l] \subseteq awaitsEvent'[l] /\ awaitsLoad[l] \subseteq awaitsLoad'[l]
    <3>1. awaitsEvent[l] \subseteq awaitsEvent'[l]
      BY <1>1, <2>1
    <3>2. QED
      BY <1>1, <3>1
  <2>3. CASE w = l /\ s = d
    <3>1. WaitsForEvent(s, w) => d \in awaitsEvent'[l]
      BY <1>2, <2>1, <2>3 DEF WaitsForEvent
    <3>2. QED
      BY <2>3, <3>1 DEF Awaits
  <2>4. CASE ~(w = l /\ s = d)
    <3>1. \A call \in ToSet(calls) : call.svc = d /\ call.by = l => call \in ToSet(calls')
      BY <1>2, <2>4
    <3>2. QED
      BY <1>4, <2>2, <3>1 DEF Awaits
  <2>5. QED
    BY <2>3, <2>4
<1>5. ASSUME NEW l \in Load, l[1] \in Setter, Busy(l), NEW d \in Below(l[1])
      PROVE  Awaits(l, d)' \/ Done(d)'
  <2>1. Awaits(l, d) \/ Done(d)
    BY <1>5 DEF Firm
  <2>2. ASSUME s = d, HasValue(s, w) PROVE Done(d)
    <3>1. d \in Service /\ d \notin Published /\ state[d] = "ready"
      BY <1>5, <2>2, BelowFacts DEF HasValue
    <3>2. ActiveLoads(d) = {}
      BY <3>1 DEF Once, ActiveLoads
    <3>3. QED
      BY <3>1, <3>2 DEF Done
  <2>3. QED
    BY <1>3, <1>4, <2>1, <2>2
<1>6. ASSUME NEW call \in ToSet(calls'), Starts(call)'
      PROVE  /\ call.svc \in Again \/ \A l \in Load : at'[l] \in {"free", "deps"}
             /\ \A l \in Load : l[1] \in Setter /\ Busy(l)' /\ call.svc \in Below(l[1]) =>
                  /\ at'[l] = "deps"
                  /\ \A u \in Upstream[call.svc] \cap Below(l[1]) : Awaits(l, u)'
  <2>1. call \in ToSet(calls) /\ Starts(call)
    BY <1>2, <1>3, <1>6
  <2>2. call.svc \in Again \/ \A l \in Load : at'[l] \in {"free", "deps"}
    BY <1>1, <2>1 DEF Firm
  <2>3. ASSUME NEW l \in Load, l[1] \in Setter, Busy(l), call.svc \in Below(l[1])
        PROVE  /\ at'[l] = "deps"
               /\ \A u \in Upstream[call.svc] \cap Below(l[1]) : Awaits(l, u)'
    <3>1. /\ at[l] = "deps"
          /\ \A u \in Upstream[call.svc] \cap Below(l[1]) : Awaits(l, u)
      BY <2>1, <2>3 DEF Firm
    <3>2. ~(w = l /\ HasValue(s, w))
      BY <1>2, <3>1 DEF Once, HasValue
    <3>3. QED
      BY <1>1, <1>4, <3>1, <3>2
  <2>4. QED
    BY <1>3, <2>2, <2>3
<1>7. QED
  BY <1>3, <1>5, <1>6 DEF Firm

LEMMA StartsFirm ==
    ASSUME PublishersApart, IInv, Once, Firm, ~Quiet,
           NEW s, NEW w, s = Head(calls).svc, w = Head(calls).by,
           NEW k \in Slot, StartsLoading(s, w, k)
    PROVE  Firm'
<1>0. TypeOK
  BY DEF IInv
<1>1. PICK id : id = <<s, k>>
  OBVIOUS
<1>2. /\ w \in Waiter /\ s \in Service /\ Head(calls) \in ToSet(calls)
      /\ ToSet(calls) = {Head(calls)} \cup ToSet(Tail(calls))
  BY <1>0, CallsAre
<1>3. id \in Load /\ id[1] = s /\ Load \subseteq Waiter /\ at[id] = "free"
  BY <1>1, <1>2 DEF Load, Waiter, StartsLoading, FreeSlot
<1>4. /\ state[s] # "loading" /\ state' = [state EXCEPT ![s] = "loading"]
      /\ at' = [at EXCEPT ![id] = "deps"]
      /\ awaitsLoad' = [awaitsLoad EXCEPT ![w] = @ \cup {id}]
      /\ calls' = CallsOf(Deps[s], "load", id) \o Tail(calls)
      /\ UNCHANGED awaitsEvent
      /\ Head(calls).how = "get" => state[s] # "ready"
  BY <1>1 DEF StartsLoading
<1>5. Starts(Head(calls))
  <2>1. Head(calls).how \in How /\ state[s] \in State
    BY <1>0, <1>2, CallsAre DEF Calls, TypeOK
  <2>2. QED
    BY <1>4, <2>1 DEF Starts, How, State
<1>6. \A l \in Load : l[1] = s => at[l] = "free"
  <2>1. ~Early(s)
    BY <1>2, <1>5, UpstreamFacts DEF Once
  <2>2. \A l \in Load : at[l] # "free" => state[l[1]] = "loading" \/ state[l[1]] = "ready"
    BY DEF Once
  <2>3. QED
    BY <1>4, <2>1, <2>2 DEF Early, ActiveLoads
<1>7. /\ at'[id] = "deps" /\ \A l \in Load : l # id => at'[l] = at[l]
      /\ state'[s] = "loading" /\ \A t \in Service : t # s => state'[t] = state[t]
  BY <1>0, <1>2, <1>3, <1>4 DEF TypeOK
<1>8. \A u \in Service : u # s /\ Done(u) => Done(u)'
  BY <1>3, <1>7 DEF ActiveLoads, Done
<1>9. ToSet(calls') = {[svc |-> d, how |-> "load", by |-> id] : d \in ToSet(Deps[s])}
                      \cup ToSet(Tail(calls))
  <2>1. Deps[s] \in Seq(Service) /\ id \in Waiter
    BY <1>2, <1>3, GraphAssumption
  <2>2. CallsOf(Deps[s], "load", id) \in Seq(Calls)
    BY <2>1, CallsTyped DEF How
  <2>3. Tail(calls) \in Seq(Calls)
    BY <1>0, NextCall
  <2>4. PICK a \in Seq(Calls), b \in Seq(Calls) :
          a = CallsOf(Deps[s], "load", id) /\ b = Tail(calls)
    BY <2>2, <2>3
  <2>5. ToSet(a \o b) = ToSet(a) \cup ToSet(b)
    BY SetOfBoth
  <2>6. ToSet(a) = {[svc |-> d, how |-> "load", by |-> id] : d \in ToSet(Deps[s])}
    BY <2>1, <2>4, SetOfCalls
  <2>7. calls' = a \o b
    BY <1>4, <2>4
  <2>8. QED
    BY <2>4, <2>5, <2>6, <2>7
<1>10. ASSUME NEW l \in Load, NEW d, Awaits(l, d) PROVE Awaits(l, d)'
  <2>1. awaitsEvent[l] \subseteq awaitsEvent'[l] /\ awaitsLoad[l] \subseteq awaitsLoad'[l]
    BY <1>0, <1>3, <1>4 DEF TypeOK
  <2>2. s = d /\ w = l => \E m \in awaitsLoad'[l] : m[1] = d
    BY <1>0, <1>2, <1>3, <1>4 DEF TypeOK
  <2>3. QED
    BY <1>0, <1>2, <1>9, <1>10, <2>1, <2>2, AwaitsKept
<1>11. \A d \in ToSet(Deps[s]) : Awaits(id, d)'
  <2>. SUFFICES ASSUME NEW d \in ToSet(Deps[s]) PROVE Awaits(id, d)'
    OBVIOUS
  <2>1. PICK call : call = [svc |-> d, how |-> "load", by |-> id]
    OBVIOUS
  <2>2. call \in ToSet(calls') /\ call.svc = d /\ call.by = id
    BY <1>9, <2>1
  <2>3. QED
    BY <2>2 DEF Awaits
<1>12. \A l \in Load : l # id /\ Busy(l)' => Busy(l)
  BY <1>7 DEF Busy
<1>13. ASSUME s \in Setter PROVE \A d \in Below(s) : Awaits(id, d)'
  BY <1>11, <1>13, BelowFacts
<1>14. ASSUME NEW l \in Load, l[1] \in Setter, Busy(l)', NEW d \in Below(l[1])
       PROVE  Awaits(l, d)' \/ Done(d)'
  <2>1. CASE l = id
    BY <1>3, <1>13, <1>14, <2>1
  <2>2. CASE l # id
    <3>1. Busy(l) /\ d \in Service
      BY <1>12, <1>14, <2>2, BelowFacts
    <3>2. CASE d = s
      <4>1. s \in Upstream[s] \cap Below(l[1])
        BY <1>2, <1>14, <3>2, UpstreamFacts
      <4>2. Awaits(l, s)
        BY <1>2, <1>5, <1>14, <3>1, <4>1 DEF Firm
      <4>3. QED
        BY <1>10, <3>2, <4>2
    <3>3. CASE d # s
      <4>1. Awaits(l, d) \/ Done(d)
        BY <1>14, <3>1 DEF Firm
      <4>2. QED
        BY <1>8, <1>10, <3>1, <3>3, <4>1
    <3>4. QED
      BY <3>2, <3>3
  <2>3. QED
    BY <2>1, <2>2
<1> DEFINE Ready(t) ==
      /\ t \in Again \/ \A l \in Load : at'[l] \in {"free", "deps"}
      /\ \A l \in Load : l[1] \in Setter /\ Busy(l)' /\ t \in Below(l[1]) =>
           /\ at'[l] = "deps"
           /\ \A u \in Upstream[t] \cap Below(l[1]) : Awaits(l, u)'
<1>15. ASSUME NEW call \in ToSet(Tail(calls)), Starts(call)' PROVE Ready(call.svc)
  <2>1. call \in ToSet(calls) /\ call.svc \in Service
    BY <1>0, <1>2, CallsAre
  <2>2. Starts(call)
    BY <1>7, <1>15, <2>1 DEF Starts
  <2>3. call.svc \in Again \/ \A l \in Load : at'[l] \in {"free", "deps"}
    BY <1>7, <2>1, <2>2 DEF Firm
  <2>4. ASSUME NEW l \in Load, l[1] \in Setter, Busy(l)', call.svc \in Below(l[1])
        PROVE  /\ at'[l] = "deps"
               /\ \A u \in Upstream[call.svc] \cap Below(l[1]) : Awaits(l, u)'
    <3>1. CASE l = id
      BY <1>3, <1>7, <1>13, <2>4, <3>1
    <3>2. CASE l # id
      <4>1. /\ at[l] = "deps"
            /\ \A u \in Upstream[call.svc] \cap Below(l[1]) : Awaits(l, u)
        BY <1>12, <2>1, <2>2, <2>4, <3>2 DEF Firm
      <4>2. QED
        BY <1>7, <1>10, <3>2, <4>1
    <3>3. QED
      BY <3>1, <3>2
  <2>5. QED
    BY <2>3, <2>4
<1>16. ASSUME NEW d \in ToSet(Deps[s]) PROVE Ready(d)
  <2>1. d \in Again \/ \A l \in Load : at'[l] \in {"free", "deps"}
    <3>1. s \in Again \/ \A l \in Load : at[l] \in {"free", "deps"}
      BY <1>2, <1>5 DEF Firm
    <3>2. s \in Again => d \in Again
      BY AgainUpstream
    <3>3. QED
      BY <1>7, <3>1, <3>2
  <2>2. ASSUME NEW l \in Load, l[1] \in Setter, Busy(l)', d \in Below(l[1])
        PROVE  /\ at'[l] = "deps"
               /\ \A u \in Upstream[d] \cap Below(l[1]) : Awaits(l, u)'
    <3>1. CASE l = id
      BY <1>3, <1>7, <1>13, <2>2, <3>1
    <3>2. CASE l # id
      <4>1. Busy(l) /\ l[1] # s /\ at'[l] = at[l]
        BY <1>6, <1>7, <1>12, <2>2, <3>2 DEF Busy
      <4>2. CASE s \in Below(l[1])
        <5>1. /\ at[l] = "deps"
              /\ \A u \in Upstream[s] \cap Below(l[1]) : Awaits(l, u)
          BY <1>2, <1>5, <2>2, <4>1, <4>2 DEF Firm
        <5>2. Upstream[d] \subseteq Upstream[s]
          BY <1>2, UpstreamFacts
        <5>3. QED
          BY <1>10, <4>1, <5>1, <5>2
      <4>3. CASE s \notin Below(l[1])
        <5>1. s \notin Again
          BY <2>2, <4>1, <4>3, BelowFacts DEF Below
        <5>2. at[l] = "deps" /\ AllAwaited
          BY <1>2, <1>5, <4>1, <5>1 DEF Firm, Once, Busy
        <5>3. \A u \in Below(l[1]) : Awaits(l, u)
          BY <2>2, <5>2, BelowFacts DEF AllAwaited
        <5>4. QED
          BY <1>10, <4>1, <5>2, <5>3
      <4>4. QED
        BY <4>2, <4>3
    <3>3. QED
      BY <3>1, <3>2
  <2>3. QED
    BY <2>1, <2>2
<1>17. ASSUME NEW call \in ToSet(calls'), Starts(call)' PROVE Ready(call.svc)
  <2>1. CASE call \in ToSet(Tail(calls))
    BY <1>15, <1>17, <2>1
  <2>2. CASE call \notin ToSet(Tail(calls))
    <3>1. PICK d \in ToSet(Deps[s]) : call = [svc |-> d, how |-> "load", by |-> id]
      BY <1>9, <2>2
    <3>2. call.svc = d
      BY <3>1
    <3>3. QED
      BY <1>16, <3>2
  <2>3. QED
    BY <2>1, <2>2
<1>18. QED
  BY <1>14, <1>17 DEF Firm

LEMMA DepsLoadedFirm ==
    ASSUME PublishersApart, IInv, Once, Firm, NEW id \in Load, DepsLoaded(id)
    PROVE  Firm'
<1>0. TypeOK /\ NoLostWaiter /\ Quiet
  BY DEF IInv, DepsLoaded
<1>1. PICK s \in Service : s = id[1]
  BY DEF Load
<1>2. /\ at[id] = "deps" /\ Settled(id) /\ at' = [at EXCEPT ![id] = "inputs"]
      /\ calls' = CallsOf(Deps[s], "get", id)
      /\ UNCHANGED <<state, awaitsLoad, awaitsEvent>>
  BY <1>1 DEF DepsLoaded
<1>3. at'[id] = "inputs" /\ \A l \in Load : l # id => at'[l] = at[l]
  BY <1>0, <1>2 DEF TypeOK, Waiter
<1>4. /\ \A u : Done(u)' <=> Done(u)
      /\ \A l \in Load : Busy(l)' <=> Busy(l)
  BY <1>2, <1>3 DEF ActiveLoads, Done, Busy
<1>5. \A l \in Load : \A d : Awaits(l, d) => Awaits(l, d)'
  BY <1>0, <1>2, QuietAwaits DEF Awaits
<1>6. \A l \in Load : l[1] \in Setter /\ Busy(l) =>
        \A d \in Below(l[1]) : Awaits(l, d) \/ Done(d)
  BY DEF Firm
<1>7. ASSUME NEW l \in Load, l[1] \in Setter, Busy(l), NEW d \in Below(l[1])
      PROVE  state[d] \notin {"idle", "error"}
  <2>1. d \in Service /\ d \notin Published
    BY <1>7, BelowFacts
  <2>2. CASE Done(d)
    BY <2>2 DEF Done
  <2>3. CASE Awaits(l, d)
    <3>1. d \in awaitsEvent[l] \/ \E m \in awaitsLoad[l] : m[1] = d
      BY <1>0, <2>3, QuietAwaits
    <3>2. l \in Waiter /\ awaitsLoad[l] \subseteq Load
      BY <1>0 DEF TypeOK, Waiter
    <3>3. ActiveLoads(d) # {}
      BY <1>0, <3>1, <3>2 DEF NoLostWaiter, ActiveLoads
    <3>4. QED
      BY <2>1, <3>3 DEF Once, ActiveLoads
  <2>4. QED
    BY <1>6, <1>7, <2>2, <2>3
<1>8. ToSet(calls') = {[svc |-> d, how |-> "get", by |-> id] : d \in ToSet(Deps[s])}
  BY <1>2, GraphAssumption, SetOfCalls
<1>9. ASSUME NEW call \in ToSet(calls'), Starts(call)'
      PROVE  /\ call.svc \in Again
             /\ \A l \in Load : l[1] \in Setter /\ Busy(l) => call.svc \notin Below(l[1])
  <2>1. PICK d \in ToSet(Deps[s]) : call = [svc |-> d, how |-> "get", by |-> id]
    BY <1>8
  <2>2. call.svc = d /\ state[d] \in {"idle", "error"}
    BY <1>2, <1>9, <2>1 DEF Starts
  <2>3. ~Awaits(id, d)
    BY <1>0, <1>2, QuietAwaits DEF Settled
  <2>4. Loaded(d)
    BY <1>1, <1>2, <2>3 DEF Once
  <2>5. d \in Again
    BY <2>2, <2>4 DEF Loaded
  <2>6. QED
    BY <1>7, <2>2, <2>5
<1>10. QED
  BY <1>4, <1>5, <1>6, <1>9 DEF Firm

LEMMA BodyStartsFirm ==
    ASSUME IInv, Firm, NEW id \in Load, BodyStarts(id)
    PROVE  Firm'
<1>1. /\ Quiet /\ at[id] = "inputs" /\ at' = [at EXCEPT ![id] = "body"]
      /\ UNCHANGED <<state, awaitsLoad, awaitsEvent, calls>>
  BY DEF BodyStarts
<1>2. at'[id] = "body" /\ \A l \in Load : l # id => at'[l] = at[l]
  BY <1>1 DEF IInv, TypeOK, Waiter
<1>3. /\ \A u : Done(u)' <=> Done(u)
      /\ \A l \in Load : Busy(l)' <=> Busy(l)
  BY <1>1, <1>2 DEF ActiveLoads, Done, Busy
<1>4. \A l, d : Awaits(l, d)' <=> Awaits(l, d)
  BY <1>1 DEF Awaits
<1>5. \A l \in Load : l[1] \in Setter /\ Busy(l)' =>
        \A d \in Below(l[1]) : Awaits(l, d)' \/ Done(d)'
  BY <1>3, <1>4 DEF Firm
<1>6. QED
  BY <1>1, <1>5, QuietFirm

LEMMA SetFirm ==
    ASSUME PublishersApart, IInv, Once, Firm, NEW id \in Load, NEW t \in Service, Set(id, t)
    PROVE  Firm'
<1>1. PICK old : Answer(t, old, {})
  BY DEF Set
<1>2. /\ Quiet /\ UNCHANGED <<at, calls>>
      /\ t \in Published \/ Done(t)
  BY SetsDone DEF Set
<1>3. /\ state'[t] = "ready" /\ \A s \in Service : s # t => state'[s] = state[s]
      /\ \A w \in Waiter : awaitsEvent'[w] = awaitsEvent[w] \ {t} /\ awaitsLoad'[w] = awaitsLoad[w]
  BY <1>1 DEF Answer, IInv, TypeOK
<1>4. \A u \in Service : Done(u) => Done(u)'
  BY <1>2, <1>3 DEF ActiveLoads, Done
<1>5. ASSUME NEW l \in Load, l[1] \in Setter, Busy(l), NEW d \in Below(l[1])
      PROVE  Awaits(l, d)' \/ Done(d)'
  <2>1. d \in Service /\ d \notin Published /\ l \in Waiter
    BY <1>5, BelowFacts DEF Waiter
  <2>2. Awaits(l, d) \/ Done(d)
    BY <1>5 DEF Firm
  <2>3. CASE d = t
    BY <1>2, <1>4, <2>1, <2>3
  <2>4. CASE d # t
    <3>1. Awaits(l, d) => Awaits(l, d)'
      BY <1>2, <1>3, <2>1, <2>4 DEF Awaits
    <3>2. QED
      BY <1>4, <2>1, <2>2, <3>1
  <2>5. QED
    BY <2>3, <2>4
<1>6. \A l \in Load : Busy(l)' => Busy(l)
  BY <1>2 DEF Busy
<1>7. QED
  BY <1>2, <1>5, <1>6, QuietFirm

LEMMA FinishFirm ==
    ASSUME PublishersApart, IInv, Once, Firm, NEW id \in Load, Finish(id)
    PROVE  Firm'
<1>1. PICK s \in Service : s = id[1]
  BY DEF Load
<1>2. /\ Quiet /\ at[id] = "body" /\ at' = [at EXCEPT ![id] = "free"] /\ UNCHANGED calls
      /\ Answer(s, seen[id], {id})
  BY <1>1 DEF Finish
<1>3. at'[id] = "free" /\ \A l \in Load : l # id => at'[l] = at[l]
  BY <1>2 DEF IInv, TypeOK, Waiter
<1>4. \A w \in Waiter : /\ awaitsEvent'[w] = awaitsEvent[w] \ {s}
                        /\ awaitsLoad'[w] = awaitsLoad[w] \ {id}
  BY <1>2 DEF Answer
<1>5. state'[s] = "ready" /\ \A t \in Service : t # s => state'[t] = state[t]
  BY <1>2 DEF Answer, IInv, TypeOK
<1>6. Done(s)'
  <2>1. \A l \in Load : l[1] = s => at'[l] = "free"
    BY <1>1, <1>2, <1>3 DEF Once
  <2>2. QED
    BY <1>5, <2>1 DEF Done, ActiveLoads
<1>7. \A u \in Service : Done(u) => Done(u)'
  <2>. SUFFICES ASSUME NEW u \in Service, Done(u), u # s PROVE Done(u)'
    BY <1>6
  <2>1. \A l \in Load : l[1] = u => at'[l] = "free"
    BY <1>3 DEF Done, ActiveLoads
  <2>2. QED
    BY <1>5, <2>1 DEF Done, ActiveLoads
<1>8. ASSUME NEW l \in Load, l[1] \in Setter, Busy(l)', NEW d \in Below(l[1])
      PROVE  Awaits(l, d)' \/ Done(d)'
  <2>1. d \in Service /\ l \in Waiter /\ Busy(l)
    BY <1>3, <1>8, BelowFacts DEF Waiter, Busy
  <2>2. Awaits(l, d) \/ Done(d)
    BY <1>8, <2>1 DEF Firm
  <2>3. d # s /\ Awaits(l, d) => Awaits(l, d)'
    BY <1>1, <1>2, <1>4, <2>1 DEF Awaits
  <2>4. QED
    BY <1>6, <1>7, <2>1, <2>2, <2>3
<1>9. QED
  BY <1>2, <1>8, QuietFirm

LEMMA FailFirm ==
    ASSUME PublishersApart, IInv, Once, Firm, NEW id \in Load, Fail(id)
    PROVE  Firm'
<1>1. PICK s \in Service : s = id[1]
  BY DEF Load
<1>2. /\ Quiet /\ at[id] \in {"body", "failing"} /\ Reject(id, WokenBy(id)) /\ UNCHANGED calls
      /\ state' = [state EXCEPT ![s] = "error"]
  BY <1>1 DEF Fail
<1>3. WokenBy(id) \subseteq Waiter /\ id \in Waiter /\ Load \subseteq Waiter
  BY DEF WokenBy, EventWaiters, Waiter
<1>4. \A l \in Load : ~Tolerant(l)
  BY NamesAssumption DEF Tolerant, Load
<1>5. PICK woken \in SUBSET Waiter : woken = WokenBy(id)
  BY <1>3
<1>6. \A l \in Load : at'[l] = IF l = id THEN "free" ELSE IF l \in woken THEN "failing" ELSE at[l]
  BY <1>2, <1>3, <1>4, <1>5 DEF Reject
<1>7. \A l \in Load :
        /\ awaitsEvent'[l] = IF l \in woken THEN {} ELSE awaitsEvent[l]
        /\ awaitsLoad'[l] = IF l \in woken THEN {} ELSE awaitsLoad[l]
  BY <1>2, <1>3, <1>4, <1>5 DEF Reject
<1>8. \A l \in Load : at'[l] # "free" => at[l] # "free"
  <2>1. \A l \in Load : l \in woken => at[l] # "free"
    <3>. SUFFICES ASSUME NEW l \in Load, l \in woken, at[l] = "free" PROVE FALSE
      OBVIOUS
    <3>1. Settled(l)
      BY DEF Once
    <3>2. QED
      BY <1>5, <3>1 DEF Settled, WokenBy, EventWaiters
  <2>2. QED
    BY <1>6, <2>1
<1>9. \A u \in Service : Done(u) => Done(u)'
  <2>. SUFFICES ASSUME NEW u \in Service, Done(u) PROVE Done(u)'
    OBVIOUS
  <2>1. u # s
    BY <1>1, <1>2 DEF Done, ActiveLoads
  <2>2. state'[u] = state[u]
    BY <1>2, <2>1 DEF IInv, TypeOK
  <2>3. QED
    BY <1>8, <2>2 DEF Done, ActiveLoads
<1>10. ASSUME NEW l \in Load, l[1] \in Setter, Busy(l)', NEW d \in Below(l[1])
       PROVE  Awaits(l, d)' \/ Done(d)'
  <2>1. l # id /\ l \notin woken /\ Busy(l)
    BY <1>6, <1>10 DEF Busy
  <2>2. Awaits(l, d) \/ Done(d)
    BY <1>10, <2>1 DEF Firm
  <2>3. Awaits(l, d) => Awaits(l, d)'
    BY <1>2, <1>7, <2>1 DEF Awaits
  <2>4. QED
    BY <1>9, <1>10, <2>2, <2>3, BelowFacts
<1>11. QED
  BY <1>2, <1>10, QuietFirm

\* A client's call, when it disturbs nothing, finds no load in flight and nobody waiting.
LEMMA BeginOnce ==
    ASSUME IInv, NEW c \in Client, NEW k, NEW list \in Seq(Service), Begin(c, k, list),
           alone' # {}
    PROVE  Once' /\ Firm'
<1>0. TypeOK /\ NoLostWaiter
  BY DEF IInv
<1>1. /\ \A w \in Waiter : at[w] = "free"
      /\ at' = [at EXCEPT ![c] = "running"] /\ UNCHANGED <<awaitsLoad, awaitsEvent>>
      /\ calls' = CallsOf(list, IF k = "get" THEN "get" ELSE "load", c)
  BY DEF Begin
<1>2. c \in Waiter /\ c \notin Load /\ Load \subseteq Waiter
  BY NamesAssumption DEF Waiter, Load
<1>3. \A l \in Load : at'[l] = "free"
  BY <1>0, <1>1, <1>2 DEF TypeOK
<1>4. \A l \in Load : Settled(l)'
  <2>. SUFFICES ASSUME NEW l \in Load PROVE Settled(l)'
    OBVIOUS
  <2>1. awaitsEvent[l] \subseteq Service /\ awaitsLoad[l] \subseteq Load
    BY <1>0, <1>2 DEF TypeOK
  <2>2. \A s \in Service : ActiveLoads(s) = {}
    BY <1>1, <1>2 DEF ActiveLoads
  <2>3. awaitsEvent[l] = {} /\ awaitsLoad[l] = {}
    BY <1>0, <1>1, <1>2, <2>1, <2>2 DEF NoLostWaiter
  <2>4. QED
    BY <1>1, <2>3 DEF Settled
<1>5. \A u : ~Early(u)'
  BY <1>3 DEF Early, ActiveLoads
<1>6. AllAwaited'
  BY <1>3 DEF AllAwaited
<1>7. ASSUME NEW call \in ToSet(calls') PROVE call.by = c
  <2>1. PICK how : calls' = CallsOf(list, how, c)
    BY <1>1
  <2>2. ToSet(calls') = {[svc |-> d, how |-> how, by |-> c] : d \in ToSet(list)}
    BY <2>1, SetOfCalls
  <2>3. QED
    BY <2>2
<1>8. Once'
  BY <1>2, <1>3, <1>4, <1>5, <1>6, <1>7 DEF Once
<1>9. Firm'
  BY <1>3 DEF Firm, Busy
<1>10. QED
  BY <1>8, <1>9

\* A client's call that disturbs another leaves nobody alone.
LEMMA OnceStep ==
    ASSUME PublishersApart, IInv, OnceInv, [Next]_vars
    PROVE  OnceInv'
<1>. SUFFICES ASSUME alone' # {} PROVE Once' /\ Firm'
  BY DEF OnceInv
<1>0. TypeOK
  BY DEF IInv
<1>1. ASSUME NEW c \in Client, NEW k, NEW list \in Seq(Service), Begin(c, k, list)
      PROVE  Once' /\ Firm'
  BY <1>1, BeginOnce
<1>2. ASSUME NEW c \in Client, NEW s \in Service, Initialize(c) \/ Get(c, s) \/ Reload(c, s)
      PROVE  Once' /\ Firm'
  <2>1. CASE Initialize(c)
    BY <1>1, <2>1, ListsTyped DEF Initialize
  <2>2. CASE Get(c, s)
    BY <1>1, <2>2, ListsTyped DEF Get
  <2>3. CASE Reload(c, s)
    <3>1. PICK list \in Seq(Service) : list = <<s>> \o Affected[s]
      BY ListsTyped
    <3>2. Begin(c, "reload", list)
      BY <2>3, <3>1 DEF Reload
    <3>3. QED
      BY <1>1, <3>2
  <2>4. QED
    BY <1>2, <2>1, <2>2, <2>3
<1>3. ASSUME Once, Firm, UNCHANGED <<state, at, awaitsLoad, awaitsEvent, calls>>
      PROVE  Once' /\ Firm'
  <2>1. Once'
    BY <1>3 DEF Once, Early, ActiveLoads, Starts, AllAwaited, Awaits, Loaded, Settled
  <2>2. Firm'
    BY <1>3 DEF Firm, Busy, Done, ActiveLoads, Starts, Awaits
  <2>3. QED
    BY <2>1, <2>2
<1>4. CASE Call
  <2>1. Once /\ Firm /\ ~Quiet
    BY <1>4 DEF Call, clients, OnceInv
  <2>2. PICK s, w : s = Head(calls).svc /\ w = Head(calls).by
    OBVIOUS
  <2>3. WaitsForEvent(s, w) \/ HasValue(s, w) \/ \E k \in Slot : StartsLoading(s, w, k)
    BY <1>4, <2>2 DEF Call
  <2>4. QED
    BY <1>0, <2>1, <2>2, <2>3, WaitsOnce, StartsOnce, WaitsFirm, StartsFirm
<1>5. ASSUME NEW id \in Load,
             \/ DepsLoaded(id) \/ BodyStarts(id) \/ Finish(id) \/ Fail(id)
             \/ \E t \in Service : Set(id, t)
      PROVE  Once' /\ Firm'
  <2>1. Once /\ Firm
    BY <1>5 DEF DepsLoaded, BodyStarts, Finish, Fail, Set, clients, OnceInv
  <2>2. Once'
    BY <1>5, <2>1, DepsLoadedOnce, BodyStartsOnce, FinishOnce, FailOnce, SetOnce
  <2>3. Firm'
    BY <1>5, <2>1, DepsLoadedFirm, BodyStartsFirm, FinishFirm, FailFirm, SetFirm
  <2>4. QED
    BY <2>2, <2>3
<1>6. ASSUME NEW c \in Client, Return(c) PROVE Once' /\ Firm'
  <2>1. Once /\ Firm /\ Quiet /\ UNCHANGED <<state, awaitsLoad, awaitsEvent, calls>>
    BY <1>6 DEF Return, OnceInv
  <2>2. \A l \in Load : at'[l] = at[l]
    <3>1. c \notin Load /\ Load \subseteq Waiter /\ at' = [at EXCEPT ![c] = "free"]
      BY <1>6, NamesAssumption DEF Load, Waiter, Return
    <3>2. QED
      BY <1>0, <3>1 DEF TypeOK
  <2>3. \A u : ActiveLoads(u)' = ActiveLoads(u) /\ (Loaded(u)' <=> Loaded(u))
                                          /\ (Done(u)' <=> Done(u))
    BY <2>1, <2>2 DEF ActiveLoads, Loaded, Done
  <2>4. \A l, d : Awaits(l, d)' <=> Awaits(l, d)
    BY <2>1 DEF Awaits
  <2>5. \A l \in Load : at'[l] = "deps" =>
          \A d \in ToSet(Deps[l[1]]) : Awaits(l, d)' \/ Loaded(d)'
    BY <2>1, <2>2, <2>3, <2>4 DEF Once
  <2>6. \A l \in Load : at'[l] \notin {"deps", "inputs"} => Settled(l)'
    BY <2>1, <2>2 DEF Once, Settled
  <2>7. \A l \in Load : at'[l] # "free" =>
          /\ at[l] # "free"
          /\ state'[l[1]] = "loading" \/ (state'[l[1]] = "ready" /\ l[1] \in Published)
    BY <2>1, <2>2 DEF Once
  <2>8. Once'
    BY <2>1, <2>5, <2>6, <2>7, QuietOnce
  <2>9. \A l \in Load : l[1] \in Setter /\ Busy(l)' =>
          \A d \in Below(l[1]) : Awaits(l, d)' \/ Done(d)'
    BY <2>1, <2>2, <2>3, <2>4 DEF Firm, Busy
  <2>10. QED
    BY <2>1, <2>8, <2>9, QuietFirm
<1>7. ASSUME NEW u \in Source, Edit(u) PROVE Once' /\ Firm'
  BY <1>3, <1>7 DEF Edit, clients, OnceInv
<1>8. CASE UNCHANGED vars
  BY <1>3, <1>8 DEF vars, OnceInv
<1>9. ASSUME NEW c \in Client, Initialize(c) PROVE Once' /\ Firm'
  BY <1>1, <1>9, ListsTyped DEF Initialize
<1>10. QED
  BY <1>2, <1>4, <1>5, <1>6, <1>7, <1>8, <1>9, GraphAssumption DEF Next

(* One call, however many of the services it loads depend on one another, runs each *)
(* factory once at a time (load(), get(), reload()), also when services fail in the  *)
(* middle and their dependents load them again, if the services that set() a state   *)
(* early lie as those that index.ts registers do.                                    *)
THEOREM LoadedOnce == PublishersApart /\ Spec => []OneLoadEach
<1>1. Init => OnceInv
  BY DEF Init, OnceInv
<1>2. PublishersApart /\ IInv /\ OnceInv /\ [Next]_vars => OnceInv'
  BY OnceStep
<1>3. OnceInv => OneLoadEach
  <2>. SUFFICES ASSUME OnceInv, NEW c \in alone, NEW s \in Service
                PROVE  Cardinality(ActiveLoads(s)) <= 1
    BY DEF OneLoadEach
  <2>1. \A l, m \in ActiveLoads(s) : l = m
    BY DEF OnceInv, Once, ActiveLoads
  <2>2. CASE ActiveLoads(s) = {}
    BY <2>2, FS_EmptySet
  <2>3. CASE ActiveLoads(s) # {}
    <3>1. PICK l : ActiveLoads(s) = {l}
      BY <2>1, <2>3
    <3>2. Cardinality(ActiveLoads(s)) = 1
      BY <3>1, FS_Singleton
    <3>3. QED
      BY <3>2
  <2>4. QED
    BY <2>2, <2>3
<1>4. CASE PublishersApart
  BY <1>1, <1>2, <1>3, <1>4, Invariant, PTL DEF Spec
<1>5. CASE ~PublishersApart
  BY <1>5
<1>6. QED
  BY <1>4, <1>5

-----------------------------------------------------------------------------
(* A reload that nothing disturbs leaves what it loads ready, and made from what the *)
(* sources say now.                                                                 *)

\* A load of s is in flight; w is still to ask for s; no service is loaded twice at a time.
Runs(s) == \E l \in Load : l[1] = s /\ at[l] # "free"
Pending(s, w) == \E call \in ToSet(calls) : call.svc = s /\ call.by = w
Unique == \A l, m \in Load : at[l] # "free" /\ at[m] # "free" /\ l[1] = m[1] => l = m

\* w waits for d until a load of d returns: for its promise, or for an event that only its
\* return emits (or which lets a dependent of the service reloaded go on with a state of
\* before, which Fresh excuses).
Holds(w, d, r) ==
    \/ \E l \in awaitsLoad[w] : l[1] = d
    \/ d \in awaitsEvent[w] /\ Discreet(d, r)

\* First the client c that reloads r makes its calls, with all that they call in turn:
\* the next calls are of loads for their dependencies, ...
LoadCalls(c, r) ==
    \A call \in ToSet(calls) :
      /\ call.how = "load"
      /\ \/ call.by = c /\ call.svc \in Reach(r)
         \/ /\ call.by \in Load /\ at[call.by] = "deps"
            /\ call.svc \in ToSet(Deps[call.by[1]])

\* ... the client's own come after them, ...
ClientLast(c) ==
    \A i, j \in DOMAIN calls : i < j /\ calls[i].by = c => calls[j].by = c

\* ... and the one for who publishes early after those for its readers.
ReadersAsked(c, r) ==
    \A i \in DOMAIN calls : calls[i].by = c /\ ~Discreet(calls[i].svc, r) =>
      \A y \in Service : calls[i].svc \in ToSet(Deps[y]) =>
        Runs(y) \/ \E j \in DOMAIN calls : j < i /\ calls[j].by = c /\ calls[j].svc = y

\* A load in flight waits for its dependencies, for each of them, ...
JustStarted(r) ==
    \A l \in Load :
      IF at[l] = "free" THEN Settled(l)
      ELSE at[l] = "deps" /\ l[1] \in Made(r) /\ state[l[1]] = "loading"

DepsHeld(r) ==
    \A l \in Load : at[l] = "deps" =>
      \A d \in ToSet(Deps[l[1]]) : Pending(d, l) \/ Holds(l, d, r)

\* ... and who started it waits for its promise: a reader of the service, or the client,
\* which is not the first to ask for an early publisher that has a reader.
Starter(c, r) ==
    \A l \in Load : at[l] = "deps" =>
      \/ /\ l \in awaitsLoad[c]
         /\ Discreet(l[1], r) \/ \A y \in Service : l[1] \notin ToSet(Deps[y])
      \/ \E y \in Load : l \in awaitsLoad[y] /\ l[1] \in ToSet(Deps[y[1]])

\* The client waits for what it asked for, or for what is made from it.
AllAsked(c, r) ==
    \A s \in Reach(r) :
      \/ Pending(s, c)
      \/ Runs(s) /\ (Holds(c, s, r) \/ \E y \in Service : s \in ToSet(Deps[y]) /\ Runs(y))

RootFirst(c, r) ==
    \/ \E l \in awaitsLoad[c] : l[1] = r
    \/ /\ ~Quiet /\ Head(calls).svc = r /\ Head(calls).by = c
       /\ \A l \in Load : at[l] = "free"

Opening(c, r) ==
    /\ LoadCalls(c, r) /\ ClientLast(c) /\ ReadersAsked(c, r)
    /\ Unique /\ JustStarted(r) /\ DepsHeld(r) /\ Starter(c, r)
    /\ AllAsked(c, r) /\ RootFirst(c, r)

\* Then the factories run.  What they read is ready, up to date and not being loaded, or
\* it is the service reloaded, which publishes early.
Fine(d, r) ==
    /\ state[d] = "ready"
    /\ ~Runs(d) \/ (d = r /\ r \in Sets[r])
    /\ r \in Sets[r] \/ (outdated[d] = {} /\ held[d] = {})

GetsFine(r) == \A call \in ToSet(calls) : call.how = "get" /\ Fine(call.svc, r)

Started(r) ==
    \A l \in Load :
      /\ at[l] # "deps" => Settled(l)
      /\ at[l] # "free" => l[1] \in Made(r)

DepsFine(r) ==
    \A l \in Load : Busy(l) =>
      \A d \in ToSet(Deps[l[1]]) : Holds(l, d, r) \/ Fine(d, r)

InputsFine(r) == \A l \in Load : at[l] \in {"inputs", "body"} => r \in Sets[r] \/ seen[l] = {}

\* What is not loaded yet, or has failed, keeps the client waiting, or is to keep another
\* service from which the same holds.
Covered(c, r) ==
    \A s \in Reach(r) :
      \/ Fine(s, r) /\ ~Runs(s)
      \/ /\ Runs(s) \/ state[s] = "error"
         /\ \/ Holds(c, s, r)
            \/ \E y \in Service : s \in ToSet(Deps[y]) /\ (Runs(y) \/ state[y] = "error")

RootHeld(c, r) ==
    /\ state[r] # "error"
    /\ \A l \in Load : at[l] # "free" /\ l[1] = r => l \in awaitsLoad[c]

Closing(c, r) ==
    /\ GetsFine(r) /\ Unique /\ Started(r) /\ DepsFine(r) /\ InputsFine(r)
    /\ Covered(c, r) /\ RootHeld(c, r)

FreshInv ==
    \A c \in alone : at[c] = "running" /\ kind[c] = "reload" =>
      \E r \in Reloaded : asked[c] = Reach(r) /\ (Opening(c, r) \/ Closing(c, r))

LEMMA ReachFacts ==
    ASSUME NEW r \in Service
    PROVE  /\ r \in Reach(r) /\ Reach(r) \subseteq Made(r) /\ Made(r) \subseteq Service
           /\ \A s \in Made(r) : ToSet(Deps[s]) \subseteq Made(r)
           /\ \A s \in Reach(r) : \A y \in Service : s \in ToSet(Deps[y]) => y \in Reach(r)
<1>1. Reach(r) = {r} \cup {t \in Service \ {r} : r \in Upstream[t]}
  BY AffectedAssumption DEF Reach
<1>2. \A s \in Service : s \in Upstream[s] /\ Upstream[s] \subseteq Service
  BY UpstreamFacts
<1>3. r \in Reach(r) /\ Reach(r) \subseteq Made(r) /\ Made(r) \subseteq Service
  BY <1>1, <1>2 DEF Made
<1>4. ASSUME NEW s \in Made(r) PROVE ToSet(Deps[s]) \subseteq Made(r)
  <2>1. PICK t \in Reach(r) : s \in Upstream[t]
    BY <1>4 DEF Made
  <2>2. t \in Service
    BY <1>1
  <2>3. ToSet(Deps[s]) \subseteq Upstream[t]
    BY <2>1, <2>2, UpstreamAssumption
  <2>4. QED
    BY <2>3 DEF Made
<1>5. ASSUME NEW s \in Reach(r), NEW y \in Service, s \in ToSet(Deps[y]) PROVE y \in Reach(r)
  <2>1. r \in Upstream[s]
    BY <1>1, <1>2
  <2>2. Upstream[s] \subseteq Upstream[y]
    BY <1>5, UpstreamFacts
  <2>3. QED
    BY <1>1, <2>1, <2>2
<1>6. QED
  BY <1>3, <1>4, <1>5

\* A load in flight is one that a waiter of its event or promise waits for.
LEMMA HeldRuns ==
    ASSUME TypeOK, NoLostWaiter, NEW w \in Waiter, NEW d, NEW r, Holds(w, d, r)
    PROVE  Runs(d)
<1>1. awaitsLoad[w] \subseteq Load
  BY DEF TypeOK
<1>2. CASE d \in awaitsEvent[w]
  BY <1>2 DEF NoLostWaiter, ActiveLoads, Runs
<1>3. CASE d \notin awaitsEvent[w]
  <2>1. PICK l \in awaitsLoad[w] : l[1] = d
    BY <1>3 DEF Holds
  <2>2. l \in Load /\ at[l] # "free"
    BY <1>1, <2>1 DEF NoLostWaiter
  <2>3. QED
    BY <2>1, <2>2 DEF Runs
<1>4. QED
  BY <1>2, <1>3

\* The next call leaves, and others take its place.
LEMMA Shifted ==
    ASSUME NEW S, NEW q \in Seq(S), q # << >>, NEW a \in Seq(S), NEW p, p = a \o Tail(q)
    PROVE  /\ \A i \in DOMAIN p : i \in Nat
           /\ \A i \in DOMAIN q : i \in Nat /\ i >= 1
           /\ 1 \in DOMAIN q /\ q[1] = Head(q)
           /\ Len(a) \in Nat
           /\ \A i \in DOMAIN p :
                \/ i <= Len(a) /\ i \in DOMAIN a /\ p[i] = a[i]
                \/ /\ i > Len(a) /\ i - Len(a) + 1 \in DOMAIN q
                   /\ i - Len(a) + 1 > 1 /\ p[i] = q[i - Len(a) + 1]
           /\ \A j \in DOMAIN q : j > 1 =>
                j - 1 + Len(a) \in DOMAIN p /\ p[j - 1 + Len(a)] = q[j]
<1>1. /\ Len(q) \in Nat /\ Len(q) # 0 /\ DOMAIN q = 1 .. Len(q)
      /\ Tail(q) \in Seq(S) /\ Len(Tail(q)) = Len(q) - 1
      /\ \A i \in 1 .. Len(q) - 1 : Tail(q)[i] = q[i + 1]
      /\ Head(q) = q[1]
  OBVIOUS
<1>2. Len(a) \in Nat /\ DOMAIN a = 1 .. Len(a)
  OBVIOUS
<1>. PICK t \in Seq(S) : t = Tail(q)
  BY <1>1
<1>3. /\ p \in Seq(S) /\ Len(p) = Len(a) + Len(t)
      /\ \A i \in 1 .. Len(a) + Len(t) : p[i] = IF i <= Len(a) THEN a[i] ELSE t[i - Len(a)]
  BY ConcatProperties
<1>4. DOMAIN p = 1 .. Len(a) + Len(q) - 1
  BY <1>1, <1>2, <1>3
<1>5. ASSUME NEW i \in DOMAIN p
      PROVE \/ i <= Len(a) /\ i \in DOMAIN a /\ p[i] = a[i]
            \/ /\ i > Len(a) /\ i - Len(a) + 1 \in DOMAIN q
               /\ i - Len(a) + 1 > 1 /\ p[i] = q[i - Len(a) + 1]
  <2>1. CASE i <= Len(a)
    BY <1>1, <1>2, <1>3, <1>4, <2>1
  <2>2. CASE i > Len(a)
    <3>1. i - Len(a) \in 1 .. Len(q) - 1
      BY <1>1, <1>2, <1>4, <2>2
    <3>2. p[i] = t[i - Len(a)]
      BY <1>1, <1>2, <1>3, <1>4, <2>2
    <3>3. t[i - Len(a)] = q[i - Len(a) + 1]
      BY <1>1, <3>1
    <3>4. QED
      BY <1>1, <1>2, <2>2, <3>1, <3>2, <3>3
  <2>3. QED
    BY <1>2, <1>4, <2>1, <2>2
<1>6. ASSUME NEW j \in DOMAIN q, j > 1
      PROVE j - 1 + Len(a) \in DOMAIN p /\ p[j - 1 + Len(a)] = q[j]
  <2>1. j - 1 \in 1 .. Len(q) - 1 /\ t[j - 1] = q[j]
    BY <1>1, <1>6
  <2>2. j - 1 + Len(a) \in 1 .. Len(a) + Len(t) /\ ~(j - 1 + Len(a) <= Len(a))
    BY <1>1, <1>2, <2>1
  <2>3. j - 1 + Len(a) - Len(a) = j - 1
    BY <1>2, <2>1
  <2>4. QED
    BY <1>3, <1>4, <1>1, <2>1, <2>2, <2>3
<1>7. QED
  BY <1>1, <1>2, <1>4, <1>5, <1>6

\* The calls of a load, put before those that are left, change nothing in the order of the
\* client's.
LEMMA OrderKept ==
    ASSUME TypeOK, ~Quiet, NEW c, NEW r, NEW s, s = Head(calls).svc, NEW a \in Seq(Calls),
           \A i \in DOMAIN a : a[i].by # c,
           calls' = a \o Tail(calls),
           \A y \in Service : Runs(y) => Runs(y)',
           Head(calls).by = c => Runs(s)',
           ClientLast(c), ReadersAsked(c, r)
    PROVE  ClientLast(c)' /\ ReadersAsked(c, r)'
<1>. DEFINE k == Len(a)
<1>1. calls \in Seq(Calls) /\ calls # << >>
  BY DEF TypeOK, Quiet
<1>2. /\ \A i \in DOMAIN calls' : i \in Nat
      /\ \A i \in DOMAIN calls : i \in Nat /\ i >= 1
      /\ 1 \in DOMAIN calls /\ calls[1] = Head(calls)
      /\ k \in Nat
      /\ \A i \in DOMAIN calls' :
           \/ i <= k /\ i \in DOMAIN a /\ calls'[i] = a[i]
           \/ /\ i > k /\ i - k + 1 \in DOMAIN calls
              /\ i - k + 1 > 1 /\ calls'[i] = calls[i - k + 1]
      /\ \A j \in DOMAIN calls : j > 1 =>
           j - 1 + k \in DOMAIN calls' /\ calls'[j - 1 + k] = calls[j]
  <2>1. PICK p : p = calls'
    OBVIOUS
  <2>2. p = a \o Tail(calls)
    BY <2>1
  <2>3. QED
    BY <1>1, <2>1, <2>2, Shifted
<1>. HIDE DEF k
<1>3. ASSUME NEW i \in DOMAIN calls', calls'[i].by = c
      PROVE  i > k /\ i - k + 1 \in DOMAIN calls /\ calls'[i] = calls[i - k + 1]
  BY <1>2, <1>3
<1>4. ASSUME NEW i \in DOMAIN calls', NEW j \in DOMAIN calls', i < j, calls'[i].by = c
      PROVE  calls'[j].by = c
  <2>1. i > k /\ i - k + 1 \in DOMAIN calls /\ calls'[i] = calls[i - k + 1]
    BY <1>3, <1>4
  <2>2. j > k /\ i \in Nat /\ j \in Nat /\ ~(j <= k)
    <3>1. i \in Nat /\ j \in Nat /\ k \in Nat
      BY <1>2
    <3>2. QED
      BY <1>4, <2>1, <3>1
  <2>3. j - k + 1 \in DOMAIN calls /\ calls'[j] = calls[j - k + 1]
    BY <1>2, <2>2
  <2>4. i - k + 1 < j - k + 1
    BY <1>2, <1>4, <2>2
  <2>5. QED
    BY <1>4, <2>1, <2>3, <2>4 DEF ClientLast
<1>5. ASSUME NEW i \in DOMAIN calls', calls'[i].by = c, ~Discreet(calls'[i].svc, r),
             NEW y \in Service, calls'[i].svc \in ToSet(Deps[y]), ~Runs(y)'
      PROVE  \E j \in DOMAIN calls' : j < i /\ calls'[j].by = c /\ calls'[j].svc = y
  <2>1. i > k /\ i - k + 1 \in DOMAIN calls /\ calls'[i] = calls[i - k + 1] /\ i \in Nat
    BY <1>2, <1>3, <1>5
  <2>2. ~Runs(y)
    BY <1>5
  <2>3. PICK j \in DOMAIN calls : j < i - k + 1 /\ calls[j].by = c /\ calls[j].svc = y
    BY <1>5, <2>1, <2>2 DEF ReadersAsked
  <2>4. j # 1
    <3>. SUFFICES ASSUME j = 1 PROVE FALSE
      OBVIOUS
    <3>1. s = y /\ Head(calls).by = c
      BY <1>2, <2>3
    <3>2. Runs(s)'
      BY <3>1
    <3>3. QED
      BY <1>5, <3>1, <3>2 DEF Runs
  <2>5. j \in Nat /\ j > 1
    BY <1>2, <2>3, <2>4
  <2>6. j - 1 + k \in DOMAIN calls' /\ calls'[j - 1 + k] = calls[j]
    BY <1>2, <2>5
  <2>7. j - 1 + k < i
    BY <1>2, <2>1, <2>3, <2>5
  <2>8. QED
    BY <2>3, <2>6, <2>7
<1>6. QED
  BY <1>4, <1>5 DEF ClientLast, ReadersAsked

\* The client finds a service loading: it waits for its event, or has somebody that is made
\* from it to wait for.  A load that finds a dependency loading waits for its event or, when
\* that publishes early, for the promise it has already.
LEMMA OpeningWaits ==
    ASSUME ReloadsInOrder, IInv, NEW c \in Client, NEW r \in Reloaded, Opening(c, r), ~Quiet,
           NEW s, NEW w, s = Head(calls).svc, w = Head(calls).by, WaitsForEvent(s, w)
    PROVE  Opening(c, r)'
<1>0. /\ TypeOK /\ NoOrphanLoading /\ NoLostWaiter
      /\ LoadCalls(c, r) /\ ClientLast(c) /\ ReadersAsked(c, r)
      /\ Unique /\ JustStarted(r) /\ DepsHeld(r) /\ Starter(c, r)
      /\ AllAsked(c, r) /\ RootFirst(c, r)
  BY DEF IInv, Opening
<1>1. /\ s \in Service /\ w \in Waiter /\ r \in Service
      /\ calls \in Seq(Calls) /\ calls # << >> /\ Tail(calls) \in Seq(Calls)
      /\ ToSet(calls) = {Head(calls)} \cup ToSet(Tail(calls))
  <2>1. calls \in Seq(Calls) /\ calls # << >>
    BY <1>0 DEF TypeOK, Quiet
  <2>2. QED
    BY <1>0, <2>1, NextCall, SetOfTail, GraphAssumption
<1>2. /\ state[s] = "loading" /\ calls' = Tail(calls)
      /\ awaitsEvent' = [awaitsEvent EXCEPT ![w] = @ \cup {s}]
      /\ UNCHANGED <<state, at, awaitsLoad>>
  BY DEF WaitsForEvent
<1>3. \A t : Runs(t)' <=> Runs(t)
  BY <1>2 DEF Runs
<1>4. PICK m \in Load : m[1] = s /\ at[m] # "free"
  BY <1>0, <1>1, <1>2 DEF NoOrphanLoading, ActiveLoads
<1>5. at[m] = "deps" /\ Runs(s) /\ s \in Made(r) /\ c \in Waiter /\ c \notin Load
  BY <1>0, <1>4, NamesAssumption DEF JustStarted, Runs, Waiter, Load
<1>6. \A v \in Waiter : \A d : Holds(v, d, r) => Holds(v, d, r)'
  BY <1>0, <1>2 DEF Holds, TypeOK
<1>7. Discreet(s, r) => Holds(w, s, r)'
  <2>1. s \in awaitsEvent'[w]
    BY <1>0, <1>1, <1>2 DEF TypeOK
  <2>2. QED
    BY <2>1 DEF Holds
<1>8. \/ w = c /\ s \in Reach(r)
      \/ w \in Load /\ at[w] = "deps" /\ s \in ToSet(Deps[w[1]]) /\ w[1] \in Made(r)
  <2>1. Head(calls) \in ToSet(calls)
    BY <1>1
  <2>2. QED
    BY <1>0, <2>1 DEF LoadCalls, JustStarted
<1>9. \/ /\ m \in awaitsLoad[c]
         /\ Discreet(s, r) \/ \A y \in Service : s \notin ToSet(Deps[y])
      \/ \E y \in Load : m \in awaitsLoad[y] /\ s \in ToSet(Deps[y[1]])
  BY <1>0, <1>4, <1>5 DEF Starter
<1>10. ASSUME NEW y \in Load, m \in awaitsLoad[y]
       PROVE  at[y] # "free" /\ y[1] \in Service /\ y[1] \in Made(r) /\ Runs(y[1])
  <2>1. at[y] # "free"
    BY <1>0, <1>10 DEF JustStarted, Settled
  <2>2. QED
    BY <1>0, <2>1 DEF JustStarted, Runs, Load
<1>11. w \in Load => Holds(w, s, r)'
  <2>. SUFFICES ASSUME w \in Load, ~Discreet(s, r) PROVE Holds(w, s, r)'
    BY <1>7
  <2>1. /\ at[w] = "deps" /\ s \in ToSet(Deps[w[1]])
        /\ w[1] \in Made(r) /\ w[1] \in Service
    BY <1>5, <1>8 DEF Load
  <2>2. PICK y \in Load : m \in awaitsLoad[y] /\ s \in ToSet(Deps[y[1]])
    BY <1>9, <2>1
  <2>3. y[1] \in Made(r) /\ at[y] # "free"
    BY <1>10, <2>2
  <2>4. y[1] = w[1]
    BY <1>5, <2>1, <2>2, <2>3 DEF ReloadsInOrder, ReaderFirst
  <2>5. y = w
    BY <1>0, <2>1, <2>3, <2>4 DEF Unique
  <2>6. QED
    BY <1>2, <1>4, <2>2, <2>5 DEF Holds
<1>12. w = c => Holds(c, s, r)' \/ \E y \in Service : s \in ToSet(Deps[y]) /\ Runs(y)'
  <2>. SUFFICES ASSUME w = c, ~Discreet(s, r)
                PROVE  Holds(c, s, r)' \/ \E y \in Service : s \in ToSet(Deps[y]) /\ Runs(y)'
    BY <1>7
  <2>1. CASE m \in awaitsLoad[c]
    BY <1>2, <1>4, <2>1 DEF Holds
  <2>2. CASE m \notin awaitsLoad[c]
    BY <1>3, <1>9, <1>10, <2>2
  <2>3. QED
    BY <2>1, <2>2
<1>13. \A t, v : Pending(t, v) => Pending(t, v)' \/ (t = s /\ v = w)
  BY <1>1, <1>2 DEF Pending
<1>14. LoadCalls(c, r)'
  BY <1>0, <1>1, <1>2 DEF LoadCalls
<1>15. ClientLast(c)' /\ ReadersAsked(c, r)'
  <2>1. << >> \in Seq(Calls) /\ DOMAIN << >> = {} /\ calls' = << >> \o Tail(calls)
    BY <1>1, <1>2
  <2>2. Head(calls).by = c => Runs(s)'
    BY <1>3, <1>5
  <2>3. \A y \in Service : Runs(y) => Runs(y)'
    BY <1>3
  <2>4. \A i \in DOMAIN << >> : << >>[i].by # c
    BY <2>1
  <2>5. QED
    BY <1>0, <2>1, <2>2, <2>3, <2>4, OrderKept
<1>16. Unique' /\ JustStarted(r)'
  <2>1. \A l \in Load : at[l] = "free" => l # w
    BY <1>5, <1>8
  <2>2. \A l \in Load : l # w => awaitsEvent'[l] = awaitsEvent[l]
    BY <1>0, <1>2 DEF TypeOK, Waiter
  <2>3. QED
    BY <1>0, <1>2, <2>1, <2>2 DEF Unique, JustStarted, Settled
<1>17. DepsHeld(r)'
  <2>. SUFFICES ASSUME NEW l \in Load, at[l] = "deps", NEW d \in ToSet(Deps[l[1]])
                PROVE  Pending(d, l)' \/ Holds(l, d, r)'
    BY <1>2 DEF DepsHeld
  <2>1. l \in Waiter
    BY DEF Waiter
  <2>2. CASE d = s /\ l = w
    BY <1>11, <2>2
  <2>3. CASE ~(d = s /\ l = w)
    BY <1>0, <1>6, <1>13, <2>1, <2>3 DEF DepsHeld
  <2>4. QED
    BY <2>2, <2>3
<1>18. Starter(c, r)'
  BY <1>0, <1>2 DEF Starter
<1>19. AllAsked(c, r)'
  <2>. SUFFICES ASSUME NEW t \in Reach(r)
                PROVE  \/ Pending(t, c)'
                       \/ /\ Runs(t)'
                          /\ \/ Holds(c, t, r)'
                             \/ \E y \in Service : t \in ToSet(Deps[y]) /\ Runs(y)'
    BY DEF AllAsked
  <2>1. CASE t = s /\ c = w
    BY <1>3, <1>5, <1>12, <2>1
  <2>2. CASE ~(t = s /\ c = w)
    BY <1>0, <1>3, <1>5, <1>6, <1>13, <2>2 DEF AllAsked
  <2>3. QED
    BY <2>1, <2>2
<1>20. RootFirst(c, r)'
  BY <1>0, <1>2, <1>4 DEF RootFirst
<1>21. QED
  BY <1>14, <1>15, <1>16, <1>17, <1>18, <1>19, <1>20 DEF Opening

\* Who asks for a service that is not loading starts it, and waits for its promise.  The
\* client does so for an early publisher only when that has no reader: a reader would be
\* loading, and would have asked before.
LEMMA OpeningStarts ==
    ASSUME ReloadsInOrder, IInv, NEW c \in Client, NEW r \in Reloaded, Opening(c, r), ~Quiet,
           NEW s, NEW w, s = Head(calls).svc, w = Head(calls).by,
           NEW k \in Slot, StartsLoading(s, w, k)
    PROVE  Opening(c, r)'
<1>. DEFINE id == <<s, k>>
            pre == CallsOf(Deps[s], "load", id)
<1>0. /\ TypeOK /\ NoOrphanLoading /\ NoLostWaiter
      /\ LoadCalls(c, r) /\ ClientLast(c) /\ ReadersAsked(c, r)
      /\ Unique /\ JustStarted(r) /\ DepsHeld(r) /\ Starter(c, r)
      /\ AllAsked(c, r) /\ RootFirst(c, r)
  BY DEF IInv, Opening
<1>1. /\ s \in Service /\ w \in Waiter /\ r \in Service
      /\ calls \in Seq(Calls) /\ calls # << >> /\ Tail(calls) \in Seq(Calls)
      /\ ToSet(calls) = {Head(calls)} \cup ToSet(Tail(calls))
  <2>1. calls \in Seq(Calls) /\ calls # << >>
    BY <1>0 DEF TypeOK, Quiet
  <2>2. QED
    BY <1>0, <2>1, NextCall, SetOfTail, GraphAssumption
<1>2. id \in Load /\ id[1] = s /\ id \in Waiter /\ c \in Waiter /\ c \notin Load /\ id # c
  BY <1>1, NamesAssumption DEF Load, Waiter
<1>3. /\ state[s] # "loading" /\ at[id] = "free"
      /\ state' = [state EXCEPT ![s] = "loading"]
      /\ at' = [at EXCEPT ![id] = "deps"]
      /\ awaitsLoad' = [awaitsLoad EXCEPT ![w] = @ \cup {id}]
      /\ calls' = pre \o Tail(calls)
      /\ UNCHANGED awaitsEvent
  BY DEF StartsLoading, FreeSlot
<1>4. /\ pre \in Seq(Calls)
      /\ ToSet(pre) = {[svc |-> d, how |-> "load", by |-> id] : d \in ToSet(Deps[s])}
      /\ \A i \in DOMAIN pre : pre[i].by = id
  <2>1. Deps[s] \in Seq(Service)
    BY <1>1, GraphAssumption
  <2>2. pre \in Seq(Calls)
    BY <1>2, <2>1, CallsTyped DEF How
  <2>3. ToSet(pre) = {[svc |-> d, how |-> "load", by |-> id] : d \in ToSet(Deps[s])}
    BY <2>1, SetOfCalls
  <2>4. \A i \in DOMAIN pre : pre[i] \in ToSet(pre)
    BY DEF ToSet
  <2>5. \A call \in ToSet(pre) : call.by = id
    BY <2>3
  <2>6. QED
    BY <2>2, <2>3, <2>4, <2>5
<1>5. ToSet(calls') = ToSet(pre) \cup ToSet(Tail(calls))
  <2>1. PICK a \in Seq(Calls), b \in Seq(Calls) : a = pre /\ b = Tail(calls)
    BY <1>1, <1>4
  <2>2. ToSet(a \o b) = ToSet(a) \cup ToSet(b)
    BY SetOfBoth
  <2>3. calls' = a \o b
    BY <1>3, <2>1
  <2>4. QED
    BY <2>1, <2>2, <2>3
<1>. HIDE DEF id, pre
<1>6. /\ at'[id] = "deps" /\ \A l \in Load : l # id => at'[l] = at[l]
      /\ state'[s] = "loading" /\ \A t \in Service : t # s => state'[t] = state[t]
      /\ id \in awaitsLoad'[w]
      /\ \A v \in Waiter : awaitsLoad[v] \subseteq awaitsLoad'[v]
      /\ \A v \in Waiter : v # w => awaitsLoad'[v] = awaitsLoad[v]
  <2>1. Load \subseteq Waiter
    BY DEF Waiter
  <2>2. QED
    BY <1>0, <1>1, <1>2, <1>3, <2>1 DEF TypeOK
<1>7. \A l \in Load : l[1] = s => at[l] = "free"
  BY <1>0, <1>3 DEF JustStarted
<1>8. /\ \A t : Runs(t) => Runs(t)'
      /\ Runs(s)' /\ ~Runs(s)
  BY <1>2, <1>6, <1>7 DEF Runs
<1>9. \A v \in Waiter : \A d : Holds(v, d, r) => Holds(v, d, r)'
  BY <1>3, <1>6 DEF Holds
<1>10. Holds(w, s, r)'
  BY <1>2, <1>6 DEF Holds
<1>11. \/ w = c /\ s \in Reach(r)
       \/ w \in Load /\ at[w] = "deps" /\ s \in ToSet(Deps[w[1]]) /\ w[1] \in Made(r)
  <2>1. Head(calls) \in ToSet(calls)
    BY <1>1
  <2>2. QED
    BY <1>0, <2>1 DEF LoadCalls, JustStarted
<1>12. s \in Made(r)
  BY <1>1, <1>11, ReachFacts
<1>13. \A t, v : Pending(t, v) => Pending(t, v)' \/ (t = s /\ v = w)
  BY <1>1, <1>5 DEF Pending
<1>14. \A d \in ToSet(Deps[s]) : Pending(d, id)'
  <2>. SUFFICES ASSUME NEW d \in ToSet(Deps[s]) PROVE Pending(d, id)'
    OBVIOUS
  <2>1. PICK call : call = [svc |-> d, how |-> "load", by |-> id]
    OBVIOUS
  <2>2. call \in ToSet(calls') /\ call.svc = d /\ call.by = id
    BY <1>4, <1>5, <2>1
  <2>3. QED
    BY <2>2 DEF Pending
<1>15. w = c => Discreet(s, r) \/ \A y \in Service : s \notin ToSet(Deps[y])
  <2>. SUFFICES ASSUME w = c, ~Discreet(s, r), NEW y \in Service, s \in ToSet(Deps[y])
                PROVE  FALSE
    OBVIOUS
  <2>1. /\ \A i \in DOMAIN calls : i \in Nat /\ i >= 1
        /\ 1 \in DOMAIN calls /\ calls[1] = Head(calls)
    BY <1>1, <1>4, Shifted
  <2>2. Runs(y)
    <3>1. ~(\E j \in DOMAIN calls : j < 1)
      BY <2>1
    <3>2. calls[1].by = c /\ calls[1].svc = s
      BY <2>1
    <3>3. QED
      BY <1>0, <2>1, <3>1, <3>2 DEF ReadersAsked
  <2>3. PICK l \in Load : l[1] = y /\ at[l] = "deps"
    BY <1>0, <2>2 DEF Runs, JustStarted
  <2>4. ~Pending(s, l)
    <3>. SUFFICES ASSUME NEW call \in ToSet(calls), call.by = l PROVE FALSE
      BY DEF Pending
    <3>1. PICK j \in DOMAIN calls : calls[j].by = l
      BY DEF ToSet
    <3>2. j # 1 /\ 1 < j
      BY <1>2, <2>1, <3>1
    <3>3. calls[j].by = c
      BY <1>0, <2>1, <3>2 DEF ClientLast
    <3>4. QED
      BY <1>2, <3>1, <3>3
  <2>5. Holds(l, s, r) /\ l \in Waiter
    BY <1>0, <2>3, <2>4 DEF DepsHeld, Waiter
  <2>6. QED
    BY <1>0, <1>8, <2>5, HeldRuns
<1>16. LoadCalls(c, r)'
  <2>. SUFFICES ASSUME NEW call \in ToSet(calls')
                PROVE  /\ call.how = "load"
                       /\ \/ call.by = c /\ call.svc \in Reach(r)
                          \/ /\ call.by \in Load /\ at'[call.by] = "deps"
                             /\ call.svc \in ToSet(Deps[call.by[1]])
    BY DEF LoadCalls
  <2>1. CASE call \in ToSet(Tail(calls))
    <3>1. /\ call.how = "load"
          /\ \/ call.by = c /\ call.svc \in Reach(r)
             \/ /\ call.by \in Load /\ at[call.by] = "deps"
                /\ call.svc \in ToSet(Deps[call.by[1]])
      BY <1>0, <1>1, <2>1 DEF LoadCalls
    <3>2. QED
      BY <1>6, <3>1
  <2>2. CASE call \in ToSet(pre)
    <3>1. PICK d \in ToSet(Deps[s]) : call = [svc |-> d, how |-> "load", by |-> id]
      BY <1>4, <2>2
    <3>2. call.svc = d /\ call.how = "load" /\ call.by = id
      BY <3>1
    <3>3. QED
      BY <1>2, <1>6, <3>2
  <2>3. QED
    BY <1>5, <2>1, <2>2
<1>17. ClientLast(c)' /\ ReadersAsked(c, r)'
  <2>1. \A i \in DOMAIN pre : pre[i].by # c
    BY <1>2, <1>4
  <2>2. \A y \in Service : Runs(y) => Runs(y)'
    BY <1>8
  <2>3. Head(calls).by = c => Runs(s)'
    BY <1>8
  <2>4. QED
    BY <1>0, <1>3, <1>4, <2>1, <2>2, <2>3, OrderKept
<1>18. Unique'
  BY <1>0, <1>2, <1>6, <1>7 DEF Unique
<1>19. JustStarted(r)'
  <2>. SUFFICES ASSUME NEW l \in Load
                PROVE  IF at'[l] = "free" THEN Settled(l)'
                       ELSE at'[l] = "deps" /\ l[1] \in Made(r) /\ state'[l[1]] = "loading"
    BY DEF JustStarted
  <2>1. CASE l = id
    BY <1>2, <1>6, <1>12, <2>1
  <2>2. CASE l # id /\ at[l] = "free"
    <3>1. l # w /\ l \in Waiter
      BY <1>2, <1>11, <2>2 DEF Waiter
    <3>2. QED
      BY <1>0, <1>3, <1>6, <2>2, <3>1 DEF JustStarted, Settled
  <2>3. CASE l # id /\ at[l] # "free"
    <3>1. l[1] \in Service
      BY DEF Load
    <3>2. QED
      BY <1>0, <1>6, <2>3, <3>1 DEF JustStarted
  <2>4. QED
    BY <2>1, <2>2, <2>3
<1>20. DepsHeld(r)'
  <2>. SUFFICES ASSUME NEW l \in Load, at'[l] = "deps", NEW d \in ToSet(Deps[l[1]])
                PROVE  Pending(d, l)' \/ Holds(l, d, r)'
    BY DEF DepsHeld
  <2>1. CASE l = id
    BY <1>2, <1>14, <2>1
  <2>2. CASE l # id /\ d = s /\ l = w
    BY <1>10, <2>2
  <2>3. CASE l # id /\ ~(d = s /\ l = w)
    <3>1. l \in Waiter /\ at[l] = "deps"
      BY <1>6, <2>3 DEF Waiter
    <3>2. QED
      BY <1>0, <1>9, <1>13, <2>3, <3>1 DEF DepsHeld
  <2>4. QED
    BY <2>1, <2>2, <2>3
<1>21. Starter(c, r)'
  <2>. SUFFICES ASSUME NEW l \in Load, at'[l] = "deps"
                PROVE  \/ /\ l \in awaitsLoad'[c]
                          /\ Discreet(l[1], r) \/ \A y \in Service : l[1] \notin ToSet(Deps[y])
                       \/ \E y \in Load : l \in awaitsLoad'[y] /\ l[1] \in ToSet(Deps[y[1]])
    BY DEF Starter
  <2>1. CASE l = id
    BY <1>2, <1>6, <1>11, <1>15, <2>1
  <2>2. CASE l # id
    <3>1. at[l] = "deps" /\ Load \subseteq Waiter
      BY <1>6, <2>2 DEF Waiter
    <3>2. QED
      BY <1>0, <1>2, <1>6, <3>1 DEF Starter
  <2>3. QED
    BY <2>1, <2>2
<1>22. AllAsked(c, r)'
  <2>. SUFFICES ASSUME NEW t \in Reach(r)
                PROVE  \/ Pending(t, c)'
                       \/ /\ Runs(t)'
                          /\ \/ Holds(c, t, r)'
                             \/ \E y \in Service : t \in ToSet(Deps[y]) /\ Runs(y)'
    BY DEF AllAsked
  <2>1. CASE t = s /\ c = w
    BY <1>8, <1>10, <2>1
  <2>2. CASE ~(t = s /\ c = w)
    BY <1>0, <1>2, <1>8, <1>9, <1>13, <2>2 DEF AllAsked
  <2>3. QED
    BY <2>1, <2>2
<1>23. RootFirst(c, r)'
  <2>1. CASE \E l \in awaitsLoad[c] : l[1] = r
    BY <1>2, <1>6, <2>1 DEF RootFirst
  <2>2. CASE s = r /\ w = c
    BY <1>2, <1>6, <2>2 DEF RootFirst
  <2>3. QED
    BY <1>0, <2>1, <2>2 DEF RootFirst
<1>24. QED
  BY <1>16, <1>17, <1>18, <1>19, <1>20, <1>21, <1>22, <1>23 DEF Opening

\* All calls are made: the client waits for all that is loaded, or for what is made from it.
LEMMA OpeningCloses ==
    ASSUME IInv, NEW c \in Client, NEW r \in Reloaded, Opening(c, r), Quiet
    PROVE  Closing(c, r)
<1>0. /\ TypeOK /\ NoOrphanLoading /\ NoLostWaiter
      /\ Unique /\ JustStarted(r) /\ DepsHeld(r) /\ AllAsked(c, r) /\ RootFirst(c, r)
  BY DEF IInv, Opening
<1>1. ToSet(calls) = {} /\ c \in Waiter /\ r \in Service
  BY GraphAssumption DEF Quiet, ToSet, Waiter
<1>2. \A t, v : ~Pending(t, v)
  BY <1>1 DEF Pending
<1>3. GetsFine(r)
  BY <1>1 DEF GetsFine
<1>4. Started(r)
  BY <1>0 DEF JustStarted, Started
<1>5. DepsFine(r)
  BY <1>0, <1>2 DEF DepsFine, DepsHeld, Busy, JustStarted
<1>6. InputsFine(r)
  BY <1>0 DEF InputsFine, JustStarted
<1>7. Covered(c, r)
  BY <1>0, <1>2 DEF Covered, AllAsked
<1>8. RootHeld(c, r)
  <2>1. PICK m \in awaitsLoad[c] : m[1] = r
    BY <1>0 DEF RootFirst, Quiet
  <2>2. m \in Load /\ at[m] # "free"
    BY <1>0, <1>1, <2>1 DEF TypeOK, NoLostWaiter
  <2>3. state[r] = "loading"
    BY <1>0, <2>1, <2>2 DEF JustStarted
  <2>4. QED
    BY <1>0, <2>1, <2>2, <2>3 DEF Unique, RootHeld
<1>9. QED
  BY <1>0, <1>3, <1>4, <1>5, <1>6, <1>7, <1>8 DEF Closing

\* A reload finds nothing in flight, and lists each reader of an early publisher before it.
LEMMA ReloadOpens ==
    ASSUME ReloadsInOrder, IInv, NEW c \in Client, NEW r \in Reloaded, Reload(c, r),
           \A w \in Waiter : at[w] = "free"
    PROVE  asked'[c] = Reach(r) /\ Opening(c, r)'
<1>0. TypeOK /\ NoLostWaiter /\ r \in Service
  BY GraphAssumption DEF IInv
<1>1. PICK list \in Seq(Service) : list = <<r>> \o Affected[r]
  BY <1>0, ListsTyped
<1>2. /\ at' = [at EXCEPT ![c] = "running"] /\ asked' = [asked EXCEPT ![c] = ToSet(list)]
      /\ calls' = CallsOf(list, "load", c) /\ UNCHANGED <<awaitsLoad, awaitsEvent>>
  BY <1>1 DEF Reload, Begin
<1>3. c \in Waiter /\ c \notin Load /\ Load \subseteq Waiter
  BY NamesAssumption DEF Waiter, Load
<1>4. \A l \in Load : at'[l] = "free"
  BY <1>0, <1>2, <1>3 DEF TypeOK
<1>5. \A l \in Load : awaitsEvent'[l] = {} /\ awaitsLoad'[l] = {}
  <2>. SUFFICES ASSUME NEW l \in Load PROVE awaitsEvent[l] = {} /\ awaitsLoad[l] = {}
    BY <1>2
  <2>1. awaitsEvent[l] \subseteq Service /\ awaitsLoad[l] \subseteq Load
    BY <1>0, <1>3 DEF TypeOK
  <2>2. \A s \in Service : ActiveLoads(s) = {}
    BY <1>3 DEF ActiveLoads
  <2>3. QED
    BY <1>0, <1>3, <2>1, <2>2 DEF NoLostWaiter
<1>6. /\ Affected[r] \in Seq(Service) /\ Len(Affected[r]) \in Nat
      /\ DOMAIN Affected[r] = 1 .. Len(Affected[r])
      /\ DOMAIN list = 1 .. Len(Affected[r]) + 1 /\ list[1] = r
      /\ \A i \in 1 .. Len(Affected[r]) : list[i + 1] = Affected[r][i]
  <2>1. PICK aff \in Seq(Service) : aff = Affected[r]
    BY <1>0, GraphAssumption
  <2>2. /\ Len(<<r>>) = 1 /\ <<r>> \in Seq(Service) /\ <<r>>[1] = r
        /\ Len(aff) \in Nat /\ DOMAIN aff = 1 .. Len(aff)
    BY <1>0
  <2>3. /\ Len(list) = 1 + Len(aff)
        /\ \A i \in 1 .. 1 + Len(aff) : list[i] = IF i <= 1 THEN <<r>>[i] ELSE aff[i - 1]
    BY <1>1, <2>1, <2>2, ConcatProperties
  <2>4. DOMAIN list = 1 .. Len(aff) + 1
    BY <2>2, <2>3
  <2>5. \A i \in 1 .. Len(aff) :
          i + 1 \in 1 .. 1 + Len(aff) /\ ~(i + 1 <= 1) /\ i + 1 - 1 = i
    BY <2>2
  <2>6. QED
    BY <2>1, <2>2, <2>3, <2>4, <2>5
<1>7. ToSet(list) = Reach(r)
  <2>1. PICK a \in Seq(Service), b \in Seq(Service) : a = <<r>> /\ b = Affected[r]
    BY <1>0, <1>6, ListsTyped
  <2>2. ToSet(a \o b) = ToSet(a) \cup ToSet(b)
    BY SetOfBoth
  <2>3. ToSet(a) = {r}
    BY <2>1 DEF ToSet
  <2>4. QED
    BY <1>1, <2>1, <2>2, <2>3 DEF Reach
<1>8. /\ ToSet(calls') = {[svc |-> d, how |-> "load", by |-> c] : d \in ToSet(list)}
      /\ DOMAIN calls' = DOMAIN list
      /\ \A i \in DOMAIN calls' : calls'[i].svc = list[i] /\ calls'[i].by = c
  <2>1. DOMAIN list = 1 .. Len(list)
    BY <1>1
  <2>2. calls' = [i \in 1 .. Len(list) |-> [svc |-> list[i], how |-> "load", by |-> c]]
    BY <1>2 DEF CallsOf
  <2>3. ToSet(calls') = {[svc |-> d, how |-> "load", by |-> c] : d \in ToSet(list)}
    BY <1>2, SetOfCalls
  <2>4. DOMAIN calls' = DOMAIN list
    BY <2>1, <2>2
  <2>5. \A i \in 1 .. Len(list) : calls'[i] = [svc |-> list[i], how |-> "load", by |-> c]
    BY <2>2
  <2>6. QED
    BY <2>1, <2>3, <2>4, <2>5
<1>9. \A t : ~Runs(t)'
  BY <1>4 DEF Runs
<1>10. LoadCalls(c, r)'
  BY <1>7, <1>8 DEF LoadCalls
<1>11. ClientLast(c)'
  BY <1>8 DEF ClientLast
<1>12. ReadersAsked(c, r)'
  <2>. SUFFICES ASSUME NEW i \in DOMAIN list, ~Discreet(list[i], r),
                       NEW y \in Service, list[i] \in ToSet(Deps[y])
                PROVE  \E j \in DOMAIN list : j < i /\ list[j] = y
    BY <1>8 DEF ReadersAsked
  <2>1. i # 1
    BY <1>6 DEF Discreet
  <2>2. i - 1 \in 1 .. Len(Affected[r]) /\ Affected[r][i - 1] = list[i] /\ i \in Nat
    BY <1>6, <2>1
  <2>3. list[i] \in Made(r)
    <3>1. list[i] \in ToSet(list)
      BY DEF ToSet
    <3>2. QED
      BY <1>0, <1>7, <3>1, ReachFacts
  <2>4. PICK j \in 1 .. (i - 1) - 1 : Affected[r][j] = y
    BY <1>6, <2>2, <2>3 DEF ReloadsInOrder, ReaderFirst
  <2>5. j \in 1 .. Len(Affected[r]) /\ j + 1 \in DOMAIN list /\ j + 1 < i
    BY <1>6, <2>2, <2>4
  <2>6. QED
    BY <1>6, <2>4, <2>5
<1>13. Unique' /\ JustStarted(r)' /\ DepsHeld(r)' /\ Starter(c, r)'
  BY <1>4, <1>5 DEF Unique, JustStarted, Settled, DepsHeld, Starter
<1>14. AllAsked(c, r)'
  <2>. SUFFICES ASSUME NEW t \in Reach(r) PROVE Pending(t, c)'
    BY DEF AllAsked
  <2>1. PICK call : call = [svc |-> t, how |-> "load", by |-> c]
    OBVIOUS
  <2>2. call \in ToSet(calls') /\ call.svc = t /\ call.by = c
    BY <1>7, <1>8, <2>1
  <2>3. QED
    BY <2>2 DEF Pending
<1>15. RootFirst(c, r)'
  <2>1. 1 \in DOMAIN calls'
    BY <1>6, <1>8
  <2>2. calls'[1].svc = r /\ calls'[1].by = c
    BY <1>6, <1>8, <2>1
  <2>3. calls' # << >> /\ Head(calls') = calls'[1]
    BY <2>1
  <2>4. QED
    BY <1>4, <2>2, <2>3 DEF RootFirst, Quiet
<1>16. asked'[c] = Reach(r)
  BY <1>0, <1>2, <1>7 DEF TypeOK
<1>17. QED
  BY <1>10, <1>11, <1>12, <1>13, <1>14, <1>15, <1>16 DEF Opening

\* A factory reads what is ready: no service is loaded, and nobody waits, any more.
LEMMA ClosingCall ==
    ASSUME IInv, NEW c \in Client, NEW r \in Reloaded, Closing(c, r), Call
    PROVE  Closing(c, r)'
<1>0. /\ TypeOK /\ GetsFine(r) /\ Unique /\ Started(r) /\ DepsFine(r) /\ InputsFine(r)
      /\ Covered(c, r) /\ RootHeld(c, r) /\ ~Quiet
  BY DEF IInv, Closing, Call
<1>1. PICK s \in Service, w \in Waiter : s = Head(calls).svc /\ w = Head(calls).by
  BY <1>0, NextCall
<1>2. ToSet(calls) = {Head(calls)} \cup ToSet(Tail(calls))
  <2>1. calls \in Seq(Calls) /\ calls # << >>
    BY <1>0 DEF TypeOK, Quiet
  <2>2. QED
    BY <2>1, SetOfTail
<1>3. Head(calls).how = "get" /\ Fine(s, r)
  BY <1>0, <1>1, <1>2 DEF GetsFine
<1>4. HasValue(s, w)
  BY <1>1, <1>3 DEF Call, WaitsForEvent, StartsLoading, Fine
<1>5. /\ calls' = Tail(calls)
      /\ UNCHANGED <<state, outdated, held, at, awaitsLoad, awaitsEvent>>
      /\ \A l \in Load : seen'[l] \in {seen[l], seen[l] \cup outdated[s]}
  BY <1>0, <1>4 DEF HasValue, TypeOK
<1>6. \A t : Runs(t)' <=> Runs(t)
  BY <1>5 DEF Runs
<1>7. \A t : Fine(t, r)' <=> Fine(t, r)
  BY <1>5, <1>6 DEF Fine
<1>8. \A v, d : Holds(v, d, r)' <=> Holds(v, d, r)
  BY <1>5 DEF Holds
<1>9. InputsFine(r)'
  BY <1>0, <1>3, <1>5 DEF InputsFine, Fine
<1>10. GetsFine(r)'
  BY <1>0, <1>2, <1>5, <1>7 DEF GetsFine
<1>11. Unique' /\ Started(r)' /\ RootHeld(c, r)'
  BY <1>0, <1>5 DEF Unique, Started, Settled, RootHeld
<1>12. DepsFine(r)'
  BY <1>0, <1>5, <1>7, <1>8 DEF DepsFine, Busy
<1>13. Covered(c, r)'
  BY <1>0, <1>5, <1>6, <1>7, <1>8 DEF Covered
<1>14. QED
  BY <1>9, <1>10, <1>11, <1>12, <1>13 DEF Closing

LEMMA DepsLoadedCloses ==
    ASSUME IInv, NEW c \in Client, NEW r \in Reloaded, Closing(c, r),
           NEW id \in Load, DepsLoaded(id)
    PROVE  Closing(c, r)'
<1>0. /\ TypeOK /\ Unique /\ Started(r) /\ DepsFine(r) /\ InputsFine(r)
      /\ Covered(c, r) /\ RootHeld(c, r)
  BY DEF IInv, Closing
<1>1. PICK s \in Service : s = id[1]
  BY DEF Load
<1>2. /\ at[id] = "deps" /\ Settled(id) /\ at' = [at EXCEPT ![id] = "inputs"]
      /\ calls' = CallsOf(Deps[s], "get", id) /\ seen' = [seen EXCEPT ![id] = {}]
      /\ UNCHANGED <<state, outdated, held, awaitsLoad, awaitsEvent>>
  BY <1>1 DEF DepsLoaded
<1>3. /\ at'[id] = "inputs" /\ \A l \in Load : l # id => at'[l] = at[l]
      /\ seen'[id] = {} /\ \A l \in Load : l # id => seen'[l] = seen[l]
  BY <1>0, <1>2 DEF TypeOK, Waiter
<1>4. \A t : Runs(t)' <=> Runs(t)
  BY <1>2, <1>3 DEF Runs
<1>5. \A t : Fine(t, r)' <=> Fine(t, r)
  BY <1>2, <1>4 DEF Fine
<1>6. \A v, d : Holds(v, d, r)' <=> Holds(v, d, r)
  BY <1>2 DEF Holds
<1>7. \A d \in ToSet(Deps[s]) : Fine(d, r)
  BY <1>0, <1>1, <1>2 DEF DepsFine, Busy, Holds, Settled
<1>8. GetsFine(r)'
  <2>1. ToSet(calls') = {[svc |-> d, how |-> "get", by |-> id] : d \in ToSet(Deps[s])}
    BY <1>2, GraphAssumption, SetOfCalls
  <2>2. ASSUME NEW call \in ToSet(calls') PROVE call.how = "get" /\ Fine(call.svc, r)'
    <3>1. PICK d \in ToSet(Deps[s]) : call = [svc |-> d, how |-> "get", by |-> id]
      BY <2>1
    <3>2. call.svc = d /\ call.how = "get"
      BY <3>1
    <3>3. QED
      BY <1>5, <1>7, <3>2
  <2>3. QED
    BY <2>2 DEF GetsFine
<1>9. Unique' /\ RootHeld(c, r)'
  BY <1>0, <1>2, <1>3 DEF Unique, RootHeld
<1>10. Started(r)'
  BY <1>0, <1>2, <1>3 DEF Started, Settled
<1>11. InputsFine(r)'
  BY <1>0, <1>3 DEF InputsFine
<1>12. DepsFine(r)'
  BY <1>0, <1>2, <1>3, <1>5, <1>6 DEF DepsFine, Busy
<1>13. Covered(c, r)'
  BY <1>0, <1>2, <1>4, <1>5, <1>6 DEF Covered
<1>14. QED
  BY <1>8, <1>9, <1>10, <1>11, <1>12, <1>13 DEF Closing

LEMMA BodyStartsCloses ==
    ASSUME IInv, NEW c \in Client, NEW r \in Reloaded, Closing(c, r),
           NEW id \in Load, BodyStarts(id)
    PROVE  Closing(c, r)'
<1>0. /\ TypeOK /\ GetsFine(r) /\ Unique /\ Started(r) /\ DepsFine(r) /\ InputsFine(r)
      /\ Covered(c, r) /\ RootHeld(c, r)
  BY DEF IInv, Closing
<1>1. /\ at[id] = "inputs" /\ at' = [at EXCEPT ![id] = "body"]
      /\ UNCHANGED <<state, outdated, held, awaitsLoad, awaitsEvent, seen, calls>>
  BY DEF BodyStarts
<1>2. at'[id] = "body" /\ \A l \in Load : l # id => at'[l] = at[l]
  BY <1>0, <1>1 DEF TypeOK, Waiter
<1>3. \A t : Runs(t)' <=> Runs(t)
  BY <1>1, <1>2 DEF Runs
<1>4. \A t : Fine(t, r)' <=> Fine(t, r)
  BY <1>1, <1>3 DEF Fine
<1>5. \A v, d : Holds(v, d, r)' <=> Holds(v, d, r)
  BY <1>1 DEF Holds
<1>6. GetsFine(r)' /\ Unique' /\ RootHeld(c, r)'
  BY <1>0, <1>1, <1>2, <1>4 DEF GetsFine, Unique, RootHeld
<1>7. Started(r)' /\ InputsFine(r)'
  BY <1>0, <1>1, <1>2 DEF Started, Settled, InputsFine
<1>8. DepsFine(r)'
  BY <1>0, <1>1, <1>2, <1>4, <1>5 DEF DepsFine, Busy
<1>9. Covered(c, r)'
  BY <1>0, <1>1, <1>3, <1>4, <1>5 DEF Covered
<1>10. QED
  BY <1>6, <1>7, <1>8, <1>9 DEF Closing

\* A factory publishes its own state, or that of a service it has read: who waits for what
\* is shown by it waits for nothing stale.
LEMMA SetCloses ==
    ASSUME ReloadsInOrder, IInv, NEW c \in Client, NEW r \in Reloaded, Closing(c, r),
           NEW id \in Load, NEW t \in Service, Set(id, t)
    PROVE  Closing(c, r)'
<1>0. /\ TypeOK /\ Unique /\ Started(r) /\ DepsFine(r) /\ InputsFine(r)
      /\ Covered(c, r) /\ RootHeld(c, r) /\ r \in Service
  BY GraphAssumption DEF IInv, Closing
<1>1. PICK s \in Service : s = id[1]
  BY DEF Load
<1>2. PICK old : Answer(t, old, {})
  BY DEF Set
<1>3. /\ Quiet /\ at[id] = "body" /\ t \in Sets[s] /\ UNCHANGED <<at, calls>>
      /\ state'[t] = "ready" /\ \A d \in Service : d # t => state'[d] = state[d]
      /\ \A d \in Service : d # t => outdated'[d] = outdated[d] /\ held'[d] = held[d]
      /\ t # s => outdated'[t] = held[t] /\ held'[t] = held[t]
      /\ \A w \in Waiter : awaitsEvent'[w] = awaitsEvent[w] \ {t} /\ awaitsLoad'[w] = awaitsLoad[w]
  <2>1. /\ state'[t] = "ready" /\ \A d \in Service : d # t => state'[d] = state[d]
        /\ \A d \in Service : d # t => outdated'[d] = outdated[d]
        /\ \A w \in Waiter : awaitsEvent'[w] = awaitsEvent[w] \ {t} /\ awaitsLoad'[w] = awaitsLoad[w]
    BY <1>0, <1>2 DEF Answer, TypeOK
  <2>2. \A d \in Service : d # t => held'[d] = held[d]
    BY <1>0 DEF Set, TypeOK
  <2>3. t # s => outdated'[t] = held[t] /\ held'[t] = held[t]
    BY <1>0, <1>1 DEF Set, Answer, TypeOK
  <2>4. QED
    BY <1>1, <2>1, <2>2, <2>3 DEF Set
<1>4. /\ Settled(id) /\ s \in Made(r) /\ Runs(s) /\ Busy(id)
      /\ \A d \in ToSet(Deps[s]) : Fine(d, r)
  <2>1. Settled(id) /\ s \in Made(r) /\ Busy(id) /\ Runs(s)
    BY <1>0, <1>1, <1>3 DEF Started, Busy, Runs
  <2>2. \A d : ~Holds(id, d, r)
    BY <2>1 DEF Holds, Settled
  <2>3. QED
    BY <1>0, <1>1, <2>1, <2>2 DEF DepsFine
<1>5. t \in Made(r) => t = s \/ (t # s /\ t \in ToSet(Deps[s]))
  BY <1>3, <1>4 DEF ReloadsInOrder
<1>6. \A l \in Load : seen'[l] = seen[l]
  <2>. SUFFICES ASSUME NEW l \in Load, at[l] = "inputs" PROVE seen'[l] = seen[l]
    BY <1>2 DEF Answer
  <2>1. Settled(l)
    BY <1>0 DEF Started
  <2>2. QED
    BY <1>2, <2>1 DEF Answer, Settled
<1>7. \A d : Runs(d)' <=> Runs(d)
  BY <1>3 DEF Runs
<1>8. ASSUME NEW d \in Made(r), Fine(d, r) PROVE Fine(d, r)'
  <2>1. d \in Service
    BY <1>0, ReachFacts
  <2>2. CASE d # t
    BY <1>3, <1>7, <1>8, <2>1, <2>2 DEF Fine
  <2>3. CASE d = t /\ t # s
    BY <1>3, <1>7, <1>8, <2>3 DEF Fine
  <2>4. CASE d = t /\ t = s
    BY <1>3, <1>4, <1>7, <1>8, <2>4 DEF Fine
  <2>5. QED
    BY <2>2, <2>3, <2>4
<1>9. ASSUME NEW w \in Waiter, NEW d \in Made(r), Holds(w, d, r)
      PROVE  Holds(w, d, r)' \/ Fine(d, r)'
  <2>1. CASE d # t
    BY <1>3, <1>9, <2>1 DEF Holds
  <2>2. CASE d = t /\ t # s
    BY <1>4, <1>5, <1>8, <1>9, <2>2
  <2>3. CASE d = t /\ t = s /\ t # r
    BY <1>3, <1>9, <2>3 DEF Holds, Discreet
  <2>4. CASE d = t /\ t = s /\ t = r
    BY <1>3, <1>7, <2>4 DEF Fine
  <2>5. QED
    BY <2>1, <2>2, <2>3, <2>4
<1>10. ASSUME NEW d \in Made(r), Runs(d) \/ state[d] = "error"
       PROVE  Runs(d)' \/ state'[d] = "error"
  <2>1. d \in Service
    BY <1>0, ReachFacts
  <2>2. CASE d # t
    BY <1>3, <1>7, <1>10, <2>1, <2>2
  <2>3. CASE d = t /\ t # s
    BY <1>4, <1>5, <1>7, <1>10, <2>3 DEF Fine
  <2>4. CASE d = t /\ t = s
    BY <1>4, <1>7, <2>4
  <2>5. QED
    BY <2>2, <2>3, <2>4
<1>11. c \in Waiter /\ Load \subseteq Waiter
  BY DEF Waiter
<1>12. Runs(r) => Holds(c, r, r)'
  <2>. SUFFICES ASSUME Runs(r) PROVE Holds(c, r, r)'
    OBVIOUS
  <2>1. PICK l \in Load : l[1] = r /\ at[l] # "free"
    BY DEF Runs
  <2>2. l \in awaitsLoad'[c]
    BY <1>0, <1>3, <1>11, <2>1 DEF RootHeld
  <2>3. QED
    BY <2>1, <2>2 DEF Holds
<1>13. GetsFine(r)'
  BY <1>3 DEF GetsFine, Quiet, ToSet
<1>14. Unique' /\ RootHeld(c, r)' /\ InputsFine(r)'
  BY <1>0, <1>3, <1>6, <1>11 DEF Unique, RootHeld, InputsFine
<1>15. Started(r)'
  BY <1>0, <1>3, <1>11 DEF Started, Settled
<1>16. DepsFine(r)'
  <2>. SUFFICES ASSUME NEW l \in Load, Busy(l), NEW d \in ToSet(Deps[l[1]])
                PROVE  Holds(l, d, r)' \/ Fine(d, r)'
    BY <1>3 DEF DepsFine, Busy
  <2>1. d \in Made(r)
    <3>1. l[1] \in Made(r)
      BY <1>0 DEF Started, Busy
    <3>2. QED
      BY <1>0, <3>1, ReachFacts
  <2>2. QED
    BY <1>0, <1>8, <1>9, <1>11, <2>1 DEF DepsFine
<1>17. Covered(c, r)'
  <2>. SUFFICES ASSUME NEW x \in Reach(r)
                PROVE  \/ Fine(x, r)' /\ ~Runs(x)'
                       \/ /\ Runs(x)' \/ state'[x] = "error"
                          /\ \/ Holds(c, x, r)'
                             \/ \E y \in Service :
                                  x \in ToSet(Deps[y]) /\ (Runs(y)' \/ state'[y] = "error")
    BY DEF Covered
  <2>1. /\ x \in Made(r)
        /\ \A y \in Service : x \in ToSet(Deps[y]) => y \in Made(r)
    BY <1>0, ReachFacts
  <2>2. CASE Fine(x, r) /\ ~Runs(x)
    BY <1>7, <1>8, <2>1, <2>2
  <2>3. CASE (Runs(x) \/ state[x] = "error") /\ Holds(c, x, r)
    <3>1. CASE Holds(c, x, r)'
      BY <1>10, <2>1, <2>3, <3>1
    <3>2. CASE Fine(x, r)'
      <4>1. ~Runs(x)' \/ x = r
        BY <3>2 DEF Fine
      <4>2. QED
        BY <1>7, <1>12, <3>2, <4>1
    <3>3. QED
      BY <1>9, <1>11, <2>1, <2>3, <3>1, <3>2
  <2>4. CASE /\ Runs(x) \/ state[x] = "error"
             /\ \E y \in Service : x \in ToSet(Deps[y]) /\ (Runs(y) \/ state[y] = "error")
    BY <1>10, <2>1, <2>4
  <2>5. QED
    BY <1>0, <2>2, <2>3, <2>4 DEF Covered
<1>18. QED
  BY <1>13, <1>14, <1>15, <1>16, <1>17 DEF Closing

\* A factory returns: what it read was ready and up to date, and so is its service now.
LEMMA FinishCloses ==
    ASSUME IInv, NEW c \in Client, NEW r \in Reloaded, Closing(c, r),
           NEW id \in Load, Finish(id)
    PROVE  Closing(c, r)'
<1>0. /\ TypeOK /\ Unique /\ Started(r) /\ DepsFine(r) /\ InputsFine(r)
      /\ Covered(c, r) /\ RootHeld(c, r) /\ r \in Service
  BY GraphAssumption DEF IInv, Closing
<1>1. PICK s \in Service : s = id[1]
  BY DEF Load
<1>2. /\ Quiet /\ at[id] = "body" /\ at' = [at EXCEPT ![id] = "free"] /\ UNCHANGED calls
      /\ Answer(s, seen[id], {id}) /\ held' = [held EXCEPT ![s] = seen[id]]
  BY <1>1 DEF Finish
<1>3. /\ c \in Waiter /\ Load \subseteq Waiter
      /\ at'[id] = "free" /\ \A l \in Load : l # id => at'[l] = at[l]
      /\ \A w \in Waiter : /\ awaitsEvent'[w] = awaitsEvent[w] \ {s}
                           /\ awaitsLoad'[w] = awaitsLoad[w] \ {id}
      /\ state'[s] = "ready" /\ outdated'[s] = seen[id] /\ held'[s] = seen[id]
      /\ \A d \in Service : d # s =>
           state'[d] = state[d] /\ outdated'[d] = outdated[d] /\ held'[d] = held[d]
  BY <1>0, <1>2 DEF Answer, TypeOK, Waiter
<1>4. /\ Settled(id) /\ Runs(s) /\ s \in Made(r)
      /\ \A d \in ToSet(Deps[s]) : Fine(d, r)
  <2>1. Settled(id) /\ Busy(id) /\ Runs(s) /\ s \in Made(r)
    BY <1>0, <1>1, <1>2 DEF Started, Busy, Runs
  <2>2. \A d : ~Holds(id, d, r)
    BY <2>1 DEF Holds, Settled
  <2>3. QED
    BY <1>0, <1>1, <2>1, <2>2 DEF DepsFine
<1>5. \A l \in Load : seen'[l] = seen[l]
  <2>. SUFFICES ASSUME NEW l \in Load, at[l] = "inputs" PROVE seen'[l] = seen[l]
    BY <1>2 DEF Answer
  <2>1. Settled(l)
    BY <1>0 DEF Started
  <2>2. QED
    BY <1>2, <2>1 DEF Answer, Settled
<1>6. ~Runs(s)' /\ \A d : d # s => (Runs(d)' <=> Runs(d))
  BY <1>0, <1>1, <1>2, <1>3 DEF Runs, Unique
<1>7. Fine(s, r)'
  BY <1>0, <1>2, <1>3, <1>6 DEF Fine, InputsFine
<1>8. \A d \in Service : Fine(d, r) => Fine(d, r)'
  BY <1>3, <1>6, <1>7 DEF Fine
<1>9. \A w \in Waiter : \A d : d # s /\ Holds(w, d, r) => Holds(w, d, r)'
  BY <1>1, <1>3 DEF Holds
<1>10. GetsFine(r)'
  BY <1>2 DEF GetsFine, Quiet, ToSet
<1>11. Unique' /\ RootHeld(c, r)' /\ InputsFine(r)'
  BY <1>0, <1>3, <1>5 DEF Unique, RootHeld, InputsFine
<1>12. Started(r)'
  BY <1>0, <1>3, <1>4 DEF Started, Settled
<1>13. DepsFine(r)'
  <2>. SUFFICES ASSUME NEW l \in Load, Busy(l)', NEW d \in ToSet(Deps[l[1]])
                PROVE  Holds(l, d, r)' \/ Fine(d, r)'
    BY DEF DepsFine
  <2>1. Busy(l) /\ l \in Waiter
    BY <1>3 DEF Busy
  <2>2. d \in Service
    <3>1. l[1] \in Made(r)
      BY <1>0, <2>1 DEF Started, Busy
    <3>2. QED
      BY <1>0, <3>1, ReachFacts
  <2>3. QED
    BY <1>0, <1>7, <1>8, <1>9, <2>1, <2>2 DEF DepsFine
<1>14. Covered(c, r)'
  <2>. SUFFICES ASSUME NEW x \in Reach(r), x # s
                PROVE  \/ Fine(x, r)' /\ ~Runs(x)'
                       \/ /\ Runs(x)' \/ state'[x] = "error"
                          /\ \/ Holds(c, x, r)'
                             \/ \E y \in Service :
                                  x \in ToSet(Deps[y]) /\ (Runs(y)' \/ state'[y] = "error")
    BY <1>6, <1>7 DEF Covered
  <2>1. x \in Service
    BY <1>0, ReachFacts
  <2>2. CASE Fine(x, r) /\ ~Runs(x)
    BY <1>6, <1>8, <2>1, <2>2
  <2>3. CASE (Runs(x) \/ state[x] = "error") /\ Holds(c, x, r)
    BY <1>3, <1>6, <1>9, <2>1, <2>3
  <2>4. ASSUME Runs(x) \/ state[x] = "error",
               NEW y \in Service, x \in ToSet(Deps[y]), Runs(y) \/ state[y] = "error", y # s
        PROVE  /\ Runs(x)' \/ state'[x] = "error"
               /\ Runs(y)' \/ state'[y] = "error"
    BY <1>3, <1>6, <2>1, <2>4
  <2>5. CASE (Runs(x) \/ state[x] = "error") /\ x \in ToSet(Deps[s])
    <3>1. Runs(x) /\ x = r
      BY <1>4, <2>5 DEF Fine
    <3>2. PICK l \in Load : l[1] = r /\ at[l] # "free"
      BY <3>1 DEF Runs
    <3>3. l \in awaitsLoad'[c]
      BY <1>0, <1>1, <1>3, <3>1, <3>2 DEF RootHeld
    <3>4. QED
      BY <1>6, <3>1, <3>2, <3>3 DEF Holds
  <2>6. QED
    BY <1>0, <2>2, <2>3, <2>4, <2>5 DEF Covered
<1>15. QED
  BY <1>10, <1>11, <1>12, <1>13, <1>14 DEF Closing

\* A load fails.  Either the client hears of it, and fails, or it waits for a service made
\* from that one, which is to fail as well.
LEMMA FailCloses ==
    ASSUME IInv, NEW c \in Client, NEW r \in Reloaded, Closing(c, r),
           kind[c] = "reload", NEW id \in Load, Fail(id), at'[c] = "running"
    PROVE  Closing(c, r)'
<1>0. /\ TypeOK /\ NoLostWaiter /\ Unique /\ Started(r) /\ DepsFine(r) /\ InputsFine(r)
      /\ Covered(c, r) /\ RootHeld(c, r) /\ r \in Service
  BY GraphAssumption DEF IInv, Closing
<1>1. PICK s \in Service : s = id[1]
  BY DEF Load
<1>2. /\ Quiet /\ at[id] \in {"body", "failing"} /\ Reject(id, WokenBy(id))
      /\ state' = [state EXCEPT ![s] = "error"]
      /\ UNCHANGED <<outdated, held, seen, calls>>
  BY <1>1 DEF Fail
<1>3. PICK woken \in SUBSET Waiter : woken = WokenBy(id)
  BY DEF WokenBy, EventWaiters
<1>4. /\ c \in Waiter /\ Load \subseteq Waiter /\ c # id
      /\ ~Tolerant(c) /\ \A l \in Load : ~Tolerant(l)
  BY <1>2, NamesAssumption DEF Tolerant, Load, Waiter
<1>5. /\ \A w \in Load \cup {c} :
           /\ at'[w] = IF w = id THEN "free" ELSE IF w \in woken THEN "failing" ELSE at[w]
           /\ awaitsEvent'[w] = IF w \in woken THEN {} ELSE awaitsEvent[w]
           /\ awaitsLoad'[w] = IF w \in woken THEN {} ELSE awaitsLoad[w]
  BY <1>2, <1>3, <1>4 DEF Reject
<1>6. /\ c \notin woken /\ id \notin awaitsLoad[c] /\ s \notin awaitsEvent[c]
      /\ awaitsLoad'[c] = awaitsLoad[c] /\ awaitsEvent'[c] = awaitsEvent[c]
  <2>1. c \notin woken
    BY <1>4, <1>5
  <2>2. QED
    BY <1>1, <1>3, <1>4, <1>5, <2>1 DEF WokenBy, EventWaiters
<1>7. s # r
  BY <1>0, <1>1, <1>2, <1>6 DEF RootHeld
<1>8. ~Holds(c, s, r)
  <2>. SUFFICES ASSUME NEW l \in awaitsLoad[c], l[1] = s PROVE FALSE
    BY <1>6 DEF Holds
  <2>1. l \in Load /\ at[l] # "free"
    BY <1>0, <1>4 DEF TypeOK, NoLostWaiter
  <2>2. QED
    BY <1>0, <1>1, <1>2, <1>6, <2>1 DEF Unique
<1>9. ASSUME NEW l \in Load, l \in woken PROVE at[l] = "deps"
  <2>1. ~Settled(l)
    BY <1>3, <1>9 DEF WokenBy, EventWaiters, Settled
  <2>2. QED
    BY <1>0, <2>1 DEF Started
<1>10. \A l \in Load : at'[l] # "free" <=> at[l] # "free" /\ l # id
  BY <1>5, <1>9
<1>11. Runs(s) /\ ~Runs(s)' /\ \A d : d # s => (Runs(d)' <=> Runs(d))
  BY <1>0, <1>1, <1>2, <1>10 DEF Runs, Unique
<1>12. state'[s] = "error" /\ \A d \in Service : d # s => state'[d] = state[d]
  BY <1>0, <1>2 DEF TypeOK
<1>13. \A d \in Service : Fine(d, r) => Fine(d, r)'
  BY <1>2, <1>7, <1>11, <1>12 DEF Fine
<1>14. \A w \in Load \cup {c} : \A d : w \notin woken /\ Holds(w, d, r) => Holds(w, d, r)'
  BY <1>5 DEF Holds
<1>15. \A d \in Service : Runs(d) \/ state[d] = "error" => Runs(d)' \/ state'[d] = "error"
  BY <1>11, <1>12
<1>16. GetsFine(r)'
  BY <1>2 DEF GetsFine, Quiet, ToSet
<1>17. Unique'
  BY <1>0, <1>10 DEF Unique
<1>18. RootHeld(c, r)'
  BY <1>0, <1>6, <1>7, <1>10, <1>12 DEF RootHeld
<1>19. InputsFine(r)'
  BY <1>0, <1>2, <1>5 DEF InputsFine
<1>20. Started(r)'
  <2>. SUFFICES ASSUME NEW l \in Load
                PROVE  /\ at'[l] # "deps" => Settled(l)'
                       /\ at'[l] # "free" => l[1] \in Made(r)
    BY DEF Started
  <2>1. at'[l] # "free" => l[1] \in Made(r)
    BY <1>0, <1>10 DEF Started
  <2>2. CASE l \in woken
    BY <1>5, <2>1, <2>2 DEF Settled
  <2>3. CASE l \notin woken
    <3>1. at'[l] # "deps" => at[l] # "deps"
      BY <1>2, <1>5, <2>3
    <3>2. QED
      BY <1>0, <1>5, <2>1, <2>3, <3>1 DEF Started, Settled
  <2>4. QED
    BY <2>2, <2>3
<1>21. DepsFine(r)'
  <2>. SUFFICES ASSUME NEW l \in Load, Busy(l)', NEW d \in ToSet(Deps[l[1]])
                PROVE  Holds(l, d, r)' \/ Fine(d, r)'
    BY DEF DepsFine
  <2>1. Busy(l) /\ l \notin woken
    BY <1>5 DEF Busy
  <2>2. d \in Service
    <3>1. l[1] \in Made(r)
      BY <1>0, <2>1 DEF Started, Busy
    <3>2. QED
      BY <1>0, <3>1, ReachFacts
  <2>3. QED
    BY <1>0, <1>13, <1>14, <2>1, <2>2 DEF DepsFine
<1>22. Covered(c, r)'
  <2>. SUFFICES ASSUME NEW x \in Reach(r)
                PROVE  \/ Fine(x, r)' /\ ~Runs(x)'
                       \/ /\ Runs(x)' \/ state'[x] = "error"
                          /\ \/ Holds(c, x, r)'
                             \/ \E y \in Service :
                                  x \in ToSet(Deps[y]) /\ (Runs(y)' \/ state'[y] = "error")
    BY DEF Covered
  <2>1. x \in Service
    BY <1>0, ReachFacts
  <2>2. CASE Fine(x, r) /\ ~Runs(x)
    <3>1. x # s
      BY <1>11, <2>2
    <3>2. QED
      BY <1>11, <1>13, <2>1, <2>2, <3>1
  <2>3. CASE (Runs(x) \/ state[x] = "error") /\ Holds(c, x, r)
    BY <1>6, <1>14, <1>15, <2>1, <2>3
  <2>4. CASE /\ Runs(x) \/ state[x] = "error"
             /\ \E y \in Service : x \in ToSet(Deps[y]) /\ (Runs(y) \/ state[y] = "error")
    BY <1>15, <2>1, <2>4
  <2>5. QED
    BY <1>0, <2>2, <2>3, <2>4 DEF Covered
<1>23. QED
  BY <1>16, <1>17, <1>18, <1>19, <1>20, <1>21, <1>22 DEF Closing

\* What no load and no value of a service changes.
LEMMA SameFresh ==
    ASSUME NEW c, NEW r,
           UNCHANGED <<state, outdated, held, awaitsLoad, awaitsEvent, seen, calls>>,
           \A l \in Load : at'[l] = at[l]
    PROVE  (Opening(c, r) => Opening(c, r)') /\ (Closing(c, r) => Closing(c, r)')
<1>1. \A t : Runs(t)' <=> Runs(t)
  BY DEF Runs
<1>2. \A w, d : Holds(w, d, r)' <=> Holds(w, d, r)
  BY DEF Holds
<1>3. \A d : Fine(d, r)' <=> Fine(d, r)
  BY <1>1 DEF Fine
<1>4. \A t, w : Pending(t, w)' <=> Pending(t, w)
  BY DEF Pending
<1>5. \A l \in Load : Settled(l)' <=> Settled(l)
  BY DEF Settled
<1>6. Unique => Unique'
  BY DEF Unique
<1>7. ASSUME Opening(c, r) PROVE Opening(c, r)'
  <2>1. LoadCalls(c, r)' /\ ClientLast(c)' /\ ReadersAsked(c, r)'
    BY <1>1, <1>7 DEF Opening, LoadCalls, ClientLast, ReadersAsked
  <2>2. JustStarted(r)' /\ DepsHeld(r)' /\ Starter(c, r)'
    BY <1>2, <1>4, <1>5, <1>7 DEF Opening, JustStarted, DepsHeld, Starter
  <2>3. AllAsked(c, r)' /\ RootFirst(c, r)'
    BY <1>1, <1>2, <1>4, <1>7 DEF Opening, AllAsked, RootFirst, Quiet
  <2>4. QED
    BY <1>6, <1>7, <2>1, <2>2, <2>3 DEF Opening
<1>8. ASSUME Closing(c, r) PROVE Closing(c, r)'
  <2>1. GetsFine(r)' /\ Started(r)' /\ DepsFine(r)' /\ InputsFine(r)'
    BY <1>2, <1>3, <1>5, <1>8 DEF Closing, GetsFine, Started, DepsFine, InputsFine, Busy
  <2>2. Covered(c, r)' /\ RootHeld(c, r)'
    BY <1>1, <1>2, <1>3, <1>8 DEF Closing, Covered, RootHeld
  <2>3. QED
    BY <1>6, <1>8, <2>1, <2>2 DEF Closing
<1>9. QED
  BY <1>7, <1>8

LEMMA FreshStep ==
    ASSUME ReloadsInOrder, IInv, FreshInv, [Next]_vars
    PROVE  FreshInv'
<1>. DEFINE Found(c, r) == asked[c] = Reach(r) /\ (Opening(c, r) \/ Closing(c, r))
<1>. SUFFICES ASSUME NEW c \in alone', at'[c] = "running", kind'[c] = "reload"
              PROVE  \E r \in Reloaded : Found(c, r)'
  BY DEF FreshInv
<1>0. /\ TypeOK /\ Load \subseteq Waiter /\ Client \subseteq Waiter
      /\ \A d \in Client : d \notin Load
  BY NamesAssumption DEF IInv, Waiter, Load
<1>1. ASSUME NEW d \in Client, NEW k, NEW list, Begin(d, k, list)
      PROVE  c = d /\ k = "reload" /\ \A w \in Waiter : at[w] = "free"
  <2>1. c = d /\ \A w \in Waiter : at[w] = "free"
    BY <1>1 DEF Begin
  <2>2. kind'[d] = k
    BY <1>0, <1>1 DEF Begin, TypeOK
  <2>3. QED
    BY <2>1, <2>2
<1>2. ASSUME NEW d \in Client, NEW s \in Service, Initialize(d) \/ Get(d, s) PROVE FALSE
  BY <1>1, <1>2 DEF Initialize, Get
<1>3. ASSUME NEW d \in Client, NEW s \in Reloaded, Reload(d, s)
      PROVE  \E r \in Reloaded : Found(c, r)'
  <2>1. Begin(d, "reload", <<s>> \o Affected[s])
    BY <1>3 DEF Reload
  <2>2. c = d /\ \A w \in Waiter : at[w] = "free"
    BY <1>1, <2>1
  <2>3. asked'[c] = Reach(s) /\ Opening(c, s)'
    BY <1>3, <2>2, ReloadOpens
  <2>4. Reach(s)' = Reach(s)
    BY DEF Reach
  <2>5. QED
    BY <2>3, <2>4
<1>4. ASSUME c \in alone, at[c] = "running", kind[c] = "reload"
      PROVE  \E r \in Reloaded : Found(c, r) /\ (Quiet => Closing(c, r))
  <2>1. c \in Client
    BY <1>0, <1>4 DEF TypeOK
  <2>2. PICK r \in Reloaded : Found(c, r)
    BY <1>4 DEF FreshInv
  <2>3. QED
    BY <2>1, <2>2, OpeningCloses
<1>5. \A r : Reach(r)' = Reach(r)
  BY DEF Reach
<1>6. CASE Call
  <2>1. PICK s, w : s = Head(calls).svc /\ w = Head(calls).by
    OBVIOUS
  <2>2. /\ ~Quiet /\ UNCHANGED clients
        /\ WaitsForEvent(s, w) \/ HasValue(s, w) \/ \E k \in Slot : StartsLoading(s, w, k)
    BY <1>6, <2>1 DEF Call
  <2>3. c \in alone /\ kind[c] = "reload" /\ asked'[c] = asked[c] /\ c \in Client
    BY <1>0, <2>2 DEF clients, TypeOK
  <2>4. at[c] = "running"
    <3>1. ASSUME NEW k \in Slot, StartsLoading(s, w, k) PROVE at[c] = "running"
      <4>1. s \in Service
        BY <1>0, <2>1, <2>2, NextCall
      <4>2. at' = [at EXCEPT ![<<s, k>>] = "deps"] /\ <<s, k>> # c
        BY <1>0, <2>3, <3>1, <4>1 DEF StartsLoading, Load
      <4>3. QED
        BY <1>0, <2>3, <4>2 DEF TypeOK
    <3>2. QED
      BY <2>2, <3>1 DEF WaitsForEvent, HasValue
  <2>5. PICK r \in Reloaded : Found(c, r)
    BY <1>4, <2>3, <2>4
  <2>6. CASE Opening(c, r)
    <3>1. ~HasValue(s, w)
      <4>1. calls \in Seq(Calls) /\ calls # << >>
        BY <1>0, <2>2 DEF TypeOK, Quiet
      <4>2. Head(calls) \in ToSet(calls)
        BY <4>1, SetOfTail
      <4>3. Head(calls).how = "load"
        BY <2>6, <4>2 DEF Opening, LoadCalls
      <4>4. QED
        BY <4>3 DEF HasValue
    <3>2. Opening(c, r)'
      BY <2>1, <2>2, <2>3, <2>6, <3>1, OpeningWaits, OpeningStarts
    <3>3. QED
      BY <1>5, <2>3, <2>5, <3>2
  <2>7. CASE Closing(c, r)
    <3>1. Closing(c, r)'
      BY <1>6, <2>3, <2>7, ClosingCall
    <3>2. QED
      BY <1>5, <2>3, <2>5, <3>1
  <2>8. QED
    BY <2>5, <2>6, <2>7
<1>7. ASSUME NEW id \in Load,
             \/ DepsLoaded(id) \/ BodyStarts(id) \/ Finish(id) \/ Fail(id)
             \/ \E t \in Service : Set(id, t)
      PROVE  \E r \in Reloaded : Found(c, r)'
  <2>1. Quiet /\ UNCHANGED clients
    BY <1>7 DEF DepsLoaded, BodyStarts, Finish, Fail, Set
  <2>2. /\ c \in alone /\ kind[c] = "reload" /\ asked'[c] = asked[c]
        /\ c \in Client /\ c # id /\ c \in Waiter
    BY <1>0, <2>1 DEF clients, TypeOK
  <2>3. at[c] = "running"
    <3>1. CASE Fail(id)
      BY <2>2, <3>1 DEF Fail, Reject
    <3>2. CASE DepsLoaded(id) \/ BodyStarts(id) \/ Finish(id) \/ \E t \in Service : Set(id, t)
      BY <1>0, <2>2, <3>2 DEF DepsLoaded, BodyStarts, Finish, Set, TypeOK
    <3>3. QED
      BY <1>7, <3>1, <3>2
  <2>4. PICK r \in Reloaded : Found(c, r) /\ Closing(c, r)
    BY <1>4, <2>1, <2>2, <2>3
  <2>5. Closing(c, r)'
    BY <1>7, <2>2, <2>4, DepsLoadedCloses, BodyStartsCloses, FinishCloses, FailCloses, SetCloses
  <2>6. QED
    BY <1>5, <2>2, <2>4, <2>5
<1>8. ASSUME c \in alone, at[c] = "running", UNCHANGED <<kind, asked>>,
             UNCHANGED <<state, outdated, held, awaitsLoad, awaitsEvent, seen, calls>>,
             \A l \in Load : at'[l] = at[l]
      PROVE  \E r \in Reloaded : Found(c, r)'
  <2>1. PICK r \in Reloaded : Found(c, r)
    BY <1>4, <1>8
  <2>2. Opening(c, r)' \/ Closing(c, r)'
    BY <1>8, <2>1, SameFresh
  <2>3. QED
    BY <1>5, <1>8, <2>1, <2>2
<1>9. ASSUME NEW d \in Client, Return(d) PROVE \E r \in Reloaded : Found(c, r)'
  <2>1. /\ at' = [at EXCEPT ![d] = "free"] /\ alone' = alone \ {d} /\ UNCHANGED <<kind, asked>>
        /\ UNCHANGED <<state, outdated, held, awaitsLoad, awaitsEvent, seen, calls>>
    BY <1>9 DEF Return
  <2>2. c \in alone /\ c # d /\ d \notin Load /\ c \in Waiter
    BY <1>0, <2>1 DEF TypeOK
  <2>3. at[c] = "running" /\ \A l \in Load : at'[l] = at[l]
    BY <1>0, <2>1, <2>2 DEF TypeOK
  <2>4. QED
    BY <1>8, <2>1, <2>2, <2>3
<1>10. ASSUME NEW u \in Source, Edit(u) PROVE FALSE
  <2>1. at[c] = "running" /\ c \in Waiter
    BY <1>0, <1>10 DEF Edit, clients, TypeOK
  <2>2. QED
    BY <1>10, <2>1 DEF Edit
<1>11. CASE UNCHANGED vars
  BY <1>8, <1>11 DEF vars
<1>12. ASSUME NEW d \in Client, Initialize(d) PROVE FALSE
  BY <1>1, <1>12 DEF Initialize
<1>. HIDE DEF Found
<1>13. QED
  BY <1>2, <1>3, <1>6, <1>7, <1>9, <1>10, <1>11, <1>12 DEF Next

\* Nobody can keep a service from the client that the client does not wait for: among those
\* that are not ready there is one that none of them is made from.
LEMMA FreshHolds ==
    ASSUME IInv, FreshInv PROVE Fresh
<1>. SUFFICES ASSUME NEW c \in alone, at[c] = "running", kind[c] = "reload", Quiet, Settled(c)
              PROVE  \A s \in asked[c] :
                       state[s] = "ready" /\ (~RootPublishes(c) => outdated[s] = {})
  BY DEF Fresh
<1>1. PICK r \in Reloaded : asked[c] = Reach(r) /\ (Opening(c, r) \/ Closing(c, r))
  BY DEF FreshInv
<1>2. c \in Client /\ r \in Service
  BY GraphAssumption DEF IInv, TypeOK
<1>3. Covered(c, r)
  BY <1>1, <1>2, OpeningCloses DEF Closing
<1>4. \A s \in Reach(r) : Fine(s, r) /\ ~Runs(s)
  <2>. DEFINE T == {s \in Reach(r) : ~(Fine(s, r) /\ ~Runs(s))}
  <2>. SUFFICES ASSUME T # {} PROVE FALSE
    OBVIOUS
  <2>1. T \in SUBSET Service
    BY <1>2, ReachFacts
  <2>2. PICK t \in T : \A s \in T : t \notin ToSet(Deps[s])
    BY <2>1, AcyclicAssumption
  <2>3. ~Holds(c, t, r)
    BY DEF Holds, Settled
  <2>4. PICK y \in Service : t \in ToSet(Deps[y]) /\ (Runs(y) \/ state[y] = "error")
    BY <1>3, <2>2, <2>3 DEF Covered
  <2>5. y \in Reach(r)
    BY <1>2, <2>2, <2>4, ReachFacts
  <2>6. QED
    BY <2>2, <2>4, <2>5 DEF Fine
<1>5. ~RootPublishes(c) => r \notin Sets[r]
  BY <1>1, <1>2 DEF RootPublishes, Reach
<1>6. QED
  BY <1>1, <1>4, <1>5 DEF Fine

(* When a reload that nothing disturbed returns, the service and its dependents are       *)
(* ready and, unless the service publishes early, made from what the sources say now       *)
(* (reload(), findAllDependents()), also when factories publish a state in the middle of    *)
(* their work, if what is reloaded lies as the services that index.ts reloads do.           *)
THEOREM ReloadedFresh == ReloadsInOrder /\ Spec => []Fresh
<1>1. Init => FreshInv
  BY DEF Init, FreshInv
<1>2. ReloadsInOrder /\ IInv /\ FreshInv /\ [Next]_vars => FreshInv'
  BY FreshStep
<1>3. IInv /\ FreshInv => Fresh
  BY FreshHolds
<1>4. CASE ReloadsInOrder
  BY <1>1, <1>2, <1>3, <1>4, Invariant, PTL DEF Spec
<1>5. CASE ~ReloadsInOrder
  BY <1>5
<1>6. QED
  BY <1>4, <1>5
=============================================================================
