---------------------------- MODULE ServiceGraph ----------------------------
(***************************************************************************)
(* The services of the command line agent and what they are made from, as  *)
(* initializeServices (extensions/cli/src/services/index.ts) registers     *)
(* them, and what the guarantees of a call of the container ask of them.    *)
(***************************************************************************)
EXTENDS Integers, Sequences, FiniteSets, SequencesExt

CONSTANTS
  Service,     \* the names of the services
  Deps,        \* Deps[s]: the dependencies s was registered with, in order
  Upstream,    \* Upstream[s]: s and all it depends on, directly or not
  Affected,    \* Affected[s]: all that depend on s, as findAllDependents lists them
  Registered,  \* the services in the order of their registration
  Sets,        \* Sets[s]: the services the factory of s may set() while it runs
  Reloaded,    \* the services somebody reloads
  Source       \* the services made from something that changes outside

ASSUME GraphAssumption ==
  /\ Deps \in [Service -> Seq(Service)]
  /\ Upstream \in [Service -> SUBSET Service]
  /\ Affected \in [Service -> Seq(Service)]
  /\ Registered \in Seq(Service)
  /\ Sets \in [Service -> SUBSET Service]
  /\ Reloaded \subseteq Service
  /\ Source \subseteq Service

(* The two lists of the graph agree. *)
ASSUME AffectedAssumption ==
  \A s \in Service : ToSet(Affected[s]) = {t \in Service \ {s} : s \in Upstream[t]}

(* Upstream[s] is the least set with s that holds the dependencies of all its  *)
(* members.                                                                   *)
ASSUME UpstreamAssumption ==
  \A s \in Service :
    /\ s \in Upstream[s]
    /\ \A t \in Upstream[s] : ToSet(Deps[t]) \subseteq Upstream[s]
    /\ \A T \in SUBSET Service :
         s \in T /\ (\A t \in T : ToSet(Deps[t]) \subseteq T) => Upstream[s] \subseteq T

(* There is no cycle: among any services there is one that none is made from. *)
ASSUME AcyclicAssumption ==
  \A T \in SUBSET Service : T # {} => \E t \in T : \A s \in T : t \notin ToSet(Deps[s])

-----------------------------------------------------------------------------
(* What OneLoadEach asks. *)

\* What s is made from, and the services a factory may set while they are loaded: its
\* own, or one that it is not made from.
Below(s) == Upstream[s] \ {s}
Published == {t \in Service : \E s \in Service : t \in Sets[s] \ Below(s)}

\* The services a factory may load once more: what it was made from, or is itself made
\* from, had published a state and failed after that.
Again == {d \in Service : \E q \in Published :
            d \in Upstream[q] /\ \E r \in Service : q \in ToSet(Deps[r])}

\* The services whose factory sets a service it is made from, as that of config sets auth.
Setter == {s \in Service : Sets[s] \cap Below(s) # {}}

\* What may be loaded once more is not made from another service that publishes early;
\* and a factory that sets what it is made from is registered with all of it, none of
\* which publishes early or is loaded once more but for that factory or for what it is
\* made from.
PublishersApart ==
  /\ \A d \in Again : Upstream[d] \cap Published \subseteq {d}
  /\ \A x \in Setter :
       /\ Below(x) \subseteq ToSet(Deps[x])
       /\ Below(x) \cap Published = {}
       /\ \A e \in Again \ Upstream[x] : ToSet(Deps[e]) \cap Below(x) = {}

-----------------------------------------------------------------------------
(* What Fresh asks. *)

\* What a reload of r is to load, and all that is loaded for it.
Reach(r) == {r} \cup ToSet(Affected[r])
Made(r) == UNION {Upstream[s] : s \in Reach(r)}

\* d shows no state but those its loads return, or it is the service reloaded, whose
\* load the client itself waits for.
Discreet(d, r) == d \in Sets[d] => d = r

\* Who publishes early has one reader, which a reload lists before it: so the reader is
\* the first to load it, and waits for its load and not for the state it publishes.
ReaderFirst(p, r) ==
  /\ \A y, z \in Made(r) : p \in ToSet(Deps[y]) /\ p \in ToSet(Deps[z]) => y = z
  /\ \A y \in Service : p \in ToSet(Deps[y]) =>
       \A i \in DOMAIN Affected[r] :
         Affected[r][i] = p => \E j \in 1 .. i - 1 : Affected[r][j] = y

\* So it is for each service that is reloaded; and a factory sets its own service, or one
\* it is registered with, or one that this reload does not load.
ReloadsInOrder ==
  \A r \in Reloaded :
    /\ \A p \in Made(r) : Discreet(p, r) \/ ReaderFirst(p, r)
    /\ \A s \in Made(r) : Sets[s] \cap Made(r) \subseteq {s} \cup ToSet(Deps[s])
=============================================================================
