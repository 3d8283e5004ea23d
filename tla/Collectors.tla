----------------------------- MODULE Collectors -----------------------------
(***************************************************************************)
(* prometheus/metrics.go, collectorsFor: the calls of HTTPMetrics that     *)
(* share the package-level collectorCache and the registries behind it.    *)
(*                                                                         *)
(* Each call builds a collector set of its own, named after the call, and  *)
(* at most one per registerer is kept.  sync.Map and prometheus.Registry   *)
(* are external: LoadOrStore is atomic, Register takes one collector at a  *)
(* time and refuses a metric name that is taken, on which MustRegister     *)
(* panics.                                                                 *)
(***************************************************************************)
EXTENDS Naturals, FiniteSets

CONSTANTS Calls,        \* calls of HTTPMetrics, each with its collector set
          Registerers

\* Nobody's set, and the collectors somebody else registered under our names.
CONSTANTS None, Foreign

ASSUME CollectorsAssumption ==
    None # Foreign /\ {None, Foreign} \cap Calls = {}

Metrics == {"requests", "duration"}

VARIABLES pc,           \* where the call is
          target,       \* target[c]: the registerer of the call
          got,          \* got[c]: the set its middleware records into
          cache,        \* collectorCache: registerer -> set
          exposed       \* exposed[r][m]: whose collector r gathers as m

vars == <<pc, target, got, cache, exposed>>

-----------------------------------------------------------------------------
(***************************************************************************)
(* Plausible bugs: Store in place of LoadOrStore, a collector forgotten    *)
(***************************************************************************)

PlainStore(r) == FALSE

OnlyRequests(m) == "returned"

-----------------------------------------------------------------------------

\* LoadOrStore finds a set that another call has stored since Load.
Loaded(r) == cache[r] # None

\* MustRegister takes its arguments in order.
After(m) == IF m = "requests" THEN "duration" ELSE "returned"

\* The name may be taken before scaffold's first call.
Init ==
    /\ pc = [c \in Calls |-> "idle"]
    /\ target \in [Calls -> Registerers]
    /\ got = [c \in Calls |-> None]
    /\ cache = [r \in Registerers |-> None]
    /\ exposed \in [Registerers -> [Metrics -> {None, Foreign}]]

\* Load finds a set: it is returned as it is.
LoadHit(c) ==
    /\ pc[c] = "idle"
    /\ cache[target[c]] # None
    /\ got' = [got EXCEPT ![c] = cache[target[c]]]
    /\ pc' = [pc EXCEPT ![c] = "returned"]
    /\ UNCHANGED <<target, cache, exposed>>

\* Load finds nothing: the call builds a set.
LoadMiss(c) ==
    /\ pc[c] = "idle"
    /\ cache[target[c]] = None
    /\ pc' = [pc EXCEPT ![c] = "store"]
    /\ UNCHANGED <<target, got, cache, exposed>>

\* LoadOrStore lost the race: the set just built is dropped.
StoreLost(c) ==
    /\ pc[c] = "store"
    /\ Loaded(target[c])
    /\ got' = [got EXCEPT ![c] = cache[target[c]]]
    /\ pc' = [pc EXCEPT ![c] = "returned"]
    /\ UNCHANGED <<target, cache, exposed>>

\* LoadOrStore won: everybody can see the set, though nothing gathers it yet.
StoreWon(c) ==
    /\ pc[c] = "store"
    /\ ~Loaded(target[c])
    /\ cache' = [cache EXCEPT ![target[c]] = c]
    /\ got' = [got EXCEPT ![c] = c]
    /\ pc' = [pc EXCEPT ![c] = "requests"]
    /\ UNCHANGED <<target, exposed>>

\* MustRegister, one collector.  A panic leaves the set in the cache and what
\* was registered before it in the registry.
Register(c, m) ==
    /\ pc[c] = m
    /\ IF exposed[target[c]][m] = None
       THEN /\ exposed' = [exposed EXCEPT ![target[c]][m] = c]
            /\ pc' = [pc EXCEPT ![c] = After(m)]
       ELSE /\ pc' = [pc EXCEPT ![c] = "panicked"]
            /\ UNCHANGED exposed
    /\ UNCHANGED <<target, got, cache>>

Call(c) ==
    \/ LoadHit(c)
    \/ LoadMiss(c)
    \/ StoreLost(c)
    \/ StoreWon(c)
    \/ \E m \in Metrics : Register(c, m)

Next == \E c \in Calls : Call(c)

\* A call that has begun goes on; nobody is obliged to call HTTPMetrics.
Fairness == \A c \in Calls : WF_vars(pc[c] # "idle" /\ Call(c))

Spec == Init /\ [][Next]_vars /\ Fairness

-----------------------------------------------------------------------------
(***************************************************************************)
(* Properties                                                              *)
(***************************************************************************)

\* Every variable keeps its type (metrics.go, collectorCache).
TypeOK ==
    /\ pc \in [Calls -> Metrics \cup {"idle", "store", "returned", "panicked"}]
    /\ target \in [Calls -> Registerers]
    /\ got \in [Calls -> Calls \cup {None}]
    /\ cache \in [Registerers -> Calls \cup {None}]
    /\ exposed \in [Registerers -> [Metrics -> Calls \cup {None, Foreign}]]

\* However the calls interleave, the middleware of every call on one registerer
\* records into one set: counts are never split between two ("returns middleware
\* bound to the originally registered collectors").
OneSetPerRegisterer ==
    \A c, d \in Calls :
        target[c] = target[d] /\ got[c] # None /\ got[d] # None => got[c] = got[d]

\* Repeated calls "do not panic from duplicate registration": a call of
\* HTTPMetrics panics only over a name that somebody else had taken.
OwnNamesNeverClash ==
    \A c \in Calls : pc[c] = "panicked" => \E m \in Metrics : exposed[target[c]][m] = Foreign

\* Where no name was taken, the set a call has returned is gathered in the end,
\* both collectors of it, even if the call was back before it was registered.
EventuallyGathered ==
    \A c \in Calls :
        pc[c] = "returned" /\ (\A m \in Metrics : exposed[target[c]][m] # Foreign)
            ~> \A m \in Metrics : exposed[target[c]][m] = got[c]

-----------------------------------------------------------------------------
(***************************************************************************)
(* What a comment says, and the code does otherwise                        *)
(***************************************************************************)

\* prometheus/metrics.go:41: a repeated call "is safe and returns middleware
\* bound to the originally registered collectors", so that what it records can
\* be gathered once no call is at work.
BoundToRegistered ==
    (\A c \in Calls : pc[c] \in {"returned", "panicked"}) =>
        \A c \in Calls : pc[c] = "returned" =>
            \A m \in Metrics : exposed[target[c]][m] = got[c]

=============================================================================
