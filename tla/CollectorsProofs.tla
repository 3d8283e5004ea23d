-------------------------- MODULE CollectorsProofs --------------------------
(***************************************************************************)
(* Proofs about prometheus/metrics.go, collectorsFor, for any number of    *)
(* calls and registerers.  OneSetPerRegisterer relates only the calls that *)
(* have their set; what keeps it is that every one of them has the cached  *)
(* set, and that only the call whose set is cached ever registers.         *)
(***************************************************************************)
EXTENDS Collectors, TLAPS

\* Whoever has a set has the one in the cache, and whoever registers put it
\* there.
CacheInv ==
    /\ \A c \in Calls : got[c] # None => cache[target[c]] = got[c]
    /\ \A c \in Calls : pc[c] \in Metrics => cache[target[c]] = c

\* Scaffold's collectors in a registry are the cached ones, and the call that is
\* registering has not registered the ones it is still to register.
ExposedInv ==
    /\ \A r \in Registerers, m \in Metrics :
            exposed[r][m] \in Calls => cache[r] = exposed[r][m]
    /\ \A c \in Calls :
            pc[c] = "requests" => exposed[target[c]]["requests"] \notin Calls
    /\ \A c \in Calls :
            pc[c] \in Metrics => exposed[target[c]]["duration"] \notin Calls

IInv == TypeOK /\ CacheInv /\ ExposedInv /\ OwnNamesNeverClash

\* An empty cache satisfies the invariant.
LEMMA CollectorsInit == Init => IInv
  BY CollectorsAssumption DEF Init, IInv, TypeOK, CacheInv, ExposedInv,
     OwnNamesNeverClash, Metrics

\* Every step of a call preserves it, with one step of the proof per action.
LEMMA CollectorsStep == IInv /\ [Next]_vars => IInv'
<1> SUFFICES ASSUME IInv, [Next]_vars PROVE IInv'
  OBVIOUS
<1> USE CollectorsAssumption DEF Metrics
<1>1. CASE UNCHANGED vars
  BY <1>1 DEF IInv, TypeOK, CacheInv, ExposedInv, OwnNamesNeverClash, vars
<1>2. ASSUME NEW c \in Calls, LoadHit(c) PROVE IInv'
  <2>1. TypeOK'
    BY <1>2 DEF IInv, TypeOK, LoadHit
  <2>2. CacheInv'
    BY <1>2 DEF IInv, TypeOK, CacheInv, LoadHit
  <2>3. ExposedInv' /\ OwnNamesNeverClash'
    BY <1>2 DEF IInv, TypeOK, ExposedInv, OwnNamesNeverClash, LoadHit
  <2> QED BY <2>1, <2>2, <2>3 DEF IInv
<1>3. ASSUME NEW c \in Calls, LoadMiss(c) PROVE IInv'
  BY <1>3 DEF IInv, TypeOK, CacheInv, ExposedInv, OwnNamesNeverClash, LoadMiss
<1>4. ASSUME NEW c \in Calls, StoreLost(c) PROVE IInv'
  <2>1. TypeOK'
    BY <1>4 DEF IInv, TypeOK, StoreLost, Loaded
  <2>2. CacheInv'
    BY <1>4 DEF IInv, TypeOK, CacheInv, StoreLost, Loaded
  <2>3. ExposedInv' /\ OwnNamesNeverClash'
    BY <1>4 DEF IInv, TypeOK, ExposedInv, OwnNamesNeverClash, StoreLost
  <2> QED BY <2>1, <2>2, <2>3 DEF IInv
<1>5. ASSUME NEW c \in Calls, StoreWon(c) PROVE IInv'
  <2>1. TypeOK'
    BY <1>5 DEF IInv, TypeOK, StoreWon
  <2>2. /\ cache[target[c]] = None
        /\ \A r \in Registerers : r # target[c] => cache'[r] = cache[r]
        /\ cache'[target[c]] = c
    BY <1>5 DEF IInv, TypeOK, StoreWon, Loaded
  <2>3. CacheInv'
    BY <1>5, <2>2 DEF IInv, TypeOK, CacheInv, StoreWon
  <2>4. \A m \in Metrics : exposed[target[c]][m] \notin Calls
    BY <2>2 DEF IInv, TypeOK, ExposedInv
  <2>5. ExposedInv'
    BY <1>5, <2>2, <2>4 DEF IInv, TypeOK, ExposedInv, StoreWon
  <2>6. OwnNamesNeverClash'
    BY <1>5 DEF IInv, TypeOK, OwnNamesNeverClash, StoreWon
  <2> QED BY <2>1, <2>3, <2>5, <2>6 DEF IInv
<1>6. ASSUME NEW c \in Calls, NEW m \in Metrics, Register(c, m) PROVE IInv'
  <2> DEFINE r == target[c]
  <2>1. r \in Registerers /\ cache[r] = c /\ pc[c] = m
    BY <1>6 DEF IInv, TypeOK, CacheInv, Register
  <2>2. exposed[r][m] \notin Calls
    BY <2>1 DEF IInv, ExposedInv
  <2>3. \A e \in Calls : pc[e] \in Metrics /\ target[e] = r => e = c
    BY <2>1 DEF IInv, CacheInv
  <2>4. CASE exposed[r][m] = None
    <3>1. /\ exposed' = [exposed EXCEPT ![r][m] = c]
          /\ pc' = [pc EXCEPT ![c] = After(m)]
          /\ UNCHANGED <<target, got, cache>>
      BY <1>6, <2>4 DEF Register
    <3>2. TypeOK'
      BY <3>1, <2>1 DEF IInv, TypeOK, After
    <3>3. CacheInv'
      BY <3>1, <2>1 DEF IInv, TypeOK, CacheInv, After
    <3>4. ExposedInv'
      BY <3>1, <2>1, <2>3 DEF IInv, TypeOK, ExposedInv, After
    <3>5. OwnNamesNeverClash'
      BY <3>1, <2>1, <2>4 DEF IInv, TypeOK, OwnNamesNeverClash, After
    <3> QED BY <3>2, <3>3, <3>4, <3>5 DEF IInv
  <2>5. CASE exposed[r][m] # None
    <3>1. /\ pc' = [pc EXCEPT ![c] = "panicked"]
          /\ UNCHANGED <<target, got, cache, exposed>>
      BY <1>6, <2>5 DEF Register
    <3>2. exposed[r][m] = Foreign
      BY <2>1, <2>2, <2>5 DEF IInv, TypeOK
    <3>3. TypeOK'
      BY <3>1 DEF IInv, TypeOK
    <3>4. CacheInv' /\ ExposedInv'
      BY <3>1 DEF IInv, TypeOK, CacheInv, ExposedInv
    <3>5. OwnNamesNeverClash'
      BY <3>1, <3>2 DEF IInv, TypeOK, OwnNamesNeverClash
    <3> QED BY <3>3, <3>4, <3>5 DEF IInv
  <2> QED BY <2>4, <2>5
<1> QED BY <1>1, <1>2, <1>3, <1>4, <1>5, <1>6 DEF Next, Call

\* The inductive invariant, from which the theorems below follow.
LEMMA CollectorsInvariant == Spec => []IInv
  BY CollectorsInit, CollectorsStep, PTL DEF Spec

\* collectorsFor keeps its variables in their types.
THEOREM CollectorsTypeOK == Spec => []TypeOK
<1>1. IInv => TypeOK
  BY DEF IInv
<1> QED BY <1>1, CollectorsInvariant, PTL

\* All the middleware of one registerer records into one set, however many calls
\* of HTTPMetrics race for it.
THEOREM CollectorsOneSet == Spec => []OneSetPerRegisterer
<1>1. IInv => OneSetPerRegisterer
  BY DEF IInv, CacheInv, OneSetPerRegisterer
<1> QED BY <1>1, CollectorsInvariant, PTL

\* HTTPMetrics never panics over a name that scaffold itself registered.
THEOREM CollectorsNoClash == Spec => []OwnNamesNeverClash
<1>1. IInv => OwnNamesNeverClash
  BY DEF IInv
<1> QED BY <1>1, CollectorsInvariant, PTL

-----------------------------------------------------------------------------
(***************************************************************************)
(* How far the unregistered set of BoundToRegistered goes                  *)
(***************************************************************************)

\* The call whose set is cached has stored it for its own registerer, and what it
\* has to register next is all that is missing.
OwnerInv ==
    /\ \A c \in Calls : pc[c] = "duration" => exposed[target[c]]["requests"] = c
    /\ \A r \in Registerers : cache[r] # None =>
        /\ target[cache[r]] = r
        /\ pc[cache[r]] \in Metrics \cup {"returned", "panicked"}
        /\ pc[cache[r]] = "returned" => \A m \in Metrics : exposed[r][m] = cache[r]
    /\ \A c \in Calls : pc[c] \in Metrics \cup {"returned"} => got[c] # None

LEMMA OwnerStep == ASSUME IInv, OwnerInv, NEW c \in Calls, Call(c) PROVE OwnerInv'
<1> USE CollectorsAssumption DEF Metrics
<1>1. CASE LoadHit(c)
  BY <1>1 DEF LoadHit, IInv, TypeOK, OwnerInv
<1>2. CASE LoadMiss(c)
  BY <1>2 DEF LoadMiss, IInv, TypeOK, OwnerInv
<1>3. CASE StoreLost(c)
  BY <1>3 DEF StoreLost, Loaded, IInv, TypeOK, OwnerInv
<1>4. CASE StoreWon(c)
  BY <1>4 DEF StoreWon, Loaded, IInv, TypeOK, OwnerInv
<1>5. ASSUME NEW m \in Metrics, Register(c, m) PROVE OwnerInv'
  <2> DEFINE r == target[c]
  <2>1. /\ r \in Registerers /\ cache[r] = c /\ pc[c] = m /\ UNCHANGED <<target, got, cache>>
        /\ m = "duration" => exposed[r]["requests"] = c
    BY <1>5 DEF Register, IInv, TypeOK, CacheInv, OwnerInv
  <2>2. \A s \in Registerers : cache[s] = c => s = r
    BY <2>1 DEF OwnerInv
  <2>3. CASE exposed[r][m] = None
    <3>1. exposed' = [exposed EXCEPT ![r][m] = c] /\ pc' = [pc EXCEPT ![c] = After(m)]
      BY <1>5, <2>3 DEF Register
    <3>2. exposed'[r][m] = c /\ (m = "duration" => exposed'[r]["requests"] = c)
      BY <2>1, <3>1 DEF IInv, TypeOK
    <3>3. \A s \in Registerers, n \in Metrics : s # r => exposed'[s][n] = exposed[s][n]
      BY <3>1 DEF IInv, TypeOK
    <3>4. \A e \in Calls : pc'[e] = "duration" => exposed'[target[e]]["requests"] = e
      <4>1. ASSUME NEW e \in Calls, pc'[e] = "duration", e # c
            PROVE  exposed'[target[e]]["requests"] = e
        <5>1. pc[e] = "duration" /\ cache[target[e]] = e /\ target[e] \in Registerers
          BY <3>1, <4>1 DEF IInv, TypeOK, CacheInv
        <5>. QED
          BY <2>1, <3>3, <4>1, <5>1 DEF OwnerInv
      <4>. QED
        BY <2>1, <3>1, <3>2, <4>1 DEF IInv, TypeOK, After
    <3>5. ASSUME NEW s \in Registerers, cache[s] # None
          PROVE  /\ target[cache[s]] = s
                 /\ pc'[cache[s]] \in Metrics \cup {"returned", "panicked"}
                 /\ pc'[cache[s]] = "returned" => \A n \in Metrics : exposed'[s][n] = cache[s]
      <4>1. CASE s = r
        BY <2>1, <3>1, <3>2, <4>1 DEF IInv, TypeOK, After
      <4>2. CASE s # r
        <5>1. cache[s] # c /\ cache[s] \in Calls
          BY <2>2, <3>5, <4>2 DEF IInv, TypeOK
        <5>. QED
          BY <3>1, <3>3, <3>5, <4>2, <5>1 DEF IInv, TypeOK, OwnerInv
      <4>. QED
        BY <4>1, <4>2
    <3>6. \A e \in Calls : pc'[e] \in Metrics \cup {"returned"} => got[e] # None
      BY <2>1, <3>1 DEF IInv, TypeOK, OwnerInv, After
    <3> QED BY <2>1, <3>4, <3>5, <3>6 DEF OwnerInv
  <2>4. CASE exposed[r][m] # None
    <3>1. pc' = [pc EXCEPT ![c] = "panicked"] /\ UNCHANGED exposed
      BY <1>5, <2>4 DEF Register
    <3> QED BY <2>1, <3>1 DEF IInv, TypeOK, OwnerInv
  <2> QED BY <2>3, <2>4
<1> QED BY <1>1, <1>2, <1>3, <1>4, <1>5 DEF Call

\* A call that is back records into collectors that are gathered, both of them, as
\* soon as the call that built them is back, unless somebody else had a name.
BoundUnlessTaken ==
    \A c \in Calls :
        /\ pc[c] = "returned" /\ pc[got[c]] \notin Metrics
        /\ \A m \in Metrics : exposed[target[c]][m] # Foreign
        => \A m \in Metrics : exposed[target[c]][m] = got[c]

\* prometheus/metrics.go, collectorsFor: what BoundToRegistered says is wrong only
\* where a name was taken, and otherwise true at once and not only in the end.
THEOREM CollectorsBoundUnlessTaken == Spec => []BoundUnlessTaken
<1>1. Init => OwnerInv
  BY CollectorsAssumption DEF Init, OwnerInv, Metrics
<1>2. IInv /\ OwnerInv /\ [Next]_vars => OwnerInv'
  <2>1. ASSUME IInv, OwnerInv, Next PROVE OwnerInv'
    BY <2>1, OwnerStep DEF Next
  <2>2. ASSUME OwnerInv, UNCHANGED vars PROVE OwnerInv'
    BY <2>2 DEF OwnerInv, vars
  <2> QED BY <2>1, <2>2
<1>3. ASSUME IInv, OwnerInv PROVE BoundUnlessTaken
  <2> SUFFICES ASSUME NEW c \in Calls, pc[c] = "returned", pc[got[c]] \notin Metrics,
                      \A m \in Metrics : exposed[target[c]][m] # Foreign
               PROVE  \A m \in Metrics : exposed[target[c]][m] = got[c]
    BY DEF BoundUnlessTaken
  <2>1. /\ target[c] \in Registerers /\ got[c] # None /\ got[c] \in Calls
        /\ cache[target[c]] = got[c]
    BY <1>3 DEF IInv, TypeOK, CacheInv, OwnerInv
  <2>2. target[got[c]] = target[c] /\ pc[got[c]] \in {"returned", "panicked"}
    BY <1>3, <2>1 DEF OwnerInv
  <2>3. pc[got[c]] # "panicked"
    BY <1>3, <2>1, <2>2 DEF IInv, OwnNamesNeverClash
  <2> QED BY <1>3, <2>1, <2>2, <2>3 DEF OwnerInv
<1> QED BY <1>1, <1>2, <1>3, CollectorsInvariant, PTL DEF Spec
=============================================================================
