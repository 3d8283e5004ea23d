-------------------------- MODULE SetupServesProofs --------------------------
(***************************************************************************)
(* Any number of runs that share Options: which server belongs to whom,    *)
(* what a run that is up serves, and where the advertised address leads.   *)
(***************************************************************************)
EXTENDS SetupProofs, WellFoundedInduction

\* A binding on a port of its own, and one whose server was replaced by that of
\* another run with the same Bindings.
Fixed(b) == b.listen.port # 0
Replaced(r, b) == case.given # "none" /\ ~Fixed(b) /\ b.srv \in Runs \ {r}

OpenStates == {"opening", "up", "closing"}

NamesDiffer(s) == \A k, l \in DOMAIN store[s] : k # l => store[s][k].name # store[s][l].name

\* The part of the variables' types that IInv does not need.
Listeners == Runs \X (Nat \ {0}) \X (Runs \cup {"new", "fn"})

ShapeInv ==
    /\ case \in Cases
    /\ addr \in [Runs -> IPs \cup {Nowhere}]
    /\ adv \in [Runs -> IPs \cup {Nowhere}]
    /\ field \in [Stores -> IPs \cup {""}]
    /\ up \subseteq Listeners
    /\ \A s \in Stores : NamesDiffer(s)

\* A run advertises what it resolved before it served anything.
AdvInv ==
    \A r \in Runs : Active(r) \/ (\E x \in up : x[1] = r) =>
        /\ adv[r] = ResolveAdvertisedAddress(ResolveBindAddress(r))
        /\ adv[r] # Nowhere

CallersHasNoHost(b) ==
    b.by = "caller" => case.given # "none" /\ (case.given = "default" => b.listen.host = "")

\* What the caller adds has no host: no run has given the store its address yet.
CallerInv ==
    /\ \A r \in Runs : pc[r] = "idle" \/ Active(r) => r \in case.runs
    /\ (\A r \in case.runs : pc[r] = "idle") => field["given"] = ""
    /\ \A s \in Stores : \A k \in DOMAIN store[s] : CallersHasNoHost(store[s][k])

\* Nobody else can open the k-th binding of r while r has it open.
Alone(r, k) == case.given = "none" \/ Fixed(Binding(r, k))

\* The loop of openBindings has come to k, and the one of the shutdown has passed it.
Begun(r, k) ==
    /\ pc[r] \in OpenStates \cup {"over"}
    /\ k <= snap[r]
    /\ pc[r] \in {"opening", "up"} => k <= opened[r]

Past(r, k) == pc[r] \in {"closing", "over"} /\ opened[r] < k

\* A goroutine that has yet to run and will return at once.
Ends(x) == x[3] = "new" /\ (Binding(x[1], x[2]).fn \/ <<x[1], x[2]>> \in shut)

\* A ServeFunc, or the server its own run put into the binding, serves the listener or
\* will; once the shutdown is past it only a ServeFunc, left to the cleanup functions.
Serves(x) ==
    LET b == Binding(x[1], x[2])
    IN  /\ x[3] = "fn" => b.fn
        /\ x[3] = "new" => b.fn \/ b.srv = x[1]
        /\ x[3] \notin {"new", "fn"} => x[3] = x[1] /\ b.srv = x[1]
        /\ pc[x[1]] = "closing" /\ opened[x[1]] < x[2] => x[3] = "fn" \/ Ends(x)
        /\ pc[x[1]] = "over" => Ends(x)

\* A listener of its run, unless the probe failed and the loops have forgotten it, or
\* another run has replaced its server.
Owned(x) ==
    /\ Begun(x[1], x[2])
    /\ x[3] = "new" => Binding(x[1], x[2]).fn \/ Binding(x[1], x[2]).srv \in Runs
    /\ <<x[1], x[2]>> \in failed \/ Replaced(x[1], Binding(x[1], x[2])) \/ Serves(x)

OwnInv == \A x \in up : Owned(x)

\* What r has opened and not closed has a listener, and on a port only one.
OpenInv ==
    \A r \in Runs : pc[r] \in OpenStates =>
        \A k \in 1..opened[r] : Alone(r, k) => \E x \in up : x[1] = r /\ x[2] = k

OnceInv ==
    \A x, y \in up :
        /\ x[2] = y[2]
        /\ x[1] = y[1] \/ (case.given # "none" /\ Fixed(Binding(x[1], x[2])))
        => x = y

\* A store of its own has no other server, and a binding points to a server of a run
\* that has come to it.
MineInv ==
    case.given = "none" =>
        \A r \in Runs : \A k \in DOMAIN store[r] : store[r][k].srv \in {r, "nil"}

PointInv ==
    \A r \in Runs : \A k \in DOMAIN store[StoreOf(r)] :
        Binding(r, k).srv = r => Begun(r, k)

\* A probe fails at the end of the loop that opens; a server is shut down by the loop of
\* its own run, unless another run has replaced it.
PastInv ==
    /\ \A y \in failed \cup shut : y[1] \in Runs /\ y[2] \in DOMAIN store[StoreOf(y[1])]
    /\ \A y \in failed : Past(y[1], y[2])
    /\ \A y \in shut : Alone(y[1], y[2]) => Past(y[1], y[2])

\* How far the loops of openBindings and the shutdown have come.
LoopInv ==
    \A r \in Runs :
        /\ pc[r] \notin OpenStates => opened[r] = 0
        /\ opened[r] <= snap[r]
        /\ pc[r] = "up" => opened[r] = snap[r]
        /\ pc[r] \in {"opening", "up"} =>
                \A k \in DOMAIN store[StoreOf(r)] : Binding(r, k).by = r => k <= snap[r]

ServerInv ==
    OwnInv /\ OpenInv /\ OnceInv /\ MineInv /\ PointInv /\ PastInv /\ LoopInv

JInv == IInv /\ ShapeInv /\ AdvInv /\ CallerInv /\ ServerInv

\* What happens to the bindings before anything is opened: they are added, and a
\* setter changes neither the address nor the server.
Grows ==
    /\ UNCHANGED case
    /\ \A s \in Stores :
        /\ \A k \in DOMAIN store[s] :
            /\ k \in DOMAIN store'[s]
            /\ store'[s][k].name = store[s][k].name
            /\ store'[s][k].listen = store[s][k].listen
            /\ store'[s][k].by = store[s][k].by
            /\ store'[s][k].srv = store[s][k].srv
            /\ store[s][k].fn => store'[s][k].fn
        /\ \A k \in DOMAIN store'[s] \ DOMAIN store[s] :
            /\ store'[s][k].srv = "nil"
            /\ \A r \in Runs : pc[r] \in {"opening", "up"} => store'[s][k].by # r

Prepares ==
    /\ Grows
    /\ UNCHANGED <<snap, opened, serving>>
    /\ \A r \in Runs : \/ pc'[r] = pc[r]
                       \/ /\ pc[r] \in {"idle", "onstart"}
                          /\ pc'[r] \in {"onstart", "refused", "panicked", "over"}

\* What a step that leaves the bindings alone does to what is said of them.
SameServer(q, j) ==
    /\ StoreOf(q)' = StoreOf(q)
    /\ Binding(q, j)'.by = Binding(q, j).by
    /\ Binding(q, j)'.srv = Binding(q, j).srv
    /\ Fixed(Binding(q, j))' = Fixed(Binding(q, j))
    /\ Replaced(q, Binding(q, j))' = Replaced(q, Binding(q, j))
    /\ Alone(q, j)' = Alone(q, j)
    /\ Binding(q, j).fn => Binding(q, j)'.fn

-----------------------------------------------------------------------------
LEMMA UpIsBinding ==
    ASSUME IInv, NEW x \in up
    PROVE  /\ x[1] \in Runs /\ StoreOf(x[1]) \in Stores
           /\ x[2] \in DOMAIN store[StoreOf(x[1])]
  BY StoreTyped DEF IInv, UpInv

LEMMA UpIsListener ==
    ASSUME ShapeInv, NEW x \in up
    PROVE  /\ x = <<x[1], x[2], x[3]>> /\ x[1] \in Runs /\ x[2] \in Nat \ {0}
           /\ x[3] \in Runs \cup {"new", "fn"}
<1>1. x \in Listeners
  BY DEF ShapeInv
<1> QED BY <1>1 DEF Listeners

LEMMA OpenedIsBinding ==
    ASSUME IInv, NEW r \in Runs, NEW k \in 1..snap[r]
    PROVE  k \in DOMAIN store[StoreOf(r)] /\ k \in Nat \ {0}
<1>1. store[StoreOf(r)] \in Seq(Record) /\ snap[r] \in Nat /\ snap[r] <= Len(store[StoreOf(r)])
  BY StoreTyped DEF IInv, Types, UpInv
<1>2. Len(store[StoreOf(r)]) \in Nat
  BY <1>1
<1>3. k \in 1..Len(store[StoreOf(r)])
  BY <1>1, <1>2
<1> QED BY <1>1, <1>3

LEMMA BindingIsRecord ==
    ASSUME IInv, NEW r \in Runs, NEW k \in DOMAIN store[StoreOf(r)]
    PROVE  k \in Nat \ {0} /\ StoreOf(r) \in Stores /\ Binding(r, k) \in Record
<1>1. store[StoreOf(r)] \in Seq(Record) /\ StoreOf(r) \in Stores
  BY StoreTyped DEF IInv
<1> QED BY <1>1 DEF Binding

LEMMA SameBindings ==
    ASSUME UNCHANGED <<case, store>>, NEW q, NEW j
    PROVE  SameServer(q, j) /\ Binding(q, j)' = Binding(q, j)
  BY DEF SameServer, Binding, StoreOf, Fixed, Replaced, Alone

LEMMA GrowsBinding ==
    ASSUME IInv, Grows, NEW r \in Runs, NEW k \in DOMAIN store[StoreOf(r)]
    PROVE  SameServer(r, k) /\ k \in DOMAIN store'[StoreOf(r)']
<1>1. StoreOf(r)' = StoreOf(r) /\ StoreOf(r) \in Stores
  BY StoreTyped, SameNames DEF Grows, IInv
<1> QED BY <1>1 DEF Grows, SameServer, Binding, Fixed, Replaced, Alone

\* A listener of a run that a step leaves alone.
LEMMA OwnedFrame ==
    ASSUME NEW x, Owned(x), SameServer(x[1], x[2]), shut \subseteq shut', failed \subseteq failed',
           pc'[x[1]] = pc[x[1]], snap'[x[1]] = snap[x[1]], opened'[x[1]] = opened[x[1]]
    PROVE  Owned(x)'
<1>1. Begun(x[1], x[2])'
  BY DEF Owned, Begun
<1>2. Ends(x) => Ends(x)'
  BY DEF Ends, SameServer
<1>3. Serves(x) => Serves(x)'
  BY <1>2 DEF Serves, SameServer
<1> QED BY <1>1, <1>3 DEF Owned, SameServer

\* A listener on a binding that nobody else can open is served by whom it should be.
LEMMA OwnedAlone ==
    ASSUME PastInv, NEW x, Owned(x), Alone(x[1], x[2]), ~Past(x[1], x[2])
    PROVE  Serves(x)
  BY DEF PastInv, Owned, Alone, Replaced

-----------------------------------------------------------------------------
LEMMA PreparesOwn == ASSUME JInv, Prepares PROVE OwnInv'
<1> SUFFICES ASSUME NEW x \in up PROVE Owned(x)'
  BY DEF OwnInv, Prepares, serving
<1>1. Owned(x) /\ x[1] \in Runs /\ x[2] \in DOMAIN store[StoreOf(x[1])]
  BY UpIsBinding DEF JInv, ServerInv, OwnInv
<1>2. SameServer(x[1], x[2])
  BY <1>1, GrowsBinding DEF JInv, Prepares
<1>3. /\ pc'[x[1]] = pc[x[1]] /\ snap'[x[1]] = snap[x[1]] /\ opened'[x[1]] = opened[x[1]]
      /\ shut' = shut /\ failed' = failed
  BY <1>1 DEF Prepares, Owned, Begun, OpenStates, serving
<1> QED BY <1>1, <1>2, <1>3, OwnedFrame

LEMMA PreparesServes == ASSUME JInv, Prepares PROVE OpenInv' /\ OnceInv' /\ MineInv'
<1> USE DEF JInv, ServerInv
<1>0. case' = case /\ up' = up
  BY DEF Prepares, Grows, serving
<1>1. ASSUME NEW r \in Runs, pc'[r] \in OpenStates, NEW k \in 1..opened'[r], Alone(r, k)'
      PROVE  \E x \in up : x[1] = r /\ x[2] = k
  <2>1. pc[r] = pc'[r] /\ opened'[r] = opened[r] /\ opened[r] \in Nat /\ snap[r] \in Nat
    BY <1>1 DEF Prepares, OpenStates, Types, IInv
  <2>2. k \in 1..snap[r]
    BY <2>1 DEF LoopInv
  <2>3. k \in DOMAIN store[StoreOf(r)]
    BY <2>2, OpenedIsBinding
  <2>4. Alone(r, k)
    BY <1>1, <2>3, GrowsBinding DEF Prepares, SameServer
  <2> QED BY <1>1, <2>1, <2>4 DEF OpenInv
<1>2. ASSUME NEW x \in up, NEW y \in up, x[2] = y[2],
             x[1] = y[1] \/ (case.given # "none" /\ Fixed(Binding(x[1], x[2]))')
      PROVE  x = y
  <2>1. x[1] = y[1] \/ (case.given # "none" /\ Fixed(Binding(x[1], x[2])))
    BY <1>2, UpIsBinding, GrowsBinding DEF Prepares, SameServer
  <2> QED BY <1>2, <2>1 DEF OnceInv
<1>3. ASSUME case.given = "none", NEW r \in Runs, NEW k \in DOMAIN store'[r]
      PROVE  store'[r][k].srv \in {r, "nil"}
  <2>1. r \in Stores
    BY DEF Stores
  <2> QED BY <1>3, <2>1 DEF MineInv, Prepares, Grows
<1>4. OpenInv'
  BY <1>0, <1>1 DEF OpenInv
<1>5. OnceInv'
  BY <1>0, <1>2 DEF OnceInv
<1>6. MineInv'
  BY <1>0, <1>3 DEF MineInv
<1> QED BY <1>4, <1>5, <1>6

LEMMA PreparesPoint == ASSUME JInv, Prepares PROVE PointInv' /\ PastInv'
<1> USE DEF JInv, ServerInv
<1>0. /\ UNCHANGED <<case, snap, opened, shut, failed>>
      /\ \A r \in Runs : pc[r] \in OpenStates \cup {"over"} => pc'[r] = pc[r]
  BY DEF Prepares, Grows, serving, OpenStates
<1>1. ASSUME NEW r \in Runs, NEW k \in DOMAIN store'[StoreOf(r)'], Binding(r, k)'.srv = r
      PROVE  Begun(r, k)'
  <2>1. StoreOf(r)' = StoreOf(r) /\ StoreOf(r) \in Stores
    BY StoreTyped, SameNames DEF Prepares, Grows, IInv
  <2>2. k \in DOMAIN store[StoreOf(r)]
    BY <1>1, <2>1, RunsAssumption DEF Prepares, Grows, Binding
  <2>3. Begun(r, k)
    BY <1>1, <2>2, GrowsBinding DEF PointInv, Prepares, SameServer
  <2> QED BY <1>0, <2>3 DEF Begun
<1>2. ASSUME NEW y \in failed \cup shut
      PROVE  /\ y[1] \in Runs /\ y[2] \in DOMAIN store[StoreOf(y[1])]
             /\ y[2] \in DOMAIN store'[StoreOf(y[1])']
             /\ SameServer(y[1], y[2])
             /\ Past(y[1], y[2]) => Past(y[1], y[2])'
  <2>1. y[1] \in Runs /\ y[2] \in DOMAIN store[StoreOf(y[1])]
    BY DEF PastInv
  <2>2. Past(y[1], y[2]) => Past(y[1], y[2])'
    BY <1>0, <2>1 DEF Past, OpenStates
  <2> QED BY <2>1, <2>2, GrowsBinding DEF Prepares
<1>3. PointInv'
  BY <1>1 DEF PointInv
<1>4. PastInv'
  BY <1>0, <1>2 DEF PastInv, SameServer
<1> QED BY <1>3, <1>4

LEMMA PreparesLoop == ASSUME JInv, Prepares PROVE LoopInv'
<1> USE DEF JInv, ServerInv
<1> SUFFICES ASSUME NEW r \in Runs
             PROVE  /\ pc'[r] \notin OpenStates => opened'[r] = 0
                    /\ opened'[r] <= snap'[r]
                    /\ pc'[r] = "up" => opened'[r] = snap'[r]
                    /\ pc'[r] \in {"opening", "up"} =>
                        \A k \in DOMAIN store'[StoreOf(r)'] :
                            Binding(r, k)'.by = r => k <= snap'[r]
  BY DEF LoopInv
<1>1. /\ pc'[r] \notin OpenStates => opened'[r] = 0
      /\ opened'[r] <= snap'[r]
      /\ pc'[r] = "up" => opened'[r] = snap'[r]
  BY DEF LoopInv, OpenStates, Prepares
<1>2. ASSUME pc'[r] \in {"opening", "up"}, NEW k \in DOMAIN store'[StoreOf(r)'],
             Binding(r, k)'.by = r
      PROVE  k <= snap'[r]
  <2>1. pc[r] = pc'[r] /\ snap'[r] = snap[r]
    BY <1>2 DEF Prepares
  <2>2. StoreOf(r)' = StoreOf(r) /\ StoreOf(r) \in Stores
    BY SameNames, StoreTyped DEF Prepares, Grows, IInv
  <2>3. k \in DOMAIN store[StoreOf(r)]
    BY <1>2, <2>1, <2>2 DEF Prepares, Grows, Binding
  <2>4. Binding(r, k).by = r
    BY <1>2, <2>3, GrowsBinding DEF Prepares, SameServer
  <2> QED BY <1>2, <2>1, <2>3, <2>4 DEF LoopInv
<1> QED BY <1>1, <1>2

LEMMA InsertKeeps ==
    ASSUME Types, NEW s \in Stores, NEW b \in Record,
           store' = [store EXCEPT ![s] = Append(@, b)]
    PROVE  \A t \in Stores :
            /\ \A k \in DOMAIN store[t] : k \in DOMAIN store'[t] /\ store'[t][k] = store[t][k]
            /\ \A k \in DOMAIN store'[t] \ DOMAIN store[t] :
                t = s /\ k = Len(store[s]) + 1 /\ store'[t][k] = b
  BY DEF Types

LEMMA InsertGrows ==
    ASSUME IInv, UNCHANGED case, NEW s \in Stores, NEW b \in Record,
           store' = [store EXCEPT ![s] = Append(@, b)],
           b.srv = "nil", \A r \in Runs : pc[r] \in {"opening", "up"} => b.by # r
    PROVE  Grows
  BY InsertKeeps DEF IInv, Grows

LEMMA NewRecord ==
    ASSUME Types, NEW s \in Stores, NEW kind, NEW n \in Names,
           NEW who \in Runs \cup {"caller", "late"}
    PROVE  NewBinding(s, kind, n, who) \in Record
<1>1. ListenAddr(s, kind, n) \in [host : Hosts, port : AllPorts]
  BY DEF Types, ListenAddr, Hosts, AllPorts
<1> QED BY <1>1 DEF NewBinding, Record

LEMMA AddEarlyPrepares == ASSUME IInv, NEW n \in Names, AddEarly(n) PROVE Prepares
<1>1. NewBinding("given", case.given, n, "caller") \in Record
  BY NewRecord DEF IInv, Stores
<1>2. Grows
  BY <1>1, InsertGrows, RunsAssumption DEF AddEarly, Insert, NewBinding, Stores
<1> QED BY <1>2 DEF AddEarly, Prepares

LEMMA AddPrepares == ASSUME IInv, NEW r \in Runs, NEW n \in Names, Add(r, n) PROVE Prepares
<1>1. /\ pc[r] \in {"onstart", "up"} /\ UNCHANGED <<case, snap, opened, serving>>
      /\ pc' = pc \/ (pc[r] = "onstart" /\ pc' = [pc EXCEPT ![r] = "panicked"])
  BY DEF Add, Goto
<1>2. Grows
  <2>1. CASE UNCHANGED store
    BY <1>1, <2>1 DEF Grows
  <2>2. CASE Insert(StoreOf(r), Kind(r), n, IF pc[r] = "onstart" THEN r ELSE "late")
    <3> DEFINE who == IF pc[r] = "onstart" THEN r ELSE "late"
               b == NewBinding(StoreOf(r), Kind(r), n, who)
    <3>1. StoreOf(r) \in Stores /\ who \in Runs \cup {"caller", "late"}
      BY StoreTyped DEF IInv
    <3>2. \A q \in Runs : pc[q] \in {"opening", "up"} => who # q
      BY RunsAssumption
    <3>3. store' = [store EXCEPT ![StoreOf(r)] = Append(@, b)]
      BY <2>2 DEF Insert
    <3> HIDE DEF who
    <3>4. b \in Record
      BY <3>1, NewRecord DEF IInv
    <3>5. b.srv = "nil" /\ b.by = who
      BY DEF NewBinding
    <3> HIDE DEF b
    <3> QED BY <1>1, <3>1, <3>2, <3>3, <3>4, <3>5, InsertGrows
  <2> QED BY <2>1, <2>2 DEF Add
<1> QED BY <1>1, <1>2 DEF Prepares, IInv, Types

LEMMA SetterPrepares ==
    ASSUME IInv, NEW r \in Runs, NEW k \in DOMAIN store[StoreOf(r)],
           \/ \E part \in Parts : Configure(r, k, part)
           \/ ServeFunc(r, k)
    PROVE  Prepares
<1> DEFINE old == Binding(r, k)
<1>1. old \in Record
  BY StoreTyped DEF IInv, Binding
<1>2. ASSUME NEW refused, NEW b \in Record, Setter(r, k, refused, b),
             b.name = old.name, b.listen = old.listen, b.by = old.by, b.srv = old.srv,
             old.fn => b.fn
      PROVE  Prepares
  <2>1. /\ pc[r] = "onstart" /\ UNCHANGED <<case, snap, opened, serving>>
        /\ pc' = pc \/ pc' = [pc EXCEPT ![r] = "panicked"]
    BY <1>2 DEF Setter, Goto
  <2>2. CASE UNCHANGED store
    BY <2>1, <2>2 DEF Prepares, Grows, IInv, Types
  <2>3. CASE SetBinding(r, k, b)
    <3>1. Grows
      BY <1>2, <2>1, <2>3, SetResult DEF Grows, Binding, IInv
    <3> QED BY <2>1, <3>1 DEF Prepares, IInv, Types
  <2> QED BY <1>2, <2>2, <2>3 DEF Setter
<1>3. ASSUME NEW part \in Parts, Configure(r, k, part) PROVE Prepares
  <2> DEFINE b == [old EXCEPT !.parts = @ \cup {part}]
  <2>1. /\ b \in Record /\ b.name = old.name /\ b.listen = old.listen /\ b.by = old.by
        /\ b.srv = old.srv /\ b.fn = old.fn
    BY <1>1 DEF Record
  <2> QED BY <1>2, <1>3, <2>1 DEF Configure
<1>4. ASSUME ServeFunc(r, k) PROVE Prepares
  <2> DEFINE b == [old EXCEPT !.fn = TRUE]
  <2>1. /\ b \in Record /\ b.name = old.name /\ b.listen = old.listen /\ b.by = old.by
        /\ b.srv = old.srv /\ b.fn
    BY <1>1 DEF Record
  <2> QED BY <1>2, <1>4, <2>1 DEF ServeFunc
<1> QED BY <1>3, <1>4

LEMMA OtherPrepares ==
    ASSUME IInv,
           UNCHANGED vars \/ \E r \in Runs : Begin(r) \/ OnStartFails(r)
    PROVE  Prepares
<1>1. UNCHANGED <<case, store, snap, opened, serving>>
  BY DEF vars, Begin, OnStartFails, Goto
<1>2. Grows
  BY <1>1 DEF Grows
<1> QED BY <1>1, <1>2 DEF Prepares, vars, Begin, OnStartFails, Goto, IInv, Types

\* Snapshot, ListenFails, Ready and Stop only move one run on.
LEMMA MoveOn ==
    ASSUME JInv, NEW r \in Runs, Snapshot(r) \/ ListenFails(r) \/ Ready(r) \/ Stop(r)
    PROVE  ServerInv'
<1> USE DEF JInv, ServerInv
<1>1. /\ UNCHANGED <<case, store, opened, up, shut, failed>>
      /\ \A q \in Runs \ {r} : pc'[q] = pc[q] /\ snap'[q] = snap[q]
      /\ opened[r] \in Nat /\ snap[r] \in Nat
      /\ store[StoreOf(r)] \in Seq(Record)
  BY StoreTyped DEF Snapshot, ListenFails, Ready, Stop, Goto, IInv, Types, serving
<1>2. \/ /\ pc[r] = "onstart" /\ pc'[r] = "opening" /\ opened[r] = 0
         /\ snap'[r] = Len(store[StoreOf(r)])
      \/ pc[r] = "opening" /\ pc'[r] = "up" /\ opened[r] = snap[r] /\ snap'[r] = snap[r]
      \/ pc[r] \in {"opening", "up"} /\ pc'[r] = "closing" /\ snap'[r] = snap[r]
  BY DEF Snapshot, ListenFails, Ready, Stop, Goto, IInv, Types, LoopInv, Wanted, OpenStates
<1>3. \A q \in Runs, j \in Nat : SameServer(q, j) /\ Binding(q, j)' = Binding(q, j)
  BY <1>1, SameBindings
<1>4. ASSUME NEW q \in Runs, NEW j \in Nat
      PROVE  /\ Begun(q, j) => Begun(q, j)'
             /\ Past(q, j) => Past(q, j)'
  BY <1>1, <1>2 DEF Begun, Past, OpenStates
<1>5. OwnInv'
  <2> SUFFICES ASSUME NEW x \in up PROVE Owned(x)'
    BY <1>1 DEF OwnInv
  <2>1. Owned(x) /\ x[1] \in Runs /\ x[2] \in Nat
    BY UpIsListener DEF OwnInv
  <2>2. CASE x[1] = r
    <3>1. pc[r] # "onstart" /\ (pc[r] \in {"opening", "up"} => x[2] <= opened[r])
      BY <2>1, <2>2 DEF Owned, Begun, OpenStates
    <3>2. Serves(x) => Serves(x)'
      BY <1>1, <1>2, <1>3, <2>1, <2>2, <3>1 DEF Serves, SameServer
    <3> QED BY <1>1, <1>3, <1>4, <2>1, <3>2 DEF Owned, SameServer
  <2>3. CASE x[1] # r
    BY <1>1, <1>3, <2>1, <2>3, OwnedFrame
  <2> QED BY <2>2, <2>3
<1>6. OpenInv'
  <2> SUFFICES ASSUME NEW q \in Runs, pc'[q] \in OpenStates, NEW k \in 1..opened[q],
                      Alone(q, k)'
               PROVE  \E x \in up : x[1] = q /\ x[2] = k
    BY <1>1 DEF OpenInv
  <2>1. opened[q] \in Nat
    BY DEF IInv, Types
  <2>2. Alone(q, k)
    BY <1>3, <2>1 DEF SameServer
  <2>3. CASE pc[q] \in OpenStates
    BY <2>2, <2>3 DEF OpenInv
  <2>4. CASE pc[q] \notin OpenStates
    BY <1>1, <1>2, <2>4 DEF OpenStates
  <2> QED BY <2>3, <2>4
<1>7. OnceInv' /\ MineInv'
  <2>1. \A x \in up : Fixed(Binding(x[1], x[2]))' = Fixed(Binding(x[1], x[2]))
    BY <1>3, UpIsListener DEF SameServer
  <2> QED BY <1>1, <2>1 DEF OnceInv, MineInv
<1>8. PointInv' /\ PastInv'
  <2>1. \A q \in Runs : \A j \in DOMAIN store[StoreOf(q)] : j \in Nat
    BY BindingIsRecord
  <2>2. PointInv'
    BY <1>1, <1>3, <1>4, <2>1 DEF PointInv, SameServer
  <2>3. PastInv'
    BY <1>1, <1>3, <1>4, <2>1 DEF PastInv, SameServer
  <2> QED BY <2>2, <2>3
<1>9. LoopInv'
  <2> SUFFICES ASSUME NEW q \in Runs
               PROVE  /\ pc'[q] \notin OpenStates => opened[q] = 0
                      /\ opened[q] <= snap'[q]
                      /\ pc'[q] = "up" => opened[q] = snap'[q]
                      /\ pc'[q] \in {"opening", "up"} =>
                            \A k \in DOMAIN store[StoreOf(q)] :
                                store[StoreOf(q)][k].by = q => k <= snap'[q]
    BY <1>1 DEF LoopInv, Binding, StoreOf
  <2>1. /\ pc[q] \notin OpenStates => opened[q] = 0
        /\ opened[q] <= snap[q]
        /\ pc[q] = "up" => opened[q] = snap[q]
        /\ pc[q] \in {"opening", "up"} =>
              \A k \in DOMAIN store[StoreOf(q)] :
                  store[StoreOf(q)][k].by = q => k <= snap[q]
    BY DEF LoopInv, Binding
  <2>2. CASE q # r
    BY <1>1, <2>1, <2>2
  <2>3. CASE q = r
    <3>1. Len(store[StoreOf(r)]) \in Nat /\ DOMAIN store[StoreOf(r)] = 1..Len(store[StoreOf(r)])
      BY <1>1
    <3> QED BY <1>1, <1>2, <2>1, <2>3, <3>1 DEF OpenStates
  <2> QED BY <2>2, <2>3
<1> QED BY <1>5, <1>6, <1>7, <1>8, <1>9

\* openBindings opens the next binding; unless it has a ServeFunc the server goes
\* into the binding, in the place of any other.
LEMMA OpenResult ==
    ASSUME IInv, NEW r \in Runs, OpenNext(r)
    PROVE  LET k == opened[r] + 1
           IN  /\ k \in DOMAIN store[StoreOf(r)] /\ k \in Nat \ {0} /\ k <= snap[r]
               /\ UNCHANGED <<case, snap, shut>>
               /\ up' = up \cup {<<r, k, "new">>}
               /\ \/ opened' = [opened EXCEPT ![r] = k] /\ UNCHANGED <<pc, failed>>
                  \/ /\ pc' = [pc EXCEPT ![r] = "closing"]
                     /\ failed' = failed \cup {<<r, k>>} /\ UNCHANGED opened
               /\ \A s \in Stores :
                    /\ DOMAIN store'[s] = DOMAIN store[s]
                    /\ \A j \in DOMAIN store[s] :
                        /\ store'[s][j].name = store[s][j].name
                        /\ store'[s][j].listen = store[s][j].listen
                        /\ store'[s][j].by = store[s][j].by
                        /\ store'[s][j].fn = store[s][j].fn
                        /\ store'[s][j].srv =
                            IF s = StoreOf(r) /\ j = k /\ ~store[s][j].fn
                            THEN r ELSE store[s][j].srv
<1> DEFINE k == opened[r] + 1
           old == Binding(r, k)
<1>1. /\ pc[r] = "opening" /\ opened[r] < snap[r] /\ UNCHANGED <<case, snap, shut>>
      /\ up' = up \cup {<<r, k, "new">>}
      /\ \/ opened' = [opened EXCEPT ![r] = k] /\ UNCHANGED <<pc, failed>>
         \/ /\ pc' = [pc EXCEPT ![r] = "closing"]
            /\ failed' = failed \cup {<<r, k>>} /\ UNCHANGED opened
      /\ IF old.fn THEN UNCHANGED store ELSE SetBinding(r, k, [old EXCEPT !.srv = r])
  BY DEF OpenNext, Wanted, Goto
<1>2. k \in 1..snap[r]
  BY <1>1 DEF IInv, Types
<1>3. k \in DOMAIN store[StoreOf(r)] /\ k \in Nat \ {0} /\ k <= snap[r]
  <2> HIDE DEF k
  <2>1. k \in DOMAIN store[StoreOf(r)] /\ k \in Nat \ {0}
    BY <1>2, OpenedIsBinding
  <2>2. k <= snap[r]
    BY <1>2
  <2> QED BY <2>1, <2>2
<1>4. old \in Record /\ StoreOf(r) \in Stores
  BY <1>3, BindingIsRecord
<1>5. \A s \in Stores :
        /\ DOMAIN store'[s] = DOMAIN store[s]
        /\ \A j \in DOMAIN store[s] :
            /\ store'[s][j].name = store[s][j].name
            /\ store'[s][j].listen = store[s][j].listen
            /\ store'[s][j].by = store[s][j].by
            /\ store'[s][j].fn = store[s][j].fn
            /\ store'[s][j].srv = IF s = StoreOf(r) /\ j = k /\ ~store[s][j].fn
                                  THEN r ELSE store[s][j].srv
  <2>1. CASE old.fn
    BY <1>1, <2>1 DEF Binding
  <2>2. CASE ~old.fn
    <3> DEFINE b == [old EXCEPT !.srv = r]
    <3>1. /\ b \in Record /\ b.name = old.name /\ b.listen = old.listen /\ b.by = old.by
          /\ b.fn = old.fn /\ b.srv = r
      BY <1>4 DEF Record
    <3>2. SetBinding(r, k, b)
      BY <1>1, <2>2
    <3>3. old = store[StoreOf(r)][k]
      BY DEF Binding
    <3> HIDE DEF b, k, old
    <3>4. \A s \in Stores :
            /\ DOMAIN store'[s] = DOMAIN store[s]
            /\ \A j \in DOMAIN store[s] :
                store'[s][j] = IF s = StoreOf(r) /\ j = k THEN b ELSE store[s][j]
      BY <1>3, <3>1, <3>2, SetResult DEF IInv
    <3> QED BY <2>2, <3>1, <3>3, <3>4
  <2> QED BY <2>1, <2>2
<1> QED BY <1>1, <1>3, <1>5

LEMMA OpenMore == ASSUME JInv, NEW r \in Runs, OpenNext(r) PROVE ServerInv'
<1> USE DEF JInv, ServerInv
<1>k. PICK k : k = opened[r] + 1
  OBVIOUS
<1>n. PICK new : new = <<r, k, "new">>
  OBVIOUS
<1>1. /\ k \in DOMAIN store[StoreOf(r)] /\ k \in Nat \ {0} /\ k <= snap[r]
      /\ UNCHANGED <<case, snap, shut>> /\ failed \subseteq failed'
      /\ up' = up \cup {new}
      /\ new[1] = r /\ new[2] = k /\ new[3] = "new"
      /\ pc[r] = "opening" /\ ~Busy(Binding(r, k).listen)
  BY <1>k, <1>n, OpenResult DEF OpenNext
<1>2. \A s \in Stores :
        /\ DOMAIN store'[s] = DOMAIN store[s]
        /\ \A j \in DOMAIN store[s] :
            /\ store'[s][j].listen = store[s][j].listen
            /\ store'[s][j].by = store[s][j].by
            /\ store'[s][j].fn = store[s][j].fn
            /\ store'[s][j].srv = IF s = StoreOf(r) /\ j = k /\ ~store[s][j].fn
                                  THEN r ELSE store[s][j].srv
  BY <1>k, OpenResult
<1>3. /\ \A q \in Runs : /\ StoreOf(q)' = StoreOf(q) /\ StoreOf(q) \in Stores
                         /\ opened[q] \in Nat /\ snap[q] \in Nat
      /\ \A q \in Runs \ {r} : pc'[q] = pc[q] /\ opened'[q] = opened[q]
      /\ \/ pc'[r] = "opening" /\ opened'[r] = k /\ failed' = failed
         \/ /\ pc'[r] = "closing" /\ opened'[r] = opened[r]
            /\ failed' = failed \cup {<<r, k>>}
  <2>1. \/ opened' = [opened EXCEPT ![r] = k] /\ UNCHANGED <<pc, failed>>
        \/ /\ pc' = [pc EXCEPT ![r] = "closing"]
           /\ failed' = failed \cup {<<r, k>>} /\ UNCHANGED opened
    BY <1>k, OpenResult
  <2> QED BY <1>1, <2>1, SameNames, StoreTyped DEF IInv, Types
<1>4. \A q \in Runs : \A j \in DOMAIN store[StoreOf(q)] :
        /\ Fixed(Binding(q, j))' = Fixed(Binding(q, j))
        /\ Alone(q, j)' = Alone(q, j)
        /\ Binding(q, j)'.fn = Binding(q, j).fn
        /\ Binding(q, j)'.by = Binding(q, j).by
        /\ Binding(q, j)'.srv = IF StoreOf(q) = StoreOf(r) /\ j = k /\ ~Binding(q, j).fn
                                THEN r ELSE Binding(q, j).srv
  BY <1>1, <1>2, <1>3 DEF Fixed, Alone, Binding
\* On a port of its own the binding has no listener yet, and r has none on it.
<1>5. ASSUME NEW x \in up, x[2] = k, StoreOf(x[1]) = StoreOf(r)
      PROVE  ~Fixed(Binding(r, k))
  <2>1. Binding(x[1], x[2]) = Binding(r, k)
    BY <1>5 DEF Binding
  <2> QED BY <1>1, <1>5, <2>1 DEF Busy, Fixed
<1>6. ASSUME NEW x \in up, x[1] = r PROVE x[2] # k /\ x[2] <= opened[r]
  <2>1. x[2] <= opened[r] /\ x[2] \in Nat
    BY <1>1, <1>6, UpIsListener DEF OwnInv, Owned, Begun
  <2> QED BY <1>k, <1>3, <2>1
<1>7. /\ case.given # "none" => \A q \in Runs : StoreOf(q) = StoreOf(r)
      /\ case.given = "none" => \A q \in Runs : StoreOf(q) = q
  BY DEF StoreOf
<1>8. OwnInv'
  <2>1. Owned(new)'
    <3>1. Binding(r, k)'.fn \/ Binding(r, k)'.srv = r
      BY <1>1, <1>4
    <3>2. Begun(r, k)'
      BY <1>1, <1>3 DEF Begun, OpenStates
    <3>3. <<r, k>> \in failed' \/ pc'[r] = "opening"
      BY <1>3
    <3>4. pc'[r] = "opening" => Serves(new)'
      BY <1>1, <3>1 DEF Serves
    <3> QED BY <1>1, <3>1, <3>2, <3>3, <3>4 DEF Owned
  <2>2. ASSUME NEW x \in up PROVE Owned(x)'
    <3>1. /\ Owned(x) /\ x[1] \in Runs /\ x[2] \in DOMAIN store[StoreOf(x[1])]
          /\ x[2] \in Nat
      BY UpIsBinding, UpIsListener DEF OwnInv
    <3>2. CASE x[1] = r
      <4>1. SameServer(r, x[2])
        BY <1>1, <1>3, <1>4, <1>6, <3>1, <3>2 DEF SameServer, Replaced
      <4>2. Begun(r, x[2])'
        BY <1>k, <1>1, <1>3, <1>6, <3>1, <3>2 DEF Owned, Begun, OpenStates
      <4>3. Serves(x) => Serves(x)'
        BY <1>1, <1>3, <1>6, <3>1, <3>2, <4>1 DEF Serves, SameServer
      <4> QED BY <1>1, <3>1, <3>2, <4>1, <4>2, <4>3 DEF Owned, SameServer
    <3>3. CASE x[1] # r /\ Binding(x[1], x[2])'.srv = Binding(x[1], x[2]).srv
      <4>1. SameServer(x[1], x[2])
        BY <1>1, <1>3, <1>4, <3>1, <3>3 DEF SameServer, Replaced
      <4> QED BY <1>1, <1>3, <3>1, <3>3, <4>1, OwnedFrame
    <3>4. CASE x[1] # r /\ Binding(x[1], x[2])'.srv # Binding(x[1], x[2]).srv
      <4>1. StoreOf(x[1]) = StoreOf(r) /\ x[2] = k /\ Binding(x[1], x[2])'.srv = r
        BY <1>4, <3>1, <3>4
      <4>2. case.given # "none"
        BY <1>7, <3>1, <3>4, <4>1
      <4>3. ~Fixed(Binding(x[1], x[2]))
        BY <1>5, <4>1 DEF Binding
      <4>4. Replaced(x[1], Binding(x[1], x[2]))'
        BY <1>1, <1>4, <3>1, <3>4, <4>1, <4>2, <4>3 DEF Replaced
      <4>5. Begun(x[1], x[2])'
        BY <1>1, <1>3, <3>1, <3>4 DEF Owned, Begun
      <4> QED BY <4>1, <4>4, <4>5 DEF Owned
    <3> QED BY <3>2, <3>3, <3>4
  <2> QED BY <1>1, <2>1, <2>2 DEF OwnInv
<1>9. OpenInv'
  <2> SUFFICES ASSUME NEW q \in Runs, pc'[q] \in OpenStates, NEW j \in 1..opened'[q],
                      Alone(q, j)'
               PROVE  \E x \in up' : x[1] = q /\ x[2] = j
    BY DEF OpenInv
  <2>1. CASE q = r /\ j = k
    BY <1>1, <2>1
  <2>2. CASE ~(q = r /\ j = k)
    <3>1. j \in 1..opened[q]
      BY <1>k, <1>3, <2>2
    <3>2. j \in DOMAIN store[StoreOf(q)]
      <4>1. opened[q] <= snap[q] /\ snap[q] \in Nat /\ opened[q] \in Nat
        BY <1>3 DEF LoopInv
      <4>2. j \in 1..snap[q]
        BY <3>1, <4>1
      <4> QED BY <4>2, OpenedIsBinding
    <3>3. Alone(q, j) /\ pc[q] \in OpenStates
      BY <1>1, <1>3, <1>4, <3>2 DEF OpenStates
    <3> QED BY <1>1, <3>1, <3>3 DEF OpenInv
  <2> QED BY <2>1, <2>2
<1>10. OnceInv'
  <2> SUFFICES ASSUME NEW x \in up', NEW y \in up', x[2] = y[2],
                      \/ x[1] = y[1]
                      \/ case.given # "none" /\ Fixed(Binding(x[1], x[2]))'
               PROVE  x = y
    BY <1>1 DEF OnceInv
  <2>1. \A z \in up' : z[1] \in Runs /\ z[2] \in DOMAIN store[StoreOf(z[1])]
    BY <1>1, UpIsBinding
  <2>2. \/ x[1] = y[1]
        \/ case.given # "none" /\ Fixed(Binding(x[1], x[2]))
    BY <1>4, <2>1
  <2>3. CASE x \in up /\ y \in up
    BY <2>2, <2>3 DEF OnceInv
  <2>4. ASSUME NEW z \in up, z[2] = k, z[1] = r \/ (case.given # "none" /\ Fixed(Binding(r, k)))
        PROVE  FALSE
    BY <1>5, <1>6, <1>7, <2>4, UpIsBinding
  <2>5. x[2] = k /\ case.given # "none" => Binding(x[1], x[2]) = Binding(r, k)
    BY <1>7, <2>1 DEF Binding
  <2> QED BY <1>1, <2>2, <2>3, <2>4, <2>5
<1>11. MineInv'
  <2>1. ASSUME case.given = "none", NEW q \in Runs, NEW j \in DOMAIN store[q]
        PROVE  store'[q][j].srv \in {q, "nil"}
    <3>1. StoreOf(q) = q /\ StoreOf(r) = r /\ q \in Stores
      BY <1>7, <2>1 DEF Stores
    <3> QED BY <1>2, <2>1, <3>1 DEF MineInv
  <2>2. \A q \in Runs : DOMAIN store'[q] = DOMAIN store[q]
    BY <1>2 DEF Stores
  <2> QED BY <1>1, <2>1, <2>2 DEF MineInv
<1>12. PointInv'
  <2> SUFFICES ASSUME NEW q \in Runs, NEW j \in DOMAIN store[StoreOf(q)],
                      Binding(q, j)'.srv = q
               PROVE  Begun(q, j)'
    BY <1>2, <1>3 DEF PointInv
  <2>1. CASE q = r /\ j = k
    BY <1>1, <1>3, <2>1 DEF Begun, OpenStates
  <2>2. CASE ~(q = r /\ j = k)
    <3>1. Binding(q, j).srv = q
      BY <1>4, <2>2
    <3>2. Begun(q, j) /\ j \in Nat
      BY <3>1, BindingIsRecord DEF PointInv
    <3> QED BY <1>k, <1>1, <1>3, <3>2 DEF Begun, OpenStates
  <2> QED BY <2>1, <2>2
<1>13. PastInv'
  <2>1. ASSUME NEW y \in failed \cup shut
        PROVE  /\ y[1] \in Runs /\ y[2] \in DOMAIN store[StoreOf(y[1])]
               /\ y[2] \in DOMAIN store'[StoreOf(y[1])']
               /\ Alone(y[1], y[2])' = Alone(y[1], y[2])
               /\ Past(y[1], y[2]) => Past(y[1], y[2])'
    <3>1. y[1] \in Runs /\ y[2] \in DOMAIN store[StoreOf(y[1])]
      BY DEF PastInv
    <3>2. Past(y[1], y[2]) => y[1] # r
      BY <1>1 DEF Past
    <3> QED BY <1>2, <1>3, <1>4, <3>1, <3>2 DEF Past
  <2>2. ASSUME <<r, k>> \in failed', failed' # failed
        PROVE  /\ failed' = failed \cup {<<r, k>>} /\ Past(r, k)'
               /\ k \in DOMAIN store'[StoreOf(r)']
    BY <1>k, <1>1, <1>2, <1>3, <2>2 DEF Past
  <2>3. <<r, k>>[1] = r /\ <<r, k>>[2] = k
    OBVIOUS
  <2>4. failed' = failed \/ (failed' # failed /\ <<r, k>> \in failed')
    BY <1>3
  <2>5. CASE failed' = failed
    BY <1>1, <2>1, <2>5 DEF PastInv
  <2>6. CASE failed' # failed
    BY <1>1, <2>1, <2>2, <2>3, <2>4, <2>6 DEF PastInv
  <2> QED BY <2>5, <2>6
<1>14. LoopInv'
  <2> SUFFICES ASSUME NEW q \in Runs
               PROVE  /\ pc'[q] \notin OpenStates => opened'[q] = 0
                      /\ opened'[q] <= snap[q]
                      /\ pc'[q] = "up" => opened'[q] = snap[q]
                      /\ pc'[q] \in {"opening", "up"} =>
                            \A j \in DOMAIN store[StoreOf(q)] :
                                Binding(q, j)'.by = q => j <= snap[q]
    BY <1>1, <1>2, <1>3 DEF LoopInv
  <2> QED BY <1>1, <1>3, <1>4 DEF LoopInv, OpenStates
<1> QED BY <1>8, <1>9, <1>10, <1>11, <1>12, <1>13, <1>14

\* A goroutine gets to run.
LEMMA LoopServes == ASSUME JInv, NEW x \in up, ServeLoop(x) PROVE ServerInv' /\ up' \subseteq Listeners
<1> USE DEF JInv, ServerInv
<1> DEFINE r == x[1]
           k == x[2]
<1>b. PICK b : b = Binding(r, k)
  OBVIOUS
<1>z. PICK z : z = <<r, k, IF b.fn THEN "fn" ELSE b.srv>>
  OBVIOUS
<1> DEFINE returns == IF b.fn THEN pc[r] = "over" ELSE <<b.srv, k>> \in shut
<1>1. /\ x[3] = "new" /\ UNCHANGED <<case, pc, store, snap, opened, shut, failed>>
      /\ up' = (up \ {x}) \cup (IF returns THEN {} ELSE {z})
  BY <1>b, <1>z DEF ServeLoop
<1>2. /\ x = <<r, k, "new">> /\ r \in Runs /\ k \in Nat \ {0} /\ Owned(x)
      /\ k \in DOMAIN store[StoreOf(r)]
      /\ z[1] = r /\ z[2] = k /\ z[3] = (IF b.fn THEN "fn" ELSE b.srv)
  BY <1>1, <1>z, UpIsListener, UpIsBinding DEF OwnInv
<1>3. b.fn \/ b.srv \in Runs
  BY <1>b, <1>1, <1>2 DEF Owned
<1>4. \A q, j : SameServer(q, j) /\ Binding(q, j)' = Binding(q, j)
  BY <1>1, SameBindings
<1>5. opened[r] \in Nat
  BY <1>2 DEF IInv, Types
<1> HIDE DEF returns, r, k
<1>6. Owned(x) /\ ~returns => Owned(z)'
  <2> SUFFICES ASSUME ~returns PROVE Owned(z)'
    BY <1>2
  <2>1. Begun(r, k) /\ (<<r, k>> \in failed \/ Replaced(r, b) \/ Serves(x))
    BY <1>b, <1>2 DEF Owned, r, k
  <2>2. Begun(r, k)'
    BY <1>1, <2>1 DEF Begun
  <2>3. z[3] # "new"
    BY <1>2, <1>3, RunsAssumption
  <2>4. Serves(x) => Serves(z)
    <3> SUFFICES ASSUME Serves(x) PROVE Serves(z)
      OBVIOUS
    <3>1. /\ b.fn \/ b.srv = r
          /\ pc[r] = "closing" /\ opened[r] < k => b.fn \/ <<r, k>> \in shut
          /\ pc[r] = "over" => b.fn \/ <<r, k>> \in shut
      BY <1>b, <1>1, <1>2 DEF Serves, Ends, r, k
    <3>2. CASE b.fn
      <4>1. z[3] = "fn" /\ pc[r] # "over"
        BY <1>2, <3>2 DEF returns
      <4> QED BY <1>b, <1>2, <3>2, <4>1 DEF Serves
    <3>3. CASE ~b.fn
      <4>1. z[3] = r /\ b.srv = r /\ <<r, k>> \notin shut
        BY <1>2, <3>1, <3>3 DEF returns
      <4>2. z[3] \notin {"new", "fn"}
        BY <1>2, <4>1, RunsAssumption
      <4>3. pc[r] # "over" /\ ~(pc[r] = "closing" /\ opened[r] < k)
        BY <3>1, <3>3, <4>1
      <4> QED BY <1>b, <1>2, <4>1, <4>2, <4>3 DEF Serves
    <3> QED BY <3>2, <3>3
  <2>5. Serves(z) => Serves(z)'
    BY <1>1, <1>2, <1>4, <2>3 DEF Serves, Ends
  <2>6. Replaced(r, b) => Replaced(r, Binding(r, k))'
    BY <1>b, <1>4 DEF SameServer
  <2> QED BY <1>b, <1>1, <1>2, <2>1, <2>2, <2>3, <2>4, <2>5, <2>6 DEF Owned
<1>7. OwnInv'
  <2>1. \A y \in up : Owned(y)'
    BY <1>1, <1>4, OwnedFrame DEF OwnInv
  <2> QED BY <1>1, <1>2, <1>6, <2>1 DEF OwnInv
\* What is open and not yet closed goes on to serve.
<1>8. pc[r] \in OpenStates /\ k <= opened[r] /\ Alone(r, k) => ~returns
  <2> SUFFICES ASSUME pc[r] \in OpenStates, k <= opened[r], Alone(r, k) PROVE ~returns
    OBVIOUS
  <2>1. ~Past(r, k)
    BY <1>2, <1>5 DEF Past
  <2>2. Serves(x)
    BY <1>2, <2>1, OwnedAlone DEF r, k
  <2>3. b.fn \/ b.srv = r
    BY <1>b, <1>1, <2>2 DEF Serves, r, k
  <2>4. <<r, k>> \notin shut
    <3>1. <<r, k>>[1] = r /\ <<r, k>>[2] = k
      OBVIOUS
    <3> QED BY <2>1, <3>1 DEF PastInv
  <2> QED BY <2>3, <2>4 DEF returns, OpenStates
<1>9. OpenInv'
  <2> SUFFICES ASSUME NEW q \in Runs, pc[q] \in OpenStates, NEW j \in 1..opened[q], Alone(q, j)
               PROVE  \E y \in up' : y[1] = q /\ y[2] = j
    BY <1>1, <1>4 DEF OpenInv, SameServer
  <2>1. PICK y \in up : y[1] = q /\ y[2] = j
    BY DEF OpenInv
  <2>2. CASE y # x
    BY <1>1, <2>1, <2>2
  <2>3. CASE y = x
    <3>1. q = r /\ j = k /\ opened[q] \in Nat
      BY <1>5, <2>1, <2>3 DEF r, k
    <3>2. z \in up'
      BY <1>1, <1>8, <3>1
    <3> QED BY <1>2, <3>1, <3>2
  <2> QED BY <2>2, <2>3
<1>10. OnceInv'
  <2>1. ASSUME NEW y \in up', NEW u \in up', y[2] = u[2],
               y[1] = u[1] \/ (case.given # "none" /\ Fixed(Binding(y[1], y[2])))
        PROVE  y = u
    <3>1. y = z \/ (y \in up /\ y # x)
      BY <1>1
    <3>2. u = z \/ (u \in up /\ u # x)
      BY <1>1
    <3>3. case.given # "none" /\ y[2] = u[2] => Binding(y[1], y[2]) = Binding(u[1], u[2])
      BY DEF Binding, StoreOf
    <3>4. CASE y # z /\ u # z
      BY <2>1, <3>1, <3>2, <3>4 DEF OnceInv
    <3>5. CASE y = z /\ u # z
      BY <1>2, <2>1, <3>2, <3>5 DEF OnceInv, r, k
    <3>6. CASE y # z /\ u = z
      BY <1>2, <2>1, <3>1, <3>3, <3>6 DEF OnceInv, r, k
    <3> QED BY <3>4, <3>5, <3>6
  <2> QED BY <1>1, <1>4, <2>1 DEF OnceInv, SameServer
<1>11. MineInv' /\ LoopInv'
  BY <1>1 DEF MineInv, LoopInv, Binding, StoreOf
<1>12. PointInv' /\ PastInv'
  BY <1>1 DEF PointInv, PastInv, Begun, Past, Alone, Fixed, Binding, StoreOf
<1>13. z \in Listeners
  BY <1>z, <1>2, <1>3 DEF Listeners
<1>14. up' \subseteq Listeners
  BY <1>1, <1>13 DEF ShapeInv
<1> QED BY <1>7, <1>9, <1>10, <1>11, <1>12, <1>14

\* shutdownBinding of the last binding that is open: on a port, the server that is shut
\* down is the run's own.
LEMMA PointsToOwn ==
    ASSUME JInv, NEW r \in Runs, pc[r] = "closing", opened[r] > 0,
           NEW q \in Runs, Binding(r, opened[r]).srv = q, Alone(r, opened[r]), q # r
    PROVE  /\ case.given # "none" /\ Past(q, opened[r])
<1> USE DEF JInv, ServerInv
<1>k. PICK k : k = opened[r]
  OBVIOUS
<1>1. k \in 1..opened[r] /\ k \in 1..snap[r] /\ k \in Nat /\ opened[q] \in Nat
  BY <1>k DEF IInv, Types, LoopInv
<1>2. k \in DOMAIN store[StoreOf(r)] /\ StoreOf(r) \in Stores
  BY <1>1, OpenedIsBinding, StoreTyped DEF IInv
<1>3. case.given # "none"
  <2> SUFFICES ASSUME case.given = "none" PROVE FALSE
    OBVIOUS
  <2>1. StoreOf(r) = r
    BY DEF StoreOf
  <2> QED BY <1>k, <1>2, <2>1, RunsAssumption DEF MineInv, Binding
<1>4. Binding(q, k) = Binding(r, k) /\ StoreOf(q) = StoreOf(r)
  BY <1>3 DEF Binding, StoreOf
<1>5. Begun(q, k)
  BY <1>k, <1>2, <1>4 DEF PointInv
<1>6. ASSUME pc[q] \in OpenStates, k <= opened[q] PROVE FALSE
  <2>1. PICK x \in up : x[1] = r /\ x[2] = k
    BY <1>k, <1>1 DEF OpenInv, OpenStates
  <2>2. PICK y \in up : y[1] = q /\ y[2] = k
    <3>1. k \in 1..opened[q] /\ Alone(q, k)
      BY <1>k, <1>1, <1>4, <1>6 DEF Alone
    <3> QED BY <1>6, <3>1 DEF OpenInv
  <2> QED BY <1>k, <1>3, <2>1, <2>2 DEF OnceInv, Alone
<1>7. pc[q] \in {"closing", "over"} /\ opened[q] < k
  <2>1. CASE pc[q] \in OpenStates
    BY <1>1, <1>5, <1>6, <2>1 DEF Begun, OpenStates
  <2>2. CASE pc[q] \notin OpenStates
    <3>1. opened[q] = 0 /\ pc[q] = "over"
      BY <1>5, <2>2 DEF LoopInv, Begun
    <3> QED BY <1>1, <3>1
  <2> QED BY <2>1, <2>2
<1> QED BY <1>k, <1>3, <1>7 DEF Past

LEMMA CloseOne == ASSUME JInv, NEW r \in Runs, CloseNext(r) PROVE ServerInv'
<1> USE DEF JInv, ServerInv
<1>k. PICK k : k = opened[r]
  OBVIOUS
<1>w. PICK w : w = Binding(r, k).srv
  OBVIOUS
<1>1. /\ pc[r] = "closing" /\ opened[r] > 0 /\ k \in 1..snap[r] /\ k \in 1..opened[r]
      /\ UNCHANGED <<case, pc, snap, store, failed>>
      /\ shut' = shut \cup {<<v, k>> : v \in {w} \ {"nil"}}
      /\ up' = {x \in up : <<x[3], x[2]>> \notin {<<v, k>> : v \in {w} \ {"nil"}}}
      /\ \A q \in Runs : /\ opened[q] \in Nat
                         /\ opened'[q] = IF q = r THEN k - 1 ELSE opened[q]
  BY <1>k, <1>w DEF CloseNext, ShutBy, IInv, Types, LoopInv
<1>2. \A q, j : SameServer(q, j) /\ Binding(q, j)' = Binding(q, j)
  BY <1>1, SameBindings
<1>3. k \in DOMAIN store[StoreOf(r)] /\ w \in Runs \cup {"nil"}
  <2>1. k \in DOMAIN store[StoreOf(r)]
    BY <1>1, OpenedIsBinding
  <2> QED BY <1>w, <2>1, BindingIsRecord DEF Record
<1>4. /\ \A x \in up : /\ x[1] \in Runs /\ x[2] \in Nat
                       /\ x[3] \in Runs \cup {"new", "fn"}
                       /\ x[2] \in DOMAIN store[StoreOf(x[1])]
      /\ \A x \in up : x \in up' \/ (x[2] = k /\ x[3] = w /\ w \in Runs)
      /\ \A x \in up' : x \in up /\ ~(x[2] = k /\ x[3] = w /\ w \in Runs)
  <2>1. \A x \in up : /\ x[1] \in Runs /\ x[2] \in Nat
                      /\ x[3] \in Runs \cup {"new", "fn"}
                      /\ x[2] \in DOMAIN store[StoreOf(x[1])]
    BY UpIsListener, UpIsBinding
  <2>2. "nil" \notin Runs
    BY RunsAssumption
  <2> QED BY <1>1, <1>3, <2>1, <2>2
<1>5. /\ \A y \in shut' : y \in shut \/ (y = <<w, k>> /\ w \in Runs)
      /\ shut \subseteq shut' /\ (w \in Runs => <<w, k>> \in shut')
  BY <1>1, <1>3, RunsAssumption
<1>6. OwnInv'
  <2> SUFFICES ASSUME NEW x \in up' PROVE Owned(x)'
    BY DEF OwnInv
  <2>1. Owned(x) /\ x \in up
    BY <1>4 DEF OwnInv
  <2>2. CASE x[1] # r
    BY <1>1, <1>2, <1>4, <1>5, <2>1, <2>2, OwnedFrame
  <2>3. CASE x[1] = r
    <3>1. Begun(r, x[2])'
      BY <1>1, <2>1, <2>3 DEF Owned, Begun
    <3>2. Serves(x) => Serves(x)'
      <4> SUFFICES ASSUME Serves(x) PROVE Serves(x)'
        OBVIOUS
      <4>1. Ends(x) => Ends(x)'
        BY <1>2, <1>5 DEF Ends
      <4>2. CASE x[2] = k
        <5>1. x[3] = "fn" \/ x[3] = "new"
          BY <1>w, <1>4, <2>1, <2>3, <4>2, RunsAssumption DEF Serves
        <5>2. x[3] = "new" => Ends(x)'
          BY <1>w, <1>2, <1>4, <1>5, <2>1, <2>3, <4>2 DEF Serves, Ends
        <5> QED BY <1>1, <1>2, <2>3, <5>1, <5>2 DEF Serves
      <4>3. CASE x[2] # k
        <5>1. opened'[r] < x[2] => opened[r] < x[2]
          BY <1>k, <1>1, <1>4, <2>1, <4>3
        <5> QED BY <1>1, <1>2, <2>3, <4>1, <5>1 DEF Serves
      <4> QED BY <4>2, <4>3
    <3> QED BY <1>1, <1>2, <2>1, <2>3, <3>1, <3>2 DEF Owned, SameServer
  <2> QED BY <2>2, <2>3
<1>7. OpenInv'
  <2> SUFFICES ASSUME NEW q \in Runs, pc[q] \in OpenStates, NEW j \in 1..opened'[q], Alone(q, j)
               PROVE  \E x \in up' : x[1] = q /\ x[2] = j
    BY <1>1, <1>2 DEF OpenInv, SameServer
  <2>1. j \in 1..opened[q] /\ (q = r => j # k)
    BY <1>k, <1>1
  <2>2. PICK x \in up : x[1] = q /\ x[2] = j
    BY <2>1 DEF OpenInv
  <2>3. CASE x \in up'
    BY <2>2, <2>3
  <2>4. CASE x \notin up'
    <3>1. j = k /\ x[3] = w /\ w \in Runs /\ q # r
      BY <1>4, <2>1, <2>2, <2>4
    <3>2. ~Past(q, j)
      BY <1>1, <2>1 DEF Past
    <3>3. Serves(x)
      BY <2>2, <3>2, OwnedAlone DEF OwnInv
    <3>4. w \notin {"new", "fn"}
      BY <3>1, RunsAssumption
    <3>5. w = q
      BY <2>2, <3>1, <3>3, <3>4 DEF Serves
    <3>6. Alone(r, k)
      BY <3>1 DEF Alone, Binding, StoreOf
    <3>7. Past(q, k)
      BY <1>k, <1>w, <1>1, <3>1, <3>5, <3>6, PointsToOwn
    <3> QED BY <3>1, <3>2, <3>7
  <2> QED BY <2>3, <2>4
<1>8. OnceInv' /\ MineInv' /\ PointInv'
  <2>1. OnceInv'
    BY <1>1, <1>2, <1>4 DEF OnceInv, SameServer
  <2>2. MineInv'
    BY <1>1 DEF MineInv
  <2>3. \A q \in Runs, j \in Nat : Begun(q, j) => Begun(q, j)'
    BY <1>1 DEF Begun
  <2>4. \A q \in Runs : \A j \in DOMAIN store[StoreOf(q)] : j \in Nat
    BY BindingIsRecord
  <2>5. PointInv'
    BY <1>1, <1>2, <2>3, <2>4 DEF PointInv, SameServer
  <2> QED BY <2>1, <2>2, <2>5
<1>9. PastInv'
  <2>1. \A q \in Runs, j \in Nat : Past(q, j) => Past(q, j)'
    <3> SUFFICES ASSUME NEW q \in Runs, NEW j \in Nat, Past(q, j) PROVE Past(q, j)'
      OBVIOUS
    <3>1. opened'[q] < j
      BY <1>k, <1>1 DEF Past
    <3> QED BY <1>1, <3>1 DEF Past
  <2>2. ASSUME NEW y \in failed \cup shut
        PROVE  /\ y[1] \in Runs /\ y[2] \in DOMAIN store[StoreOf(y[1])]
               /\ Alone(y[1], y[2])' = Alone(y[1], y[2])
               /\ Past(y[1], y[2]) => Past(y[1], y[2])'
    <3>1. y[1] \in Runs /\ y[2] \in DOMAIN store[StoreOf(y[1])]
      BY DEF PastInv
    <3> QED BY <1>2, <2>1, <3>1, BindingIsRecord DEF SameServer
  <2>3. ASSUME w \in Runs
        PROVE  /\ k \in DOMAIN store[StoreOf(w)]
               /\ Alone(w, k)' => Past(w, k)'
    <3>1. CASE w = r
      <4>1. Past(r, k)'
        BY <1>1 DEF Past
      <4> QED BY <1>3, <3>1, <4>1
    <3>2. CASE w # r
      <4>1. case.given # "none"
        <5>1. case.given = "none" => Alone(r, k)
          BY DEF Alone
        <5> QED BY <1>k, <1>w, <1>1, <2>3, <3>2, <5>1, PointsToOwn
      <4>2. Binding(w, k) = Binding(r, k) /\ StoreOf(w) = StoreOf(r)
        BY <4>1 DEF Binding, StoreOf
      <4>3. Alone(w, k)' = Alone(r, k)
        BY <1>2, <4>2 DEF Alone, SameServer
      <4>4. Alone(r, k) => Past(w, k)
        BY <1>k, <1>w, <1>1, <2>3, <3>2, PointsToOwn
      <4> QED BY <1>1, <1>3, <2>1, <2>3, <4>2, <4>3, <4>4
    <3> QED BY <3>1, <3>2
  <2>4. <<w, k>>[1] = w /\ <<w, k>>[2] = k
    OBVIOUS
  <2>5. UNCHANGED <<failed, store, case>> /\ \A q : StoreOf(q)' = StoreOf(q)
    BY <1>1, <1>2 DEF SameServer
  <2>6. \A y \in failed' : /\ y[1] \in Runs /\ y[2] \in DOMAIN store'[StoreOf(y[1])']
                           /\ Past(y[1], y[2])'
    BY <2>2, <2>5 DEF PastInv
  <2>7. \A y \in shut' : /\ y[1] \in Runs /\ y[2] \in DOMAIN store'[StoreOf(y[1])']
                         /\ Alone(y[1], y[2])' => Past(y[1], y[2])'
    BY <1>5, <2>2, <2>3, <2>4, <2>5 DEF PastInv
  <2> QED BY <2>6, <2>7 DEF PastInv
<1>10. LoopInv'
  <2>1. \A q \in Runs : /\ pc[q] \notin OpenStates => opened'[q] = 0
                        /\ opened'[q] <= snap[q]
                        /\ pc[q] = "up" => opened'[q] = snap[q]
    <3> TAKE q \in Runs
    <3>1. snap[q] \in Nat
      BY DEF IInv, Types
    <3> QED BY <1>k, <1>1, <3>1 DEF LoopInv
  <2> QED BY <1>1, <2>1 DEF LoopInv, Binding, StoreOf
<1> QED BY <1>6, <1>7, <1>8, <1>9, <1>10

\* The cleanup functions close what they were given, and the run is over.
LEMMA EndAll == ASSUME JInv, NEW r \in Runs, End(r) PROVE ServerInv'
<1> USE DEF JInv, ServerInv
<1>1. /\ pc[r] = "closing" /\ opened[r] = 0
      /\ UNCHANGED <<case, snap, store, opened, shut, failed>>
      /\ up' = {x \in up : x[1] # r \/ x[3] # "fn"}
      /\ \A q \in Runs : pc'[q] = IF q = r THEN "over" ELSE pc[q]
  BY DEF End, Goto, IInv, Types
<1>2. \A q, j : SameServer(q, j) /\ Binding(q, j)' = Binding(q, j)
  BY <1>1, SameBindings
<1>3. OwnInv'
  <2> SUFFICES ASSUME NEW x \in up' PROVE Owned(x)'
    BY DEF OwnInv
  <2>1. Owned(x) /\ x \in up /\ x[1] \in Runs /\ x[2] \in Nat \ {0}
    BY <1>1, UpIsListener DEF OwnInv
  <2>2. CASE x[1] = r
    <3>1. x[3] # "fn" /\ opened[r] < x[2]
      BY <1>1, <2>1, <2>2
    <3>2. Serves(x) => Serves(x)'
      BY <1>1, <1>2, <2>2, <3>1 DEF Serves, Ends
    <3>3. Begun(r, x[2])'
      BY <1>1, <2>1, <2>2 DEF Owned, Begun
    <3> QED BY <1>1, <1>2, <2>1, <2>2, <3>2, <3>3 DEF Owned, SameServer
  <2>3. CASE x[1] # r
    BY <1>1, <1>2, <2>1, <2>3, OwnedFrame
  <2> QED BY <2>2, <2>3
<1>4. OpenInv'
  <2> SUFFICES ASSUME NEW q \in Runs, pc'[q] \in OpenStates, NEW j \in 1..opened[q], Alone(q, j)
               PROVE  \E x \in up' : x[1] = q /\ x[2] = j
    BY <1>1, <1>2 DEF OpenInv, SameServer
  <2>1. q # r
    BY <1>1 DEF OpenStates
  <2>2. PICK x \in up : x[1] = q /\ x[2] = j
    BY <1>1, <2>1 DEF OpenInv
  <2> QED BY <1>1, <2>1, <2>2
<1>5. OnceInv' /\ MineInv'
  BY <1>1, <1>2 DEF OnceInv, MineInv, SameServer
<1>6. PointInv' /\ PastInv'
  <2>1. \A q \in Runs : \A j : /\ Begun(q, j) => Begun(q, j)'
                               /\ Past(q, j) => Past(q, j)'
    BY <1>1 DEF Begun, Past, OpenStates
  <2>2. PointInv'
    BY <1>1, <1>2, <2>1 DEF PointInv, SameServer
  <2>3. PastInv'
    BY <1>1, <1>2, <2>1 DEF PastInv, SameServer
  <2> QED BY <2>2, <2>3
<1>7. LoopInv'
  BY <1>1 DEF LoopInv, Binding, StoreOf
<1> QED BY <1>3, <1>4, <1>5, <1>6, <1>7

LEMMA ServerStep == JInv /\ [Next]_vars => ServerInv'
<1> SUFFICES ASSUME JInv, [Next]_vars PROVE ServerInv'
  OBVIOUS
<1>1. CASE Prepares
  BY <1>1, PreparesOwn, PreparesServes, PreparesPoint, PreparesLoop DEF ServerInv
<1>2. CASE UNCHANGED vars
  BY <1>1, <1>2, OtherPrepares DEF JInv
<1>3. CASE \E n \in Names : AddEarly(n)
  BY <1>1, <1>3, AddEarlyPrepares DEF JInv
<1>4. ASSUME NEW r \in Runs,
             \/ Begin(r) \/ OnStartFails(r) \/ \E n \in Names : Add(r, n)
             \/ \E k \in DOMAIN store[StoreOf(r)] :
                    (\E part \in Parts : Configure(r, k, part)) \/ ServeFunc(r, k)
      PROVE  Prepares
  BY <1>4, OtherPrepares, AddPrepares, SetterPrepares DEF JInv
<1> QED BY <1>1, <1>2, <1>3, <1>4, MoveOn, OpenMore, LoopServes, CloseOne, EndAll DEF Next

-----------------------------------------------------------------------------
(***************************************************************************)
(* Addresses                                                               *)
(***************************************************************************)

\* Among the interfaces that fit there is a first one.
LEMMA FirstFit ==
    ASSUME NEW S \in SUBSET Nat, S # {}
    PROVE  (CHOOSE i \in S : \A k \in S : i <= k) \in S
<1>1. PICK i \in S : \A k \in S : <<k, i>> \notin OpToRel(<, Nat)
  BY NatLessThanWellFounded, WFMin
<1>2. OpToRel(<, Nat) = {ss \in Nat \X Nat : ss[1] < ss[2]}
  BY Zenon DEF OpToRel
<1>3. ASSUME NEW k \in S, k < i PROVE FALSE
  <2>1. <<k, i>> \in {ss \in Nat \X Nat : ss[1] < ss[2]}
    BY <1>3
  <2> QED BY <1>1, <1>2, <2>1
<1>4. \A k \in S : i <= k
  BY <1>3
<1> QED BY <1>4

LEMMA ResolvedAddress ==
    ASSUME NEW r \in Runs
    PROVE  ResolveBindAddress(r) \in IPs \cup {Nowhere}
  BY AddressAssumption DEF ResolveBindAddress

\* An address found on an interface is private and of the family asked for.
LEMMA Detected ==
    ASSUME case \in Cases, NEW f, AutoDetectAddress(f) # Nowhere
    PROVE  AutoDetectAddress(f) \in Private /\ Family(AutoDetectAddress(f)) = f
<1> DEFINE m == case.machine
           fits == {i \in DOMAIN m : m[i].usable /\ OfFamily(m[i].ip, f) /\ m[i].ip \in Private}
<1>1. fits # {} /\ AutoDetectAddress(f) = m[CHOOSE i \in fits : \A k \in fits : i <= k].ip
  BY DEF AutoDetectAddress
<1>2. fits \in SUBSET Nat
  BY CasesAssumption
<1>3. (CHOOSE i \in fits : \A k \in fits : i <= k) \in fits
  <2> HIDE DEF fits
  <2> QED BY <1>1, <1>2, FirstFit
<1> QED BY <1>1, <1>3 DEF OfFamily

LEMMA AdvertisedAddress ==
    ASSUME case \in Cases, NEW b \in IPs \cup {Nowhere}
    PROVE  ResolveAdvertisedAddress(b) \in IPs \cup {Nowhere}
  BY Detected, AddressAssumption DEF ResolveAdvertisedAddress

\* Only Begin resolves an address.
LEMMA LaterStep ==
    ASSUME JInv, [Next]_vars, ~\E r \in Runs : Begin(r)
    PROVE  /\ UNCHANGED <<case, addr, adv, field>>
           /\ \A r \in Runs : /\ Active(r)' => Active(r)
                              /\ pc'[r] = "idle" => pc[r] = "idle"
           /\ (\A r \in case.runs : pc'[r] = "idle") => \A r \in case.runs : pc[r] = "idle"
           /\ up' \subseteq Listeners
           /\ \A x \in up' : (\E y \in up : y[1] = x[1]) \/ Active(x[1])
<1> USE DEF JInv
<1>1. CASE UNCHANGED vars
  BY <1>1 DEF vars, serving, Active, ShapeInv
<1>2. CASE \E n \in Names : AddEarly(n)
  BY <1>2 DEF AddEarly, serving, Active, ShapeInv
<1>3. CASE \E x \in up : ServeLoop(x)
  <2>1. PICK x \in up : ServeLoop(x)
    BY <1>3
  <2>2. \A z \in up' : \E y \in up : y[1] = z[1]
    BY <2>1 DEF ServeLoop
  <2>3. UNCHANGED <<case, pc, addr, adv, field>> /\ up' \subseteq Listeners
    BY <2>1, LoopServes DEF ServeLoop
  <2> QED BY <2>2, <2>3 DEF Active
<1>4. ASSUME NEW r \in Runs, Active(r), UNCHANGED <<case, addr, adv, field>>,
             NEW l \in {"opening", "up", "closing", "over", "panicked"},
             pc' = pc \/ pc' = [pc EXCEPT ![r] = l],
             \A x \in up' : x \in up \/ x = <<r, opened[r] + 1, "new">>
      PROVE  /\ \A q \in Runs : /\ Active(q)' => Active(q)
                                /\ pc'[q] = "idle" => pc[q] = "idle"
             /\ (\A q \in case.runs : pc'[q] = "idle") => \A q \in case.runs : pc[q] = "idle"
             /\ up' \subseteq Listeners
             /\ \A x \in up' : (\E y \in up : y[1] = x[1]) \/ Active(x[1])
  <2>1. r \in case.runs /\ opened[r] + 1 \in Nat \ {0} /\ pc[r] # "idle"
    <3>1. opened[r] \in Nat
      BY DEF IInv, Types
    <3>2. r \in case.runs
      BY <1>4 DEF CallerInv
    <3>3. pc[r] # "idle"
      BY <1>4 DEF Active
    <3> QED BY <3>1, <3>2, <3>3
  <2>2. pc'[r] # "idle" /\ \A q \in Runs \ {r} : pc'[q] = pc[q]
    BY <1>4, <2>1 DEF IInv, Types
  <2>3. /\ <<r, opened[r] + 1, "new">> \in Listeners
        /\ <<r, opened[r] + 1, "new">>[1] = r
    BY <2>1 DEF Listeners
  <2>4. up' \subseteq Listeners /\ \A x \in up' : (\E y \in up : y[1] = x[1]) \/ Active(x[1])
    BY <1>4, <2>3 DEF ShapeInv
  <2> QED BY <1>4, <2>1, <2>2, <2>4 DEF Active
<1>5. ASSUME NEW r \in Runs,
             \/ OnStartFails(r) \/ Snapshot(r) \/ ListenFails(r) \/ Ready(r) \/ Stop(r)
             \/ CloseNext(r) \/ End(r) \/ OpenNext(r) \/ \E n \in Names : Add(r, n)
             \/ \E k \in DOMAIN store[StoreOf(r)] :
                    (\E part \in Parts : Configure(r, k, part)) \/ ServeFunc(r, k)
      PROVE  /\ Active(r) /\ UNCHANGED <<case, addr, adv, field>>
             /\ \A x \in up' : x \in up \/ x = <<r, opened[r] + 1, "new">>
             /\ \E l \in {"opening", "up", "closing", "over", "panicked"} :
                    pc' = pc \/ pc' = [pc EXCEPT ![r] = l]
  <2>1. CASE OnStartFails(r) \/ Snapshot(r) \/ ListenFails(r) \/ Ready(r) \/ Stop(r)
    BY <2>1 DEF OnStartFails, Snapshot, ListenFails, Ready, Stop, Goto, Active, serving
  <2>2. CASE CloseNext(r) \/ End(r)
    BY <2>2 DEF CloseNext, End, Goto, Active
  <2>3. CASE OpenNext(r)
    BY <2>3 DEF OpenNext, Goto, Active
  <2>4. CASE \E n \in Names : Add(r, n)
    BY <2>4 DEF Add, Goto, Active, serving
  <2>5. CASE \E k \in DOMAIN store[StoreOf(r)] :
                (\E part \in Parts : Configure(r, k, part)) \/ ServeFunc(r, k)
    BY <2>5 DEF Configure, ServeFunc, Setter, Goto, Active, serving
  <2> QED BY <1>5, <2>1, <2>2, <2>3, <2>4, <2>5
<1>6. \/ UNCHANGED vars \/ (\E n \in Names : AddEarly(n)) \/ (\E x \in up : ServeLoop(x))
      \/ \E r \in Runs :
            \/ OnStartFails(r) \/ Snapshot(r) \/ ListenFails(r) \/ Ready(r) \/ Stop(r)
            \/ CloseNext(r) \/ End(r) \/ OpenNext(r) \/ \E n \in Names : Add(r, n)
            \/ \E k \in DOMAIN store[StoreOf(r)] :
                    (\E part \in Parts : Configure(r, k, part)) \/ ServeFunc(r, k)
  BY DEF Next
<1> QED BY <1>1, <1>2, <1>3, <1>4, <1>5, <1>6

\* A step adds a binding whose name is new, or keeps all bindings' names and addresses.
KeepsBindings ==
    \A s \in Stores : /\ DOMAIN store'[s] = DOMAIN store[s]
                      /\ \A k \in DOMAIN store[s] :
                            /\ store'[s][k].name = store[s][k].name
                            /\ store'[s][k].listen = store[s][k].listen
                            /\ store'[s][k].by = store[s][k].by

Adds(s, b) ==
    /\ ~Has(s, b.name)
    /\ store' = [store EXCEPT ![s] = Append(@, b)]
    /\ CallersHasNoHost(b)

LEMMA SetKeepsBindings ==
    ASSUME IInv, NEW r \in Runs, NEW k \in DOMAIN store[StoreOf(r)], NEW b \in Record,
           SetBinding(r, k, b), b.name = Binding(r, k).name,
           b.listen = Binding(r, k).listen, b.by = Binding(r, k).by
    PROVE  KeepsBindings
<1>1. /\ \A s \in Stores : DOMAIN store'[s] = DOMAIN store[s]
      /\ \A s \in Stores : \A j \in DOMAIN store[s] :
            store'[s][j] = IF s = StoreOf(r) /\ j = k THEN b ELSE store[s][j]
  BY SetResult DEF IInv
<1> QED BY <1>1 DEF KeepsBindings, Binding

LEMMA StoreStep ==
    ASSUME JInv, [Next]_vars
    PROVE  KeepsBindings \/ \E s \in Stores, b \in Record : Adds(s, b)
<1> USE DEF JInv
<1>1. CASE UNCHANGED store
  BY <1>1 DEF KeepsBindings
<1>2. ASSUME NEW n \in Names, AddEarly(n)
      PROVE  \E s \in Stores, b \in Record : Adds(s, b)
  <2> DEFINE b == NewBinding("given", case.given, n, "caller")
  <2>1. b \in Record /\ "given" \in Stores
    BY NewRecord DEF IInv, Stores
  <2>2. field["given"] = "" /\ ~Has("given", n) /\ case.given # "none"
    BY <1>2 DEF AddEarly, CallerInv
  <2>3. b.name = n /\ (case.given = "default" => b.listen.host = "")
    BY <2>2 DEF NewBinding, ListenAddr
  <2>4. store' = [store EXCEPT !["given"] = Append(@, b)]
    BY <1>2 DEF AddEarly, Insert
  <2> HIDE DEF b
  <2> QED BY <2>1, <2>2, <2>3, <2>4 DEF Adds, CallersHasNoHost
<1>3. ASSUME NEW r \in Runs, NEW n \in Names, Add(r, n), store' # store
      PROVE  \E s \in Stores, b \in Record : Adds(s, b)
  <2>1. PICK who \in Runs \cup {"late"} : Insert(StoreOf(r), Kind(r), n, who)
    BY <1>3 DEF Add
  <2> DEFINE b == NewBinding(StoreOf(r), Kind(r), n, who)
  <2>2. StoreOf(r) \in Stores
    BY StoreTyped DEF IInv
  <2>3. b \in Record
    BY <2>2, NewRecord DEF IInv
  <2>4. b.name = n /\ ~Has(StoreOf(r), n) /\ b.by # "caller"
    BY <1>3, RunsAssumption DEF NewBinding, Add
  <2>5. store' = [store EXCEPT ![StoreOf(r)] = Append(@, b)]
    BY <2>1 DEF Insert
  <2> HIDE DEF b
  <2> QED BY <2>2, <2>3, <2>4, <2>5 DEF Adds, CallersHasNoHost
<1>4. ASSUME NEW r \in Runs, NEW k \in DOMAIN store[StoreOf(r)],
             (\E part \in Parts : Configure(r, k, part)) \/ ServeFunc(r, k), store' # store
      PROVE  KeepsBindings
  <2>1. Binding(r, k) \in Record
    BY StoreTyped DEF IInv, Binding
  <2>2. CASE ServeFunc(r, k)
    <3> DEFINE b == [Binding(r, k) EXCEPT !.fn = TRUE]
    <3>1. SetBinding(r, k, b)
      BY <1>4, <2>2 DEF ServeFunc, Setter
    <3>2. /\ b \in Record /\ b.name = Binding(r, k).name
          /\ b.listen = Binding(r, k).listen /\ b.by = Binding(r, k).by
      BY <2>1 DEF Record
    <3> HIDE DEF b
    <3> QED BY <3>1, <3>2, SetKeepsBindings
  <2>3. CASE \E part \in Parts : Configure(r, k, part)
    <3>1. PICK part \in Parts : Configure(r, k, part)
      BY <2>3
    <3> DEFINE b == [Binding(r, k) EXCEPT !.parts = @ \cup {part}]
    <3>2. SetBinding(r, k, b)
      BY <1>4, <3>1 DEF Configure, Setter
    <3>3. /\ b \in Record /\ b.name = Binding(r, k).name
          /\ b.listen = Binding(r, k).listen /\ b.by = Binding(r, k).by
      BY <2>1 DEF Record
    <3> HIDE DEF b
    <3> QED BY <3>2, <3>3, SetKeepsBindings
  <2> QED BY <1>4, <2>2, <2>3
<1>5. ASSUME NEW r \in Runs, OpenNext(r), store' # store PROVE KeepsBindings
  BY <1>5, OpenResult DEF KeepsBindings
<1>6. CASE Next
  <2>1. \A r \in Runs : \/ Begin(r) \/ OnStartFails(r) \/ Snapshot(r) \/ ListenFails(r)
                         \/ Ready(r) \/ Stop(r) \/ CloseNext(r) \/ End(r)
                        => UNCHANGED store
    BY DEF Begin, OnStartFails, Snapshot, ListenFails, Ready, Stop, CloseNext, End
  <2>2. \A x \in up : ServeLoop(x) => UNCHANGED store
    BY DEF ServeLoop
  <2> QED BY <1>1, <1>2, <1>3, <1>4, <1>5, <1>6, <2>1, <2>2 DEF Next
<1> QED BY <1>1, <1>6 DEF vars

LEMMA AddsResult ==
    ASSUME IInv, NEW s \in Stores, NEW b \in Record, Adds(s, b)
    PROVE  \A t \in Stores :
            /\ \A k \in DOMAIN store[t] : k \in DOMAIN store'[t] /\ store'[t][k] = store[t][k]
            /\ \A k \in DOMAIN store'[t] \ DOMAIN store[t] :
                t = s /\ k = Len(store[s]) + 1 /\ store'[t][k] = b
  BY InsertKeeps DEF IInv, Adds

LEMMA NamesStep == ASSUME JInv, [Next]_vars PROVE \A s \in Stores : NamesDiffer(s)'
<1> SUFFICES ASSUME NEW t \in Stores PROVE NamesDiffer(t)'
  OBVIOUS
<1>1. NamesDiffer(t)
  BY DEF JInv, ShapeInv
<1>2. CASE KeepsBindings
  <2>1. /\ DOMAIN store'[t] = DOMAIN store[t]
        /\ \A k \in DOMAIN store[t] : store'[t][k].name = store[t][k].name
    BY <1>2 DEF KeepsBindings
  <2> QED BY <1>1, <2>1 DEF NamesDiffer
<1>3. ASSUME NEW s \in Stores, NEW b \in Record, Adds(s, b) PROVE NamesDiffer(t)'
  <2>1. /\ \A k \in DOMAIN store[t] : k \in DOMAIN store'[t] /\ store'[t][k] = store[t][k]
        /\ \A k \in DOMAIN store'[t] \ DOMAIN store[t] :
                t = s /\ k = Len(store[s]) + 1 /\ store'[t][k] = b
    BY <1>3, AddsResult DEF JInv
  <2>2. t = s => \A k \in DOMAIN store[t] : store[t][k].name # b.name
    BY <1>3 DEF Adds, Has
  <2> QED BY <1>1, <2>1, <2>2 DEF NamesDiffer
<1> QED BY <1>2, <1>3, StoreStep

LEMMA CallersHost ==
    ASSUME JInv, [Next]_vars, NEW t \in Stores, NEW k \in DOMAIN store'[t]
    PROVE  CallersHasNoHost(store'[t][k])
<1>1. \A j \in DOMAIN store[t] : CallersHasNoHost(store[t][j])
  BY DEF JInv, CallerInv
<1>2. CASE KeepsBindings
  BY <1>1, <1>2 DEF KeepsBindings, CallersHasNoHost
<1>3. ASSUME NEW s \in Stores, NEW b \in Record, Adds(s, b)
      PROVE  CallersHasNoHost(store'[t][k])
  <2>1. /\ \A j \in DOMAIN store[t] : store'[t][j] = store[t][j]
        /\ k \in DOMAIN store'[t] \ DOMAIN store[t] => store'[t][k] = b
    BY <1>3, AddsResult DEF JInv
  <2> QED BY <1>1, <1>3, <2>1 DEF Adds
<1> QED BY <1>2, <1>3, StoreStep

\* The case never changes, and with it what an address resolves to.
LEMMA SameAddress ==
    ASSUME UNCHANGED case, NEW r
    PROVE  ResolveAdvertisedAddress(ResolveBindAddress(r))'
            = ResolveAdvertisedAddress(ResolveBindAddress(r))
<1>1. ResolveBindAddress(r)' = ResolveBindAddress(r)
  BY SameNames
<1>2. \A f : AutoDetectAddress(f)' = AutoDetectAddress(f)
  BY DEF AutoDetectAddress
<1> QED BY <1>1, <1>2 DEF ResolveAdvertisedAddress

LEMMA AddressStep ==
    ASSUME JInv, [Next]_vars
    PROVE  ShapeInv' /\ AdvInv' /\ CallerInv'
<1> USE DEF JInv
<1>1. \A s \in Stores : NamesDiffer(s)'
  BY NamesStep
<1>2. \A t \in Stores : \A k \in DOMAIN store'[t] : CallersHasNoHost(store'[t][k])
  BY CallersHost
<1>3. CASE ~\E r \in Runs : Begin(r)
  <2>1. /\ UNCHANGED <<case, addr, adv, field>>
        /\ \A r \in Runs : /\ Active(r)' => Active(r)
                           /\ pc'[r] = "idle" => pc[r] = "idle"
        /\ (\A r \in case.runs : pc'[r] = "idle") => \A r \in case.runs : pc[r] = "idle"
        /\ up' \subseteq Listeners
        /\ \A x \in up' : (\E y \in up : y[1] = x[1]) \/ Active(x[1])
    BY <1>3, LaterStep
  <2>2. ShapeInv'
    BY <1>1, <2>1 DEF ShapeInv
  <2>3. AdvInv'
    <3>1. \A r \in Runs : ResolveAdvertisedAddress(ResolveBindAddress(r))'
                            = ResolveAdvertisedAddress(ResolveBindAddress(r))
      BY <2>1, SameAddress
    <3>2. \A r \in Runs : Active(r)' \/ (\E x \in up' : x[1] = r)
                            => Active(r) \/ (\E x \in up : x[1] = r)
      BY <2>1
    <3> QED BY <2>1, <3>1, <3>2 DEF AdvInv
  <2>4. CallerInv'
    BY <1>2, <2>1 DEF CallerInv, CallersHasNoHost
  <2> QED BY <2>2, <2>3, <2>4
<1>4. ASSUME NEW r \in Runs, Begin(r) PROVE ShapeInv' /\ AdvInv' /\ CallerInv'
  <2> DEFINE b == ResolveBindAddress(r)
             a == ResolveAdvertisedAddress(b)
  <2>1. /\ pc[r] = "idle" /\ UNCHANGED <<case, store, up>>
        /\ b \in IPs \cup {Nowhere} /\ a \in IPs \cup {Nowhere}
        /\ r \in case.runs /\ StoreOf(r) \in Stores
    BY <1>4, ResolvedAddress, AdvertisedAddress, StoreTyped
       DEF Begin, Goto, ShapeInv, CallerInv, IInv, serving
  <2>2. \/ pc' = [pc EXCEPT ![r] = "refused"] /\ UNCHANGED <<addr, adv, field>>
        \/ /\ pc' = [pc EXCEPT ![r] = "onstart"] /\ b # Nowhere /\ a # Nowhere
           /\ addr' = [addr EXCEPT ![r] = b] /\ adv' = [adv EXCEPT ![r] = a]
           /\ field' = field \/ field' = [field EXCEPT ![StoreOf(r)] = addr'[r]]
    BY <1>4 DEF Begin, Goto, FieldOf
  <2>3. \A q \in Runs : /\ ResolveBindAddress(q)' = ResolveBindAddress(q)
                        /\ ResolveAdvertisedAddress(ResolveBindAddress(q))'
                            = ResolveAdvertisedAddress(ResolveBindAddress(q))
    BY <2>1, SameNames, SameAddress
  <2>4. pc'[r] \in {"refused", "onstart"} /\ \A q \in Runs \ {r} : pc'[q] = pc[q]
    BY <2>2 DEF IInv, Types
  <2>5. CallerInv'
    BY <1>2, <2>1, <2>4 DEF CallerInv, CallersHasNoHost, Active
  <2>6. ~\E x \in up : x[1] = r
    BY <2>1 DEF ServerInv, OwnInv, Owned, Begun, OpenStates
  <2> HIDE DEF a, b
  <2>7. ShapeInv'
    <3>1. addr' \in [Runs -> IPs \cup {Nowhere}] /\ adv' \in [Runs -> IPs \cup {Nowhere}]
      BY <2>1, <2>2 DEF ShapeInv
    <3>2. field' \in [Stores -> IPs \cup {""}]
      <4>1. CASE field' = field
        BY <4>1 DEF ShapeInv
      <4>2. CASE field' # field
        <5>1. addr'[r] = b /\ b \in IPs /\ field' = [field EXCEPT ![StoreOf(r)] = addr'[r]]
          BY <2>1, <2>2, <4>2 DEF ShapeInv
        <5> QED BY <2>1, <5>1 DEF ShapeInv
      <4> QED BY <4>1, <4>2
    <3> QED BY <1>1, <2>1, <3>1, <3>2 DEF ShapeInv
  <2>8. AdvInv'
    <3> SUFFICES ASSUME NEW q \in Runs, Active(q)' \/ \E x \in up : x[1] = q
                 PROVE  /\ adv'[q] = ResolveAdvertisedAddress(ResolveBindAddress(q))
                        /\ adv'[q] # Nowhere
      BY <2>1, <2>3 DEF AdvInv
    <3>1. CASE q = r
      <4>1. pc'[r] = "onstart"
        BY <2>4, <2>6, <3>1 DEF Active
      <4>2. adv'[r] = a /\ a # Nowhere
        BY <2>2, <4>1 DEF ShapeInv, IInv, Types
      <4> QED BY <3>1, <4>2 DEF a, b
    <3>2. CASE q # r
      <4>1. Active(q) \/ \E x \in up : x[1] = q
        BY <2>4, <3>2 DEF Active
      <4>2. adv'[q] = adv[q]
        BY <2>2, <3>2 DEF ShapeInv
      <4> QED BY <4>1, <4>2 DEF AdvInv
    <3> QED BY <3>1, <3>2
  <2> QED BY <2>5, <2>7, <2>8
<1> QED BY <1>3, <1>4

-----------------------------------------------------------------------------
LEMMA InitJInv == Init => JInv
<1> SUFFICES ASSUME Init PROVE JInv
  OBVIOUS
<1>1. /\ store = [s \in Stores |-> <<>>] /\ opened = [r \in Runs |-> 0] /\ up = {}
      /\ shut = {} /\ failed = {}
      /\ snap = [r \in Runs |-> 0] /\ "given" \in Stores /\ case \in Cases
      /\ \A r \in Runs : pc[r] = IF r \in case.runs THEN "idle" ELSE "over"
      /\ field["given"] = ""
  BY DEF Init, Stores
<1>2. \A r \in Runs : r \in Stores
  BY DEF Stores
<1>3. \A s \in Stores : store[s] = <<>> /\ DOMAIN store[s] = {}
  <2>1. DOMAIN <<>> = {}
    OBVIOUS
  <2> QED BY <1>1, <2>1
<1>4. ShapeInv
  BY <1>1, <1>3 DEF ShapeInv, NamesDiffer, Init
<1>5. AdvInv /\ OwnInv
  BY <1>1 DEF AdvInv, OwnInv, Active
<1>6. CallerInv
  BY <1>1, <1>3 DEF CallerInv, Active
<1>7. OpenInv /\ OnceInv /\ MineInv /\ PointInv /\ PastInv
  <2>1. \A r \in Runs : StoreOf(r) \in Stores
    BY DEF StoreOf, Stores
  <2> QED BY <1>1, <1>2, <1>3, <2>1
          DEF OpenInv, OnceInv, MineInv, PointInv, PastInv, OpenStates
<1>8. LoopInv
  <2>1. \A r \in Runs : opened[r] = 0 /\ snap[r] = 0 /\ pc[r] \notin {"opening", "up"}
    BY <1>1
  <2>2. \A r \in Runs : opened[r] <= snap[r] /\ opened[r] = snap[r]
    <3> TAKE r \in Runs
    <3>1. opened[r] = 0 /\ snap[r] = 0
      BY <2>1
    <3> QED BY <3>1
  <2> QED BY <2>1, <2>2 DEF LoopInv
<1> QED BY <1>4, <1>5, <1>6, <1>7, <1>8, InitIInv DEF JInv, ServerInv

LEMMA NextJInv == JInv /\ [Next]_vars => JInv'
  BY NextIInv, AddressStep, ServerStep DEF JInv

LEMMA JInvAlways == Spec => []JInv
<1> QED BY InitJInv, NextJInv, PTL DEF Spec

-----------------------------------------------------------------------------
\* However many runs share a Bindings, and whatever their OnStart and callbacks add
\* to it: variables keep their types, the names in a store differ, and the loop of
\* openBindings stays within its snapshot.
THEOREM SetupTypeOK == Spec => []TypeOK
<1>1. JInv => TypeOK
  <2> SUFFICES ASSUME JInv PROVE TypeOK
    OBVIOUS
  <2> USE DEF JInv, ServerInv
  <2>1. pc \in [Runs -> {"idle", "onstart", "opening", "up", "closing", "over", "refused",
                         "panicked"}]
    BY DEF IInv, Types
  <2>2. \A x \in up : /\ x[1] \in Runs /\ x[2] \in 1..snap[x[1]]
                      /\ x[3] \in Runs \cup {"new", "fn"}
    <3> TAKE x \in up
    <3>1. /\ x[1] \in Runs /\ x[2] \in Nat \ {0} /\ x[2] <= snap[x[1]]
          /\ x[3] \in Runs \cup {"new", "fn"}
      BY UpIsListener DEF OwnInv, Owned, Begun
    <3>2. snap[x[1]] \in Nat
      BY <3>1 DEF IInv, Types
    <3> QED BY <3>1, <3>2
  <2>3. \A r \in Runs : opened[r] <= snap[r] /\ snap[r] <= Len(store[StoreOf(r)])
    BY DEF IInv, UpInv, LoopInv
  <2> QED BY <2>1, <2>2, <2>3 DEF ShapeInv, NamesDiffer, TypeOK
<1> QED BY <1>1, JInvAlways, PTL

\* However many runs add to the same Bindings, open and close them, and whenever the
\* goroutines run: a run that is up has one listener on each binding its OnStart added,
\* as long as the binding has a port or the run a Bindings of its own; no other run has
\* one there, and the run's own server or a ServeFunc serves it.
THEOREM SetupServesWhatItAdded == Spec => []ServesWhatItAdded
<1>1. JInv => ServesWhatItAdded
  <2> SUFFICES ASSUME JInv, NEW r \in Runs, pc[r] = "up", NEW k \in DOMAIN store[StoreOf(r)],
                      Binding(r, k).by = r, Alone(r, k)
               PROVE  LET open == {x \in up : x[2] = k /\ StoreOf(x[1]) = StoreOf(r)}
                      IN  \/ open = {<<r, k, r>>}
                          \/ open = {<<r, k, "fn">>}
                          \/ /\ open = {<<r, k, "new">>}
                             /\ \/ Binding(r, k).fn
                                \/ Binding(r, k).srv = r /\ <<r, k>> \notin shut
    BY DEF ServesWhatItAdded, Alone, Fixed
  <2> USE DEF JInv, ServerInv
  <2>1. k \in 1..opened[r] /\ k \in Nat
    <3>1. k \in Nat \ {0} /\ opened[r] \in Nat /\ snap[r] \in Nat
      BY BindingIsRecord DEF IInv, Types
    <3>2. k <= opened[r]
      BY DEF LoopInv
    <3> QED BY <3>1, <3>2
  <2>2. PICK x \in up : x[1] = r /\ x[2] = k
    BY <2>1 DEF OpenInv, OpenStates
  <2>3. \A y \in up : y[2] = k /\ StoreOf(y[1]) = StoreOf(r) => y = x
    <3> SUFFICES ASSUME NEW y \in up, y[2] = k, StoreOf(y[1]) = StoreOf(r) PROVE y = x
      OBVIOUS
    <3>1. CASE case.given = "none"
      BY <2>2, <3>1 DEF OnceInv, StoreOf
    <3>2. CASE case.given # "none"
      BY <2>2, <3>2 DEF OnceInv, Alone
    <3> QED BY <3>1, <3>2
  <2>4. ~Past(r, k)
    BY DEF Past
  <2>5. Serves(x)
    BY <2>2, <2>4, OwnedAlone DEF OwnInv
  <2>6. <<r, k>> \notin shut
    <3>1. <<r, k>>[1] = r /\ <<r, k>>[2] = k
      OBVIOUS
    <3> QED BY <2>4, <3>1 DEF PastInv
  <2>7. x = <<r, k, x[3]>>
    BY <2>2, UpIsListener
  <2>8. {y \in up : y[2] = k /\ StoreOf(y[1]) = StoreOf(r)} = {<<r, k, x[3]>>}
    BY <2>2, <2>3, <2>7
  <2>9. \/ x[3] = r \/ x[3] = "fn"
        \/ x[3] = "new" /\ (Binding(r, k).fn \/ Binding(r, k).srv = r)
    BY <2>2, <2>5 DEF Serves
  <2> QED BY <2>6, <2>8, <2>9
<1> QED BY <1>1, JInvAlways, PTL

\* A run that is over leaves a listener served only if the probe of its binding failed,
\* or another run with the same Bindings replaced the server, on a binding whose port
\* the kernel chooses.
THEOREM SetupStopStopsOwn == Spec => []StopStopsOwn
<1>1. JInv => StopStopsOwn
  BY DEF JInv, ServerInv, OwnInv, Owned, Serves, Ends, Replaced, Fixed, StopStopsOwn
<1> QED BY <1>1, JInvAlways, PTL

\* Any interfaces, and any addresses, valid or not: an advertised address nobody
\* configured leads to every listener of the run.
THEOREM SetupAdvertisedIsServed == Spec => []AdvertisedIsServed
<1>1. JInv => AdvertisedIsServed
  <2> SUFFICES ASSUME JInv, NEW x \in up, case.adv = "", Kind(x[1]) = "test" => case.bind = ""
               PROVE  /\ Reaches(adv[x[1]], Binding(x[1], x[2]).listen.host)
                      /\ adv[x[1]] \in Zeros => addr[x[1]] \in Zeros /\ ~IsWildcard(addr[x[1]])
    BY DEF AdvertisedIsServed
  <2> USE DEF JInv
  <2> DEFINE r == x[1]
             h == Binding(r, x[2]).listen.host
             b == ResolveBindAddress(r)
  <2>1. /\ r \in Runs /\ StoreOf(r) \in Stores /\ x[2] \in DOMAIN store[StoreOf(r)]
        /\ Kind(r) \in {"default", "test"}
    BY UpIsBinding DEF IInv, Types, Kind
  <2>2. /\ addr[r] = b /\ adv[r] = ResolveAdvertisedAddress(b) /\ adv[r] # Nowhere
        /\ RightAddr(r, Binding(r, x[2]))
    BY <2>1 DEF IInv, UpInv, AddrInv, AdvInv
  <2>3. h = b \/ h = ""
    <3>1. CASE Kind(r) = "test"
      <4>1. Binding(r, x[2]).listen = [host |-> "127.0.0.1", port |-> 0]
        BY <2>2, <3>1 DEF RightAddr
      <4>2. b = "127.0.0.1"
        BY <3>1 DEF ResolveBindAddress, IsTest
      <4>3. [host |-> "127.0.0.1", port |-> 0].host = "127.0.0.1"
        OBVIOUS
      <4> QED BY <4>1, <4>2, <4>3, Zenon
    <3>2. CASE Kind(r) = "default" /\ Binding(r, x[2]).by = "caller"
      <4>1. CallersHasNoHost(Binding(r, x[2]))
        BY <2>1 DEF CallerInv, Binding
      <4>2. case.given = "default" => h = ""
        BY <3>2, <4>1 DEF CallersHasNoHost
      <4>3. case.given = "default"
        BY <3>2, <4>1 DEF CallersHasNoHost, Kind
      <4> QED BY <4>2, <4>3
    <3>3. CASE Kind(r) = "default" /\ Binding(r, x[2]).by # "caller"
      BY <2>2, <3>3 DEF RightAddr
    <3> QED BY <2>1, <3>1, <3>2, <3>3
  <2>4. CASE ~IsWildcard(b)
    <3>1. adv[r] = b
      BY <2>2, <2>4 DEF ResolveAdvertisedAddress
    <3> QED BY <2>2, <2>3, <2>4, <3>1 DEF Reaches
  <2>5. CASE IsWildcard(b)
    <3>1. adv[r] = AutoDetectAddress(IF b = "0.0.0.0" THEN 4 ELSE 6)
      BY <2>2, <2>5 DEF ResolveAdvertisedAddress
    <3>2. adv[r] \in Private /\ (b = "0.0.0.0" => Family(adv[r]) = 4)
      BY <2>2, <3>1, Detected DEF ShapeInv
    <3>3. b = "0.0.0.0" => Unspecified(b)
      BY AddressAssumption DEF Unspecified
    <3>4. adv[r] \notin Zeros
      BY <3>2, AddressAssumption
    <3> HIDE DEF h, b, r
    <3> QED BY <2>3, <2>5, <3>2, <3>3, <3>4 DEF Reaches, IsWildcard, h, b, r
  <2> QED BY <2>4, <2>5
<1> QED BY <1>1, JInvAlways, PTL

=============================================================================
