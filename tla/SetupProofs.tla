---------------------------- MODULE SetupProofs ----------------------------
(***************************************************************************)
(* Any number of runs that share Options, of bindings and of setter calls: *)
(* bindings listen where the run was told to, and no binding is both an    *)
(* HTTP pipeline and a ServeFunc.                                          *)
(***************************************************************************)
EXTENDS Setup, TLAPS

Hosts == IPs \cup {"", Nowhere, "127.0.0.1", "0.0.0.0"}
AllPorts == {0} \cup {Port[n] : n \in Names}
Record == [name : Names, listen : [host : Hosts, port : AllPorts],
           by : Runs \cup {"caller", "late"}, parts : SUBSET Parts, fn : BOOLEAN,
           srv : Runs \cup {"nil"}]

Types ==
    /\ case.given \in {"none", "default", "test"}
    /\ pc \in [Runs -> {"idle", "onstart", "opening", "up", "closing", "over", "refused",
                        "panicked"}]
    /\ addr \in [Runs -> Hosts]
    /\ field \in [Stores -> Hosts]
    /\ store \in [Stores -> Seq(Record)]
    /\ snap \in [Runs -> Nat]
    /\ opened \in [Runs -> Nat]

Active(r) == pc[r] \in {"onstart", "opening", "up", "closing"}

\* What a binding's address is, whoever added it.
RightAddr(r, b) ==
    IF Kind(r) = "test" THEN b.listen = [host |-> "127.0.0.1", port |-> 0]
    ELSE b.by # "caller" => b.listen.host = ResolveBindAddress(r)

AddrInv ==
    /\ \A r \in Runs : Active(r) => /\ addr[r] = ResolveBindAddress(r)
                                    /\ Kind(r) = "default" => field[StoreOf(r)] = addr[r]
    /\ \A r \in Runs : \A k \in DOMAIN store[StoreOf(r)] : RightAddr(r, Binding(r, k))

UpInv ==
    /\ \A r \in Runs : snap[r] <= Len(store[StoreOf(r)])
    /\ \A x \in up : /\ x[1] \in Runs /\ x[2] \in DOMAIN store[StoreOf(x[1])]
                     /\ addr[x[1]] = ResolveBindAddress(x[1])

\* A store of its own has no server before its run opens it.
SrvInv ==
    /\ Exclusive
    /\ case.given # "none" => \A r \in Runs : store[r] = <<>>
    /\ case.given = "none" => \A r \in Runs : pc[r] \in {"idle", "onstart"} =>
                                \A k \in DOMAIN store[r] : store[r][k].srv = "nil"

IInv == Types /\ AddrInv /\ UpInv /\ SrvInv

\* What a step that neither begins a run nor replaces a binding may do to the runs
\* and their servers.
Orderly ==
    /\ UNCHANGED <<case, addr, field>>
    /\ pc' \in [Runs -> {"idle", "onstart", "opening", "up", "closing", "over", "refused",
                         "panicked"}]
    /\ snap' \in [Runs -> Nat] /\ opened' \in [Runs -> Nat]
    /\ \A r \in Runs : /\ Active(r)' => Active(r)
                       /\ pc'[r] \in {"idle", "onstart"} => pc[r] \in {"idle", "onstart"}
                       /\ snap'[r] <= Len(store[StoreOf(r)])
    /\ \A x \in up' : \/ \E y \in up : y[1] = x[1] /\ y[2] = x[2]
                      \/ /\ x[1] \in Runs /\ Active(x[1])
                         /\ x[2] \in DOMAIN store[StoreOf(x[1])]

-----------------------------------------------------------------------------
LEMMA StoreTyped == ASSUME Types, NEW r \in Runs
                    PROVE  /\ StoreOf(r) \in Stores
                           /\ store[StoreOf(r)] \in Seq(Record)
  BY DEF Types, StoreOf, Stores

LEMMA SameNames ==
    ASSUME UNCHANGED case, NEW r
    PROVE  /\ Kind(r)' = Kind(r) /\ StoreOf(r)' = StoreOf(r)
           /\ ResolveBindAddress(r)' = ResolveBindAddress(r)
  BY DEF Kind, StoreOf, ResolveBindAddress, IsTest

LEMMA ResolvedHost == ASSUME NEW r \in Runs PROVE ResolveBindAddress(r) \in Hosts
  BY DEF ResolveBindAddress, Hosts

\* Two runs with one DefaultBindings have one bind address.
LEMMA SharedStore ==
    ASSUME Types, NEW r \in Runs, NEW q \in Runs, StoreOf(q) = StoreOf(r)
    PROVE  q = r \/ (Kind(q) = Kind(r) /\ ResolveBindAddress(q) = ResolveBindAddress(r))
<1>1. CASE case.given = "none"
  BY <1>1, RunsAssumption DEF StoreOf
<1>2. CASE case.given # "none"
  BY <1>2 DEF Kind, ResolveBindAddress, IsTest
<1> QED BY <1>1, <1>2

\* What is up after an orderly step was up, or is opened by a run that resolved its
\* address.
LEMMA UpAfter ==
    ASSUME IInv, Orderly, NEW x \in up'
    PROVE  /\ x[1] \in Runs /\ x[2] \in DOMAIN store[StoreOf(x[1])]
           /\ addr[x[1]] = ResolveBindAddress(x[1])
<1>1. CASE \E y \in up : y[1] = x[1] /\ y[2] = x[2]
  <2>1. PICK y \in up : y[1] = x[1] /\ y[2] = x[2]
    BY <1>1
  <2>2. /\ y[1] \in Runs /\ y[2] \in DOMAIN store[StoreOf(y[1])]
        /\ addr[y[1]] = ResolveBindAddress(y[1])
    BY DEF IInv, UpInv
  <2> QED BY <2>1, <2>2
<1>2. CASE x[1] \in Runs /\ Active(x[1]) /\ x[2] \in DOMAIN store[StoreOf(x[1])]
  BY <1>2 DEF IInv, AddrInv
<1> QED BY <1>1, <1>2 DEF Orderly

\* A step that keeps the bindings.
LEMMA QuietStep == ASSUME IInv, Orderly, UNCHANGED store PROVE IInv'
<1>1. Types'
  BY DEF IInv, Types, Orderly
<1>2. \A r \in Runs : /\ Kind(r)' = Kind(r) /\ StoreOf(r)' = StoreOf(r)
                      /\ ResolveBindAddress(r)' = ResolveBindAddress(r)
  BY SameNames DEF Orderly
<1>3. AddrInv'
  BY <1>2 DEF IInv, AddrInv, Orderly, RightAddr, Binding
<1>4. UpInv'
  BY <1>2, UpAfter DEF UpInv, Orderly
<1>5. SrvInv'
  BY DEF IInv, SrvInv, Exclusive, Orderly
<1> QED BY <1>1, <1>3, <1>4, <1>5 DEF IInv

LEMMA InsertResult ==
    ASSUME Types, NEW s \in Stores, NEW b \in Record,
           store' = [store EXCEPT ![s] = Append(@, b)]
    PROVE  /\ store' \in [Stores -> Seq(Record)]
           /\ \A t \in Stores : Len(store[t]) <= Len(store'[t])
           /\ \A t \in Stores : \A k \in DOMAIN store'[t] :
                \/ k \in DOMAIN store[t] /\ store'[t][k] = store[t][k]
                \/ t = s /\ store'[t][k] = b
           /\ \A t \in Stores \ {s} : store'[t] = store[t]
           /\ \A t \in Stores : DOMAIN store[t] \subseteq DOMAIN store'[t]
  BY DEF Types

\* A step that adds a binding with the right address.
LEMMA InsertStep ==
    ASSUME IInv, Orderly, NEW s \in Stores, NEW b \in Record,
           store' = [store EXCEPT ![s] = Append(@, b)],
           b.fn = FALSE, b.srv = "nil",
           case.given = "none" <=> s # "given",
           \A r \in Runs : StoreOf(r) = s => RightAddr(r, b)
    PROVE  IInv'
<1> USE DEF IInv
<1>1. /\ store' \in [Stores -> Seq(Record)]
      /\ \A t \in Stores : Len(store[t]) <= Len(store'[t])
      /\ \A t \in Stores : \A k \in DOMAIN store'[t] :
            \/ k \in DOMAIN store[t] /\ store'[t][k] = store[t][k]
            \/ t = s /\ store'[t][k] = b
      /\ \A t \in Stores \ {s} : store'[t] = store[t]
      /\ \A t \in Stores : DOMAIN store[t] \subseteq DOMAIN store'[t]
  BY InsertResult
<1>2. Types'
  BY <1>1 DEF Types, Orderly
<1>3. \A r \in Runs : /\ Kind(r)' = Kind(r) /\ StoreOf(r)' = StoreOf(r)
                      /\ ResolveBindAddress(r)' = ResolveBindAddress(r)
                      /\ StoreOf(r) \in Stores
  BY SameNames, StoreTyped DEF Orderly
<1>4. ASSUME NEW r \in Runs, NEW k \in DOMAIN store'[StoreOf(r)]
      PROVE  RightAddr(r, store'[StoreOf(r)][k])
  BY <1>1, <1>3 DEF AddrInv, Binding
<1>5. AddrInv'
  <2>1. \A r \in Runs : \A k \in DOMAIN store'[StoreOf(r)'] : RightAddr(r, Binding(r, k))'
    BY <1>3, <1>4 DEF RightAddr, Binding
  <2> QED BY <1>3, <2>1 DEF AddrInv, Orderly
<1>6. UpInv'
  <2>1. \A r \in Runs : snap'[r] <= Len(store'[StoreOf(r)])
    <3> TAKE r \in Runs
    <3>1. snap'[r] <= Len(store[StoreOf(r)]) /\ Len(store[StoreOf(r)]) <= Len(store'[StoreOf(r)])
      BY <1>1, <1>3 DEF Orderly
    <3>2. snap'[r] \in Nat /\ Len(store[StoreOf(r)]) \in Nat /\ Len(store'[StoreOf(r)]) \in Nat
      BY <1>1, <1>3 DEF Orderly, Types
    <3> QED BY <3>1, <3>2
  <2>2. \A x \in up' : /\ x[1] \in Runs /\ x[2] \in DOMAIN store'[StoreOf(x[1])]
                        /\ addr'[x[1]] = ResolveBindAddress(x[1])
    BY <1>1, <1>3, UpAfter DEF Orderly
  <2> QED BY <1>3, <2>1, <2>2 DEF UpInv
<1>7. SrvInv'
  <2>1. Exclusive'
    BY <1>1 DEF SrvInv, Exclusive
  <2>2. case.given # "none" => \A r \in Runs : store'[r] = <<>>
    BY <1>1, RunsAssumption DEF SrvInv, Stores
  <2>3. case.given = "none" => \A r \in Runs : pc'[r] \in {"idle", "onstart"} =>
                                 \A k \in DOMAIN store'[r] : store'[r][k].srv = "nil"
    BY <1>1 DEF SrvInv, Stores, Orderly
  <2> QED BY <2>1, <2>2, <2>3 DEF SrvInv, Orderly
<1> QED BY <1>2, <1>5, <1>6, <1>7

LEMMA SetResult ==
    ASSUME Types, NEW r \in Runs, NEW k \in DOMAIN store[StoreOf(r)], NEW b \in Record,
           SetBinding(r, k, b)
    PROVE  /\ store' \in [Stores -> Seq(Record)]
           /\ \A t \in Stores : DOMAIN store'[t] = DOMAIN store[t]
           /\ \A t \in Stores : Len(store'[t]) = Len(store[t])
           /\ \A t \in Stores : \A j \in DOMAIN store[t] :
                store'[t][j] = IF t = StoreOf(r) /\ j = k THEN b ELSE store[t][j]
           /\ \A t \in Stores \ {StoreOf(r)} : store'[t] = store[t]
<1>1. StoreOf(r) \in Stores /\ store[StoreOf(r)] \in Seq(Record)
  BY StoreTyped
<1>2. [store[StoreOf(r)] EXCEPT ![k] = b] \in Seq(Record)
  BY <1>1
<1>3. /\ Len([store[StoreOf(r)] EXCEPT ![k] = b]) = Len(store[StoreOf(r)])
      /\ DOMAIN [store[StoreOf(r)] EXCEPT ![k] = b] = DOMAIN store[StoreOf(r)]
  BY <1>1
<1>4. store' = [store EXCEPT ![StoreOf(r)] = [store[StoreOf(r)] EXCEPT ![k] = b]]
  BY DEF SetBinding
<1>5. store' \in [Stores -> Seq(Record)]
  BY <1>1, <1>2, <1>4 DEF Types
<1>6. \A t \in Stores : store'[t] = IF t = StoreOf(r) THEN [store[StoreOf(r)] EXCEPT ![k] = b]
                                     ELSE store[t]
  BY <1>1, <1>4 DEF Types
<1> QED BY <1>1, <1>3, <1>5, <1>6

\* A step that replaces a binding by one with the same address.
LEMMA SetStep ==
    ASSUME IInv, Orderly, NEW r \in Runs, NEW k \in DOMAIN store[StoreOf(r)],
           NEW b \in Record, SetBinding(r, k, b),
           b.listen = Binding(r, k).listen, b.by = Binding(r, k).by,
           b.fn => b.parts = {} /\ (StoreOf(r) # "given" => b.srv = "nil"),
           case.given = "none" /\ pc'[r] \in {"idle", "onstart"} => b.srv = "nil"
    PROVE  IInv'
<1> USE DEF IInv
<1>1. /\ store' \in [Stores -> Seq(Record)]
      /\ \A t \in Stores : DOMAIN store'[t] = DOMAIN store[t]
      /\ \A t \in Stores : Len(store'[t]) = Len(store[t])
      /\ \A t \in Stores : \A j \in DOMAIN store[t] :
            store'[t][j] = IF t = StoreOf(r) /\ j = k THEN b ELSE store[t][j]
      /\ \A t \in Stores \ {StoreOf(r)} : store'[t] = store[t]
  BY SetResult
<1>2. Types'
  BY <1>1 DEF Types, Orderly
<1>3. \A q \in Runs : /\ Kind(q)' = Kind(q) /\ StoreOf(q)' = StoreOf(q)
                      /\ ResolveBindAddress(q)' = ResolveBindAddress(q)
                      /\ StoreOf(q) \in Stores
  BY SameNames, StoreTyped DEF Orderly
<1>4. ASSUME NEW q \in Runs, NEW j \in DOMAIN store[StoreOf(q)]
      PROVE  RightAddr(q, store'[StoreOf(q)][j])
  <2>1. RightAddr(q, store[StoreOf(q)][j])
    BY DEF AddrInv, Binding
  <2>2. /\ store'[StoreOf(q)][j].listen = store[StoreOf(q)][j].listen
        /\ store'[StoreOf(q)][j].by = store[StoreOf(q)][j].by
    BY <1>1, <1>3 DEF Binding
  <2> QED BY <2>1, <2>2 DEF RightAddr
<1>5. AddrInv'
  <2>1. \A q \in Runs : \A j \in DOMAIN store'[StoreOf(q)'] : RightAddr(q, Binding(q, j))'
    BY <1>1, <1>3, <1>4 DEF RightAddr, Binding
  <2> QED BY <1>3, <2>1 DEF AddrInv, Orderly
<1>6. UpInv'
  <2>1. \A q \in Runs : snap'[q] <= Len(store'[StoreOf(q)])
    BY <1>1, <1>3 DEF Orderly
  <2>2. ASSUME NEW x \in up'
        PROVE  /\ x[1] \in Runs /\ x[2] \in DOMAIN store'[StoreOf(x[1])]
               /\ addr[x[1]] = ResolveBindAddress(x[1])
    BY <1>1, <1>3, <2>2, UpAfter
  <2>3. addr' = addr
    BY DEF Orderly
  <2> QED BY <1>3, <2>1, <2>2, <2>3 DEF UpInv
<1>7. SrvInv'
  <2>1. Exclusive'
    BY <1>1 DEF SrvInv, Exclusive
  <2>2. case.given # "none" => \A q \in Runs : store'[q] = <<>>
    BY <1>1, RunsAssumption DEF SrvInv, Stores, StoreOf
  <2>3. case.given = "none" => \A q \in Runs : pc'[q] \in {"idle", "onstart"} =>
                                 \A j \in DOMAIN store'[q] : store'[q][j].srv = "nil"
    <3> SUFFICES ASSUME case.given = "none", NEW q \in Runs, pc'[q] \in {"idle", "onstart"},
                        NEW j \in DOMAIN store'[q]
                 PROVE  store'[q][j].srv = "nil"
      OBVIOUS
    <3>1. q \in Stores /\ j \in DOMAIN store[q] /\ StoreOf(r) = r
      BY <1>1 DEF Stores, StoreOf
    <3>2. store[q][j].srv = "nil"
      BY <3>1 DEF SrvInv, Orderly
    <3>3. CASE q = r /\ j = k
      BY <1>1, <3>1, <3>3
    <3>4. CASE ~(q = r /\ j = k)
      BY <1>1, <3>1, <3>2, <3>4
    <3> QED BY <3>3, <3>4
  <2> QED BY <2>1, <2>2, <2>3 DEF SrvInv, Orderly
<1> QED BY <1>2, <1>5, <1>6, <1>7

-----------------------------------------------------------------------------
LEMMA InitIInv == Init => IInv
<1> SUFFICES ASSUME Init PROVE IInv
  OBVIOUS
<1>1. store = [s \in Stores |-> <<>>] /\ snap = [r \in Runs |-> 0] /\ up = {}
  BY DEF Init
<1>2. \A s \in Stores : store[s] = <<>>
  BY <1>1
<1>3. <<>> \in Seq(Record) /\ Len(<<>>) = 0 /\ DOMAIN <<>> = {}
  OBVIOUS
<1>4. \A r \in Runs : StoreOf(r) \in Stores /\ r \in Stores
  BY DEF StoreOf, Stores
<1>5. Types
  <2>1. pc \in [Runs -> {"idle", "onstart", "opening", "up", "closing", "over", "refused",
                         "panicked"}]
    BY DEF Init
  <2>2. store \in [Stores -> Seq(Record)]
    BY <1>1, <1>3
  <2>3. case.given \in {"none", "default", "test"}
    BY CasesAssumption DEF Init
  <2>4. addr \in [Runs -> Hosts] /\ field \in [Stores -> Hosts]
    BY DEF Init, Hosts
  <2> QED BY <2>1, <2>2, <2>3, <2>4 DEF Init, Types
<1>6. AddrInv
  <2>1. \A r \in Runs : ~Active(r)
    BY DEF Init, Active
  <2> QED BY <1>2, <1>3, <1>4, <2>1 DEF AddrInv
<1>7. UpInv
  <2>1. \A r \in Runs : snap[r] = 0 /\ Len(store[StoreOf(r)]) = 0
    BY <1>1, <1>2, <1>3, <1>4
  <2> QED BY <1>1, <2>1 DEF UpInv
<1>8. SrvInv
  BY <1>2, <1>3, <1>4 DEF SrvInv, Exclusive
<1> QED BY <1>5, <1>6, <1>7, <1>8 DEF IInv

LEMMA BeginStep == ASSUME IInv, NEW r \in Runs, Begin(r) PROVE IInv'
<1> USE DEF IInv
<1>1. CASE UNCHANGED <<addr, field>> /\ Goto(r, "refused")
  <2>1. Orderly
    BY <1>1 DEF Begin, Goto, Orderly, Types, UpInv, Active, serving
  <2> QED BY <1>1, <2>1, QuietStep DEF Begin
<1>2. CASE /\ Goto(r, "onstart")
           /\ addr' = [addr EXCEPT ![r] = ResolveBindAddress(r)]
           /\ field' = IF Kind(r) = "default"
                       THEN [field EXCEPT ![StoreOf(r)] = FieldOf(StoreOf(r), r)]
                       ELSE field
  <2>1. /\ ResolveBindAddress(r) \in Hosts /\ StoreOf(r) \in Stores
        /\ FieldOf(StoreOf(r), r) = ResolveBindAddress(r)
    BY <1>2, ResolvedHost, StoreTyped DEF FieldOf, Types
  <2>2. /\ UNCHANGED <<case, store, configs, snap, opened, up>>
        /\ pc[r] = "idle" /\ pc' = [pc EXCEPT ![r] = "onstart"]
    BY <1>2 DEF Begin, Goto, serving
  <2>3. Types'
    BY <1>2, <2>1, <2>2 DEF Types
  <2>4. \A q \in Runs : /\ Kind(q)' = Kind(q) /\ StoreOf(q)' = StoreOf(q)
                        /\ ResolveBindAddress(q)' = ResolveBindAddress(q)
                        /\ StoreOf(q) \in Stores
    BY <2>2, SameNames, StoreTyped
  <2>5. \A q \in Runs : addr'[q] = IF q = r THEN ResolveBindAddress(r) ELSE addr[q]
    BY <1>2 DEF Types
  <2>6. ASSUME NEW q \in Runs, Active(q)'
        PROVE  /\ addr'[q] = ResolveBindAddress(q)
               /\ Kind(q) = "default" => field'[StoreOf(q)] = addr'[q]
    <3>1. addr'[q] = ResolveBindAddress(q)
      BY <2>2, <2>5, <2>6 DEF AddrInv, Active, Types
    <3>2. CASE q = r
      BY <1>2, <2>1, <2>5, <3>1, <3>2 DEF Types
    <3>3. CASE q # r
      <4>1. /\ Active(q) /\ addr[q] = ResolveBindAddress(q)
            /\ Kind(q) = "default" => field[StoreOf(q)] = addr[q]
        BY <2>2, <2>6, <3>3 DEF AddrInv, Active, Types
      <4>2. CASE StoreOf(q) = StoreOf(r)
        <5>1. Kind(q) = Kind(r) /\ ResolveBindAddress(q) = ResolveBindAddress(r)
          BY <3>3, <4>2, SharedStore
        <5> QED BY <1>2, <2>1, <3>1, <4>2, <5>1 DEF Types
      <4>3. CASE StoreOf(q) # StoreOf(r)
        BY <1>2, <2>1, <2>4, <2>5, <3>3, <4>1, <4>3 DEF Types
      <4> QED BY <4>2, <4>3
    <3> QED BY <3>1, <3>2, <3>3
  <2>7. AddrInv'
    BY <2>2, <2>4, <2>6 DEF AddrInv, RightAddr, Binding
  <2>8. UpInv'
    BY <2>2, <2>4, <2>5 DEF UpInv
  <2>9. SrvInv'
    BY <2>2 DEF SrvInv, Exclusive, Types
  <2> QED BY <2>3, <2>7, <2>8, <2>9
<1> QED BY <1>1, <1>2 DEF Begin

\* A binding that is added has the right address for every run with its store.
LEMMA NewIsRight ==
    ASSUME IInv, NEW r \in Runs, Active(r), NEW n \in Names, NEW who \in Runs \cup {"late"}
    PROVE  /\ NewBinding(StoreOf(r), Kind(r), n, who) \in Record
           /\ \A q \in Runs : StoreOf(q) = StoreOf(r) =>
                RightAddr(q, NewBinding(StoreOf(r), Kind(r), n, who))
<1> DEFINE b == NewBinding(StoreOf(r), Kind(r), n, who)
<1>1. ListenAddr(StoreOf(r), Kind(r), n) \in [host : Hosts, port : AllPorts]
  BY StoreTyped DEF IInv, Types, ListenAddr, Hosts, AllPorts
<1>2. b \in Record
  BY <1>1 DEF NewBinding, Record
<1>3. b.listen = ListenAddr(StoreOf(r), Kind(r), n)
  BY DEF NewBinding
<1>4. Kind(r) \in {"default", "test"}
  BY DEF IInv, Types, Kind
<1>5. RightAddr(r, b)
  <2>1. CASE Kind(r) = "test"
    BY <1>3, <2>1 DEF RightAddr, ListenAddr
  <2>2. CASE Kind(r) = "default"
    <3>1. b.listen.host = field[StoreOf(r)]
      BY <1>3, <2>2 DEF ListenAddr
    <3> QED BY <2>2, <3>1 DEF IInv, AddrInv, RightAddr
  <2> QED BY <1>4, <2>1, <2>2
<1>6. ASSUME NEW q \in Runs, StoreOf(q) = StoreOf(r) PROVE RightAddr(q, b)
  BY <1>5, <1>6, SharedStore DEF IInv, RightAddr
<1> HIDE DEF b
<1> QED BY <1>2, <1>6 DEF b

LEMMA AddEarlyStep == ASSUME IInv, NEW n \in Names, AddEarly(n) PROVE IInv'
<1> DEFINE b == NewBinding("given", case.given, n, "caller")
<1>1. case.given # "none" /\ store' = [store EXCEPT !["given"] = Append(@, b)]
  BY DEF AddEarly, Insert
<1>2. ListenAddr("given", case.given, n) \in [host : Hosts, port : AllPorts]
  BY DEF IInv, Types, ListenAddr, Hosts, AllPorts, Stores
<1>3. b \in Record
  BY <1>2 DEF NewBinding, Record
<1>4. /\ b.fn = FALSE /\ b.srv = "nil" /\ b.by = "caller"
      /\ b.listen = ListenAddr("given", case.given, n)
  BY DEF NewBinding
<1>5. \A r \in Runs : RightAddr(r, b)
  <2>1. \A r \in Runs : Kind(r) = case.given
    BY <1>1 DEF Kind
  <2>2. case.given = "test" => b.listen = [host |-> "127.0.0.1", port |-> 0]
    BY <1>4 DEF ListenAddr
  <2> HIDE DEF b
  <2> QED BY <1>4, <2>1, <2>2 DEF RightAddr
<1>6. Orderly
  BY DEF AddEarly, Orderly, IInv, Types, UpInv, Active, serving
<1> HIDE DEF b
<1> QED BY <1>1, <1>3, <1>4, <1>5, <1>6, InsertStep DEF Stores

\* A step of a run that only moves its pc on.
LEMMA OrderlyGoto ==
    ASSUME IInv, NEW r \in Runs, Active(r), UNCHANGED <<addr, field, snap, opened>>,
           up' \subseteq up,
           \/ UNCHANGED <<case, pc>>
           \/ Goto(r, "panicked") \/ Goto(r, "over") \/ Goto(r, "up") \/ Goto(r, "closing")
    PROVE  Orderly
<1>1. UNCHANGED <<case, addr, field>>
  BY DEF Goto
<1>2. pc' = pc \/ \E l \in {"panicked", "over", "up", "closing"} : pc' = [pc EXCEPT ![r] = l]
  BY DEF Goto
<1> QED BY <1>1, <1>2 DEF Orderly, IInv, Types, UpInv, Active

LEMMA AddStep == ASSUME IInv, NEW r \in Runs, NEW n \in Names, Add(r, n) PROVE IInv'
<1>1. Active(r) /\ UNCHANGED <<addr, field, configs, snap, opened, up>>
  BY DEF Add, Active, serving
<1>2. Orderly
  BY <1>1, OrderlyGoto DEF Add
<1>3. CASE UNCHANGED store
  BY <1>2, <1>3, QuietStep
<1>4. CASE \E who \in Runs \cup {"late"} : Insert(StoreOf(r), Kind(r), n, who)
  <2>1. PICK who \in Runs \cup {"late"} : Insert(StoreOf(r), Kind(r), n, who)
    BY <1>4
  <2> DEFINE b == NewBinding(StoreOf(r), Kind(r), n, who)
  <2>2. store' = [store EXCEPT ![StoreOf(r)] = Append(@, b)]
    BY <2>1 DEF Insert
  <2>3. b \in Record /\ \A q \in Runs : StoreOf(q) = StoreOf(r) => RightAddr(q, b)
    BY <1>1, NewIsRight
  <2>4. b.fn = FALSE /\ b.srv = "nil"
    BY DEF NewBinding
  <2>5. StoreOf(r) \in Stores /\ (case.given = "none" <=> StoreOf(r) # "given")
    BY RunsAssumption DEF StoreOf, Stores
  <2> HIDE DEF b
  <2> QED BY <1>2, <2>2, <2>3, <2>4, <2>5, InsertStep
<1> QED BY <1>3, <1>4 DEF Add

LEMMA SetterStep ==
    ASSUME IInv, NEW r \in Runs, NEW k \in DOMAIN store[StoreOf(r)],
           \/ \E part \in Parts : Configure(r, k, part)
           \/ ServeFunc(r, k)
    PROVE  IInv'
<1> DEFINE old == Binding(r, k)
<1>1. old \in Record
  BY StoreTyped DEF IInv, Binding
<1>2. case.given = "none" => StoreOf(r) = r /\ r \in Stores
  BY DEF StoreOf, Stores
<1>3. pc[r] = "onstart" /\ case.given = "none" => old.srv = "nil"
  BY <1>2 DEF IInv, SrvInv, Binding
<1>4. old.fn => old.parts = {} /\ (StoreOf(r) # "given" => old.srv = "nil")
  BY StoreTyped DEF IInv, SrvInv, Exclusive, Binding
<1>5. ASSUME NEW refused, NEW b \in Record, Setter(r, k, refused, b),
             b.listen = old.listen, b.by = old.by, b.srv = old.srv,
             ~refused => (b.fn => b.parts = {})
      PROVE  IInv'
  <2>1. Active(r) /\ pc[r] = "onstart" /\ UNCHANGED <<addr, field, snap, opened, up>>
    BY <1>5 DEF Setter, Active, serving
  <2>2. Orderly
    BY <1>5, <2>1, OrderlyGoto DEF Setter
  <2>3. CASE UNCHANGED store
    BY <2>2, <2>3, QuietStep
  <2>4. CASE ~refused /\ SetBinding(r, k, b)
    <3>1. StoreOf(r) # "given" => case.given = "none"
      BY DEF StoreOf
    <3>2. /\ b.fn => b.parts = {} /\ (StoreOf(r) # "given" => b.srv = "nil")
          /\ case.given = "none" => b.srv = "nil"
      BY <1>3, <1>5, <2>1, <2>4, <3>1
    <3> QED BY <1>5, <2>2, <2>4, <3>2, SetStep
  <2> QED BY <1>5, <2>3, <2>4 DEF Setter
<1>6. ASSUME NEW part \in Parts, Configure(r, k, part) PROVE IInv'
  <2> DEFINE b == [old EXCEPT !.parts = @ \cup {part}]
             refused == old.fn \/ (part \in {"mux", "404", "500"} \cap old.parts)
  <2>1. Setter(r, k, refused, b)
    BY <1>6 DEF Configure
  <2>2. /\ b \in Record /\ b.listen = old.listen /\ b.by = old.by /\ b.srv = old.srv
        /\ b.fn = old.fn
    BY <1>1 DEF Record
  <2>3. ~refused => ~b.fn
    BY <2>2
  <2> HIDE DEF b, refused, old
  <2> QED BY <1>5, <2>1, <2>2, <2>3
<1>7. ASSUME ServeFunc(r, k) PROVE IInv'
  <2> DEFINE b == [old EXCEPT !.fn = TRUE]
             refused == ~NothingSet(old)
  <2>1. Setter(r, k, refused, b)
    BY <1>7 DEF ServeFunc
  <2>2. /\ b \in Record /\ b.listen = old.listen /\ b.by = old.by /\ b.srv = old.srv
        /\ b.parts = old.parts
    BY <1>1 DEF Record
  <2>3. ~refused => b.parts = {}
    BY <2>2 DEF NothingSet
  <2> HIDE DEF b, refused, old
  <2> QED BY <1>5, <2>1, <2>2, <2>3
<1> QED BY <1>6, <1>7

LEMMA OpenStep == ASSUME IInv, NEW r \in Runs, OpenNext(r) PROVE IInv'
<1>k. PICK k : k = opened[r] + 1
  OBVIOUS
<1> DEFINE old == Binding(r, k)
<1>1. /\ pc[r] = "opening" /\ opened[r] < snap[r] /\ UNCHANGED <<case, addr, field, snap>>
      /\ IF old.fn THEN UNCHANGED store ELSE SetBinding(r, k, [old EXCEPT !.srv = r])
      /\ up' = up \cup {<<r, k, "new">>}
      /\ \/ opened' = [opened EXCEPT ![r] = k] /\ UNCHANGED pc
         \/ pc' = [pc EXCEPT ![r] = "closing"] /\ UNCHANGED opened
  BY <1>k DEF OpenNext, Wanted, Goto
<1>2. StoreOf(r) \in Stores /\ store[StoreOf(r)] \in Seq(Record)
  BY StoreTyped DEF IInv
<1>3. k \in DOMAIN store[StoreOf(r)] /\ k \in Nat
  <2>1. opened[r] \in Nat /\ snap[r] \in Nat /\ snap[r] <= Len(store[StoreOf(r)])
    BY DEF IInv, Types, UpInv
  <2>2. Len(store[StoreOf(r)]) \in Nat
    BY <1>2
  <2>3. k \in 1..Len(store[StoreOf(r)])
    BY <1>k, <1>1, <2>1, <2>2
  <2> QED BY <1>2, <2>3
<1>4. Orderly
  <2>1. Active(r) /\ <<r, k, "new">>[1] = r /\ <<r, k, "new">>[2] = k
    BY <1>1 DEF Active
  <2>2. \A x \in up' : \/ \E y \in up : y[1] = x[1] /\ y[2] = x[2]
                      \/ /\ x[1] \in Runs /\ Active(x[1])
                         /\ x[2] \in DOMAIN store[StoreOf(x[1])]
    <3> TAKE x \in up'
    <3>1. x \in up \/ x = <<r, k, "new">>
      BY <1>1
    <3> QED BY <1>3, <2>1, <3>1
  <2>3. opened' \in [Runs -> Nat] /\ snap' \in [Runs -> Nat]
    BY <1>1, <1>3 DEF IInv, Types
  <2> QED BY <1>1, <2>1, <2>2, <2>3 DEF Orderly, IInv, Types, UpInv, Active
<1>5. CASE old.fn
  BY <1>1, <1>4, <1>5, QuietStep
<1>6. CASE ~old.fn
  <2> DEFINE b == [old EXCEPT !.srv = r]
  <2>1. old \in Record
    BY <1>2, <1>3 DEF Binding
  <2>2. b \in Record /\ b.listen = old.listen /\ b.by = old.by /\ b.fn = old.fn
    BY <2>1 DEF Record
  <2>3. SetBinding(r, k, b)
    BY <1>1, <1>6
  <2>4. pc'[r] \in {"opening", "closing"}
    BY <1>1 DEF IInv, Types
  <2> HIDE DEF b
  <2> QED BY <1>3, <1>4, <1>6, <2>2, <2>3, <2>4, SetStep
<1> QED BY <1>5, <1>6

\* The steps that keep the bindings.
LEMMA OtherStep ==
    ASSUME IInv, NEW r \in Runs,
           \/ OnStartFails(r) \/ Snapshot(r) \/ ListenFails(r) \/ Ready(r) \/ Stop(r)
           \/ CloseNext(r) \/ End(r)
    PROVE  IInv'
<1>1. UNCHANGED store
  BY DEF OnStartFails, Snapshot, ListenFails, Ready, Stop, CloseNext, End
<1>2. CASE OnStartFails(r) \/ ListenFails(r) \/ Ready(r) \/ Stop(r) \/ End(r)
  <2>1. Active(r) /\ UNCHANGED <<addr, field, snap, opened>> /\ up' \subseteq up
    BY <1>2 DEF OnStartFails, ListenFails, Ready, Stop, End, Active, serving
  <2>2. Orderly
    BY <1>2, <2>1, OrderlyGoto DEF OnStartFails, ListenFails, Ready, Stop, End
  <2> QED BY <1>1, <2>2, QuietStep
<1>3. CASE Snapshot(r)
  <2>1. store[StoreOf(r)] \in Seq(Record)
    BY StoreTyped DEF IInv
  <2>2. Len(store[StoreOf(r)]) \in Nat
    BY <2>1
  <2>3. /\ UNCHANGED <<case, addr, field, opened, up>>
        /\ pc[r] = "onstart" /\ pc' = [pc EXCEPT ![r] = "opening"]
        /\ snap' = [snap EXCEPT ![r] = Len(store[StoreOf(r)])]
    BY <1>3 DEF Snapshot, Goto, serving
  <2>4. Orderly
    BY <2>2, <2>3 DEF Orderly, IInv, Types, UpInv, Active
  <2> QED BY <1>1, <2>4, QuietStep
<1>4. CASE CloseNext(r)
  <2>1. /\ UNCHANGED <<case, addr, field, pc, snap>> /\ up' \subseteq up
        /\ opened[r] > 0 /\ opened' = [opened EXCEPT ![r] = @ - 1]
    BY <1>4 DEF CloseNext
  <2>2. opened[r] \in Nat /\ opened[r] - 1 \in Nat
    BY <2>1 DEF IInv, Types
  <2>3. Orderly
    BY <2>1, <2>2 DEF Orderly, IInv, Types, UpInv, Active
  <2> QED BY <1>1, <2>3, QuietStep
<1> QED BY <1>2, <1>3, <1>4

\* A goroutine reads what to serve with.
LEMMA LoopStep == ASSUME IInv, NEW x \in up, ServeLoop(x) PROVE IInv'
<1>1. /\ UNCHANGED <<case, pc, addr, field, store, snap, opened>>
      /\ \A z \in up' : \E y \in up : y[1] = z[1] /\ y[2] = z[2]
  BY DEF ServeLoop
<1>2. Orderly
  BY <1>1 DEF Orderly, IInv, Types, UpInv, Active
<1> QED BY <1>1, <1>2, QuietStep

LEMMA NextIInv == IInv /\ [Next]_vars => IInv'
<1> SUFFICES ASSUME IInv, [Next]_vars PROVE IInv'
  OBVIOUS
<1>1. CASE UNCHANGED vars
  <2>1. Orderly
    BY <1>1 DEF vars, serving, Orderly, IInv, Types, UpInv, Active
  <2> QED BY <1>1, <2>1, QuietStep DEF vars
<1>2. CASE Next
  BY <1>2, AddEarlyStep, BeginStep, AddStep, SetterStep, OpenStep, OtherStep, LoopStep
     DEF Next
<1> QED BY <1>1, <1>2

LEMMA IInvAlways == Spec => []IInv
<1> QED BY InitIInv, NextIInv, PTL DEF Spec

\* No order of setter calls, of however many runs, makes a binding an HTTP pipeline
\* and a ServeFunc at once.
THEOREM SetupExclusive == Spec => []Exclusive
<1>1. IInv => Exclusive
  BY DEF IInv, SrvInv
<1> QED BY <1>1, IInvAlways, PTL

\* However many runs share a DefaultBindings, and whenever they resolve and add: a
\* binding that was not added before the first of them listens on the bind address.
THEOREM SetupListensWhereTold == Spec => []ListensWhereTold
<1>1. IInv => ListensWhereTold
  <2> SUFFICES ASSUME IInv, NEW x \in up
               PROVE  RightAddr(x[1], Binding(x[1], x[2])) /\ addr[x[1]] = ResolveBindAddress(x[1])
    BY DEF ListensWhereTold, RightAddr
  <2> QED BY DEF IInv, AddrInv, UpInv
<1> QED BY <1>1, IInvAlways, PTL

=============================================================================
