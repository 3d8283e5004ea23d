------------------------------- MODULE Setup -------------------------------
(***************************************************************************)
(* From Options to open listeners: how Start and Serve (scaffold.go)       *)
(* resolve the addresses (network.go) and the Bindings (bindings.go), what *)
(* OnStart may configure (binding.go), and which server belongs to whom    *)
(* when several runs are given the same Options.                           *)
(*                                                                         *)
(* Callbacks, deadlines and the drain of connections are Lifecycle's; the  *)
(* kernel (external) refuses a port that an overlapping address has, and   *)
(* net/http (external) closes the listener of a Serve that finds its       *)
(* server shut down.                                                       *)
(***************************************************************************)
EXTENDS Naturals, Sequences

CONSTANTS
    Runs,       \* calls of Start and Serve
    Names,      \* names of bindings
    Port,       \* Port[n]: the port n is added with
    Parts,      \* what the setters configure: "mws", "rpc", "mux", "404",
                \* "500", "tls", "timeouts"
    MaxConfig,  \* bound: setter calls
    Cases,      \* Options and machines: [given, bind, adv, machine, runs, entry]
    IPs,        \* the addresses net.ParseIP accepts; of these
    V6,         \*   the IPv6 ones,
    Zeros,      \*   all spellings of an unspecified address,
    Private     \*   those for which IsPrivate holds

ASSUME RunsAssumption == Runs \cap {"given", "nil", "caller", "late", "new", "fn"} = {}
ASSUME CasesAssumption ==
    \A c \in Cases : /\ c.given \in {"none", "default", "test"}
                     /\ c.machine \in Seq([ip : IPs, usable : BOOLEAN])

\* What net.IP says of the addresses the code names, and that no unspecified
\* address is private.
ASSUME AddressAssumption ==
    /\ {"0.0.0.0", "127.0.0.1"} \subseteq IPs /\ Private \subseteq IPs
    /\ "0.0.0.0" \in Zeros \ V6 /\ "127.0.0.1" \notin Zeros /\ Private \cap Zeros = {}

VARIABLES
    case,       \* Options.Bindings ("none", "default", "test"), the two
                \* addresses, the machine's interfaces, who runs, and by which
                \* entry ("start", "serve")
    pc,         \* pc[r]: "idle", "onstart", "opening", "up", "closing", "over",
                \* or "refused" or "panicked"
    addr, adv,  \* addr[r], adv[r]: DaemonConfig's two addresses
    field,      \* field[s]: bindAddr of store s, if it is a DefaultBindings
    store,      \* store[s]: the bindings of s in Add-order
    configs,    \* setter calls so far
    snap,       \* snap[r]: how many bindings orderedBindings returned
    opened,     \* opened[r]: how many of them r has open
    up,         \* <<r, k, w>>: r's listener on its k-th binding is open, and its
                \* goroutine has yet to run ("new"), is in a ServeFunc ("fn"), or
                \* in Serve of the server that run w made
    shut,       \* <<w, k>>: Shutdown of the server w made for binding k was called
    failed      \* history, <<r, k>>: r's readiness probe of binding k failed

serving == <<up, shut, failed>>
vars == <<case, pc, addr, adv, field, store, configs, snap, opened, serving>>

Stores == Runs \cup {"given"}
StoreOf(r) == IF case.given = "none" THEN r ELSE "given"

\* The implementation of Bindings r works with.
Kind(r) ==
    IF case.given # "none" THEN case.given
    ELSE IF case.entry[r] = "serve" THEN "default" ELSE "test"

Binding(r, k) == store[StoreOf(r)][k]

SetBinding(r, k, b) ==
    store' = [store EXCEPT ![StoreOf(r)] = [@ EXCEPT ![k] = b]]

-----------------------------------------------------------------------------
(***************************************************************************)
(* Plausible bugs                                                          *)
(***************************************************************************)

ErrHandlersIgnored(b) == b.parts \subseteq {"404", "500"}
SkipsFirst(r, k) == IF k = 1 THEN {} ELSE {<<w, k>> : w \in {Binding(r, k).srv} \ {"nil"}}
ForgetsLast(r) == IF snap[r] = 0 THEN 0 ELSE snap[r] - 1
KeepsCallersField(s, r) == IF case.given = "none" THEN addr'[r] ELSE field[s]
AnyFamily(a, f) == TRUE
NeverHas(s, n) == FALSE

-----------------------------------------------------------------------------
(***************************************************************************)
(* network.go                                                              *)
(***************************************************************************)

Nowhere == "none"
Family(a) == IF a \in V6 THEN 6 ELSE 4

IsTest(r) == Kind(r) = "test"

ResolveBindAddress(r) ==
    IF case.bind = "" THEN IF IsTest(r) THEN "127.0.0.1" ELSE "0.0.0.0"
    ELSE IF case.bind \in IPs THEN case.bind ELSE Nowhere

IsWildcard(a) == a \in {"0.0.0.0", "::", "0:0:0:0:0:0:0:0"}

OfFamily(a, f) == Family(a) = f

\* The first private address of the family, in the order of the interfaces.
AutoDetectAddress(f) ==
    LET m == case.machine
        fits == {i \in DOMAIN m : m[i].usable /\ OfFamily(m[i].ip, f) /\ m[i].ip \in Private}
    IN  IF fits = {} THEN Nowhere
        ELSE m[CHOOSE i \in fits : \A k \in fits : i <= k].ip

ResolveAdvertisedAddress(b) ==
    IF case.adv # "" THEN IF case.adv \in IPs THEN case.adv ELSE Nowhere
    ELSE IF ~IsWildcard(b) THEN b
    ELSE AutoDetectAddress(IF b = "0.0.0.0" THEN 4 ELSE 6)

-----------------------------------------------------------------------------
Init ==
    /\ case \in Cases
    /\ pc = [r \in Runs |-> IF r \in case.runs THEN "idle" ELSE "over"]
    /\ addr = [r \in Runs |-> Nowhere]
    /\ adv = [r \in Runs |-> Nowhere]
    /\ field = [s \in Stores |-> ""]
    /\ store = [s \in Stores |-> <<>>]
    /\ configs = 0
    /\ snap = [r \in Runs |-> 0]
    /\ opened = [r \in Runs |-> 0]
    /\ up = {}
    /\ shut = {}
    /\ failed = {}

Goto(r, l) ==
    /\ pc' = [pc EXCEPT ![r] = l]
    /\ UNCHANGED case

\* resolveBindings: a DefaultBindings gets the address, whoever made it.
FieldOf(s, r) == addr'[r]

\* Start and Serve up to the call of OnStart.
Begin(r) ==
    /\ pc[r] = "idle"
    /\ LET b == ResolveBindAddress(r)
           a == ResolveAdvertisedAddress(b)
       IN  IF b = Nowhere \/ a = Nowhere
           THEN Goto(r, "refused") /\ UNCHANGED <<addr, adv, field>>
           ELSE /\ Goto(r, "onstart")
                /\ addr' = [addr EXCEPT ![r] = b]
                /\ adv' = [adv EXCEPT ![r] = a]
                /\ field' = IF Kind(r) = "default"
                            THEN [field EXCEPT ![StoreOf(r)] = FieldOf(StoreOf(r), r)]
                            ELSE field
    /\ UNCHANGED <<store, configs, snap, opened, serving>>

-----------------------------------------------------------------------------
(***************************************************************************)
(* The store of bindings, and OnStart                                      *)
(***************************************************************************)

Has(s, n) == \E k \in DOMAIN store[s] : store[s][k].name = n

\* DefaultBindings.Add and TestBindings.Add
ListenAddr(s, kind, n) ==
    IF kind = "default" THEN [host |-> field[s], port |-> Port[n]]
                        ELSE [host |-> "127.0.0.1", port |-> 0]

NewBinding(s, kind, n, who) ==
    [name |-> n, listen |-> ListenAddr(s, kind, n), by |-> who,
     parts |-> {}, fn |-> FALSE, srv |-> "nil"]

Insert(s, kind, n, who) ==
    store' = [store EXCEPT ![s] = Append(@, NewBinding(s, kind, n, who))]

\* The caller adds to the Bindings it made before it passes them on.
AddEarly(n) ==
    /\ case.given # "none" /\ \A r \in case.runs : pc[r] = "idle"
    /\ ~Has("given", n)
    /\ Insert("given", case.given, n, "caller")
    /\ UNCHANGED <<case, pc, addr, adv, field, configs, snap, opened, serving>>

\* OnStart adds a binding, or a callback does when it is too late; a name that is
\* taken makes Add panic, and Start with it.
Add(r, n) ==
    /\ pc[r] \in {"onstart", "up"}
    /\ IF Has(StoreOf(r), n)
       THEN pc[r] = "onstart" /\ Goto(r, "panicked") /\ UNCHANGED store
       ELSE /\ Insert(StoreOf(r), Kind(r), n, IF pc[r] = "onstart" THEN r ELSE "late")
            /\ UNCHANGED <<case, pc>>
    /\ UNCHANGED <<addr, adv, field, configs, snap, opened, serving>>

\* OnStart calls a setter of a binding it added or got.
Setter(r, k, refused, b) ==
    /\ pc[r] = "onstart" /\ configs < MaxConfig
    /\ configs' = configs + 1
    /\ IF refused
       THEN Goto(r, "panicked") /\ UNCHANGED store
       ELSE /\ SetBinding(r, k, b)
            /\ UNCHANGED <<case, pc>>
    /\ UNCHANGED <<addr, adv, field, snap, opened, serving>>

\* UseMiddleware, AddRPC, SetMux, SetErrorHandler, SetTLS and SetTimeouts
Configure(r, k, part) ==
    LET b == Binding(r, k)
    IN  Setter(r, k, b.fn \/ (part \in {"mux", "404", "500"} \cap b.parts),
               [b EXCEPT !.parts = @ \cup {part}])

NothingSet(b) == b.parts = {}

ServeFunc(r, k) ==
    LET b == Binding(r, k)
    IN  Setter(r, k, ~NothingSet(b), [b EXCEPT !.fn = TRUE])

OnStartFails(r) ==
    /\ pc[r] = "onstart"
    /\ Goto(r, "over")
    /\ UNCHANGED <<addr, adv, field, store, configs, snap, opened, serving>>

-----------------------------------------------------------------------------
(***************************************************************************)
(* Opening and closing                                                     *)
(***************************************************************************)

\* orderedBindings
Snapshot(r) ==
    /\ pc[r] = "onstart"
    /\ Goto(r, "opening")
    /\ snap' = [snap EXCEPT ![r] = Len(store[StoreOf(r)])]
    /\ UNCHANGED <<addr, adv, field, store, configs, opened, serving>>

Unspecified(h) == h = "" \/ h \in Zeros

Busy(l) ==
    \E x \in up : LET m == Binding(x[1], x[2]).listen
                  IN  /\ l.port # 0 /\ l.port = m.port
                      /\ l.host = m.host \/ Unspecified(l.host) \/ Unspecified(m.host)

\* How many bindings openBindings goes through.
Wanted(r) == snap[r]

\* Listen fails: what is open is closed.
ListenFails(r) ==
    /\ pc[r] = "opening" /\ opened[r] < Wanted(r)
    /\ Goto(r, "closing")
    /\ UNCHANGED <<addr, adv, field, store, configs, snap, opened, serving>>

\* Listen, the server and the goroutine, and then the readiness probe.  A binding
\* whose probe fails is not among those that are closed.
OpenNext(r) ==
    LET k == opened[r] + 1
        b == Binding(r, k)
    IN  /\ pc[r] = "opening" /\ opened[r] < Wanted(r)
        /\ ~Busy(b.listen)
        /\ IF b.fn THEN UNCHANGED store ELSE SetBinding(r, k, [b EXCEPT !.srv = r])
        /\ up' = up \cup {<<r, k, "new">>}
        /\ \/ /\ opened' = [opened EXCEPT ![r] = k]
              /\ UNCHANGED <<case, pc, failed>>
           \/ /\ Goto(r, "closing")
              /\ failed' = failed \cup {<<r, k>>}
              /\ UNCHANGED opened
        /\ UNCHANGED <<addr, adv, field, configs, snap, shut>>

\* runBindingServeLoop reads b.serveFunc and b.srv when the goroutine gets to run,
\* whatever they are by then.  A server that was shut down returns at once, and so
\* does a ServeFunc whose cleanup is over; either closes the listener.
ServeLoop(x) ==
    LET b == Binding(x[1], x[2])
        server == IF b.fn THEN "fn" ELSE b.srv
        returns == IF b.fn THEN pc[x[1]] = "over" ELSE <<b.srv, x[2]>> \in shut
    IN  /\ x[3] = "new"
        /\ up' = (up \ {x}) \cup (IF returns THEN {} ELSE {<<x[1], x[2], server>>})
        /\ UNCHANGED <<case, pc, addr, adv, field, store, configs, snap, opened, shut,
                       failed>>

Ready(r) ==
    /\ pc[r] = "opening" /\ opened[r] = Wanted(r)
    /\ Goto(r, "up")
    /\ UNCHANGED <<addr, adv, field, store, configs, snap, opened, serving>>

Stop(r) ==
    /\ pc[r] = "up"
    /\ Goto(r, "closing")
    /\ UNCHANGED <<addr, adv, field, store, configs, snap, opened, serving>>

\* shutdownBinding: Shutdown of whatever server the binding points to closes the
\* listeners that server serves.
ShutBy(r, k) == {<<w, k>> : w \in {Binding(r, k).srv} \ {"nil"}}

CloseNext(r) ==
    /\ pc[r] = "closing" /\ opened[r] > 0
    /\ shut' = shut \cup ShutBy(r, opened[r])
    /\ up' = {x \in up : <<x[3], x[2]>> \notin ShutBy(r, opened[r])}
    /\ opened' = [opened EXCEPT ![r] = @ - 1]
    /\ UNCHANGED <<case, pc, addr, adv, field, store, configs, snap, failed>>

\* Cleanup functions close what a ServeFunc was given.
End(r) ==
    /\ pc[r] = "closing" /\ opened[r] = 0
    /\ Goto(r, "over")
    /\ up' = {x \in up : x[1] # r \/ x[3] # "fn"}
    /\ UNCHANGED <<addr, adv, field, store, configs, snap, opened, shut, failed>>

Next ==
    \/ \E n \in Names : AddEarly(n)
    \/ \E x \in up : ServeLoop(x)
    \/ \E r \in Runs :
        \/ Begin(r)
        \/ \E n \in Names : Add(r, n)
        \/ \E k \in DOMAIN store[StoreOf(r)] :
            \/ \E part \in Parts : Configure(r, k, part)
            \/ ServeFunc(r, k)
        \/ OnStartFails(r)
        \/ Snapshot(r)
        \/ ListenFails(r)
        \/ OpenNext(r)
        \/ Ready(r)
        \/ Stop(r)
        \/ CloseNext(r)
        \/ End(r)

Spec == Init /\ [][Next]_vars

-----------------------------------------------------------------------------
(***************************************************************************)
(* Properties                                                              *)
(***************************************************************************)

\* Every variable keeps its type, the bindings of a store have different names
\* (bindings.go:45), and a run opens no more than the snapshot it took.
TypeOK ==
    /\ pc \in [Runs -> {"idle", "onstart", "opening", "up", "closing", "over", "refused",
                        "panicked"}]
    /\ \A r \in Runs : addr[r] \in IPs \cup {Nowhere} /\ adv[r] \in IPs \cup {Nowhere}
    /\ \A s \in Stores : field[s] \in IPs \cup {""}
    /\ \A s \in Stores : \A k, l \in DOMAIN store[s] :
            k # l => store[s][k].name # store[s][l].name
    /\ \A r \in Runs : opened[r] <= snap[r] /\ snap[r] <= Len(store[StoreOf(r)])
    /\ \A x \in up : /\ x[1] \in Runs /\ x[2] \in 1..snap[x[1]]
                     /\ x[3] \in Runs \cup {"new", "fn"}

\* Whatever order the setters are called in, also of a binding another run looks
\* up with Get, no binding has both a ServeFunc and a part of an HTTP pipeline
\* that would be dead (binding.go:56, 153); nor has it a server, unless another
\* run has opened it already.
Exclusive ==
    \A s \in Stores : \A k \in DOMAIN store[s] :
        store[s][k].fn =>
            /\ store[s][k].parts = {}
            /\ s # "given" => store[s][k].srv = "nil"

\* A run that is up has one listener open on every binding its OnStart added, and no
\* other run has one; its own server or a ServeFunc serves it, or will once the
\* goroutine runs.  That is so even when another run adds to the same Bindings, opens
\* them and stops: it is the port of a binding that keeps the two runs apart.  (Where
\* the kernel chooses the port nothing does.)
ServesWhatItAdded ==
    \A r \in Runs : pc[r] = "up" =>
        \A k \in DOMAIN store[StoreOf(r)] :
            LET b == Binding(r, k)
                open == {x \in up : x[2] = k /\ StoreOf(x[1]) = StoreOf(r)}
            IN  b.by = r /\ (case.given = "none" \/ b.listen.port # 0) =>
                    \/ open = {<<r, k, r>>}
                    \/ open = {<<r, k, "fn">>}
                    \/ /\ open = {<<r, k, "new">>}
                       /\ b.fn \/ (b.srv = r /\ <<r, k>> \notin shut)

\* A listener of a run that is over is still served only if the readiness probe of
\* its binding failed (scaffold.go:569), or another run was given the same Bindings,
\* the kernel chooses the port, and the other run put its own server in the place of
\* this one (scaffold.go:563).
StopStopsOwn ==
    \A x \in up : pc[x[1]] = "over" /\ x[3] # "new" =>
        LET b == Binding(x[1], x[2])
        IN  \/ <<x[1], x[2]>> \in failed
            \/ case.given # "none" /\ b.listen.port = 0 /\ b.srv \in Runs \ {x[1]}

\* A binding added once Options are resolved listens on the bind address ("the
\* caller's address selection is honoured even when the caller constructed the
\* DefaultBindings directly", scaffold.go:494), and one of a TestBindings on the
\* loopback interface, where it takes no port from anybody.
ListensWhereTold ==
    \A x \in up : LET b == Binding(x[1], x[2])
                  IN  IF Kind(x[1]) = "test"
                      THEN b.listen = [host |-> "127.0.0.1", port |-> 0]
                      ELSE b.by # "caller" => b.listen.host = addr[x[1]]

\* Connections to a reach a listener on h.
Reaches(a, h) == h = a \/ h \in {"", "::", "::0", "0:0:0:0:0:0:0:0"}
                 \/ (Unspecified(h) /\ Family(a) = 4)

\* An advertised address nobody configured leads to every listener of the run, and
\* is a concrete address unless the bind address is a wildcard in a spelling
\* isWildcard does not know.  (TestBindings ignore a configured bind address.)
AdvertisedIsServed ==
    \A x \in up :
        LET r == x[1]
        IN  case.adv = "" /\ (Kind(r) = "test" => case.bind = "") =>
                /\ Reaches(adv[r], Binding(r, x[2]).listen.host)
                /\ adv[r] \in Zeros => addr[r] \in Zeros /\ ~IsWildcard(addr[r])

=============================================================================
