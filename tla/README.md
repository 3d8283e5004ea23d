# A model of scaffold

TLA+ specifications of `scaffold.go`: the library that runs the life of a Go
daemon (configuration, start, listeners, requests, orderly shutdown). The modules
are translated from the Go sources; TLC checks them on small instances and TLAPS
proves their safety properties for instances of any size.

- [The system](#the-system) · [Modules](#modules) · [Runs](#runs) ·
  [Fairness](#fairness) · [Proofs](#proofs) · [Disagreements](#disagreements) ·
  [Not modelled](#not-modelled) · [Plan](#plan)

## The system

| Component | Source | State | Operations | Talks to |
|---|---|---|---|---|
| Lifecycle | `scaffold.go` | the order of the bindings, the listeners and servers, the shutdown-requested flag, `Instance.once`, the callback lists | `Start`, `Serve`, `Instance.Stop`, `AddOnListenReady`, `AddBeforeShutdown`, and inside them `openBindings`, `runCallbacks`, `runShutdown`, `runBindingServeLoop` | calls the user's `Daemon`, the probe, the servers and the cleaner; a goroutine per binding shares the flag |
| Port probe | `port_wait.go` | deadline | `waitForListener` | dials the listener, watches the start context and the clock |
| Cleaner | `cleaner.go` | stack, `running`, `done`, a mutex | `Add`, `Clean` | called from `OnStart`, from handlers, and last by `runShutdown` |
| Bindings | `bindings.go`, `binding.go` | names in Add order; per binding its address, the middleware, RPC handlers, mux, error handlers, TLS, timeouts or `ServeFunc`, and the server | `Add`, `Get`, the setters, `orderedBindings`, `buildHandler` | configured in `OnStart`, read by the lifecycle, shared by runs that are given the same Options |
| Network identity | `network.go`, `scaffold.go` | `BindAddress` and `AdvertisedAddress` of a run | `resolveBindAddress`, `resolveAdvertisedAddress`, `resolveBindings` | reads Options and the interfaces, writes the address of a `DefaultBindings` |
| Request path | `binding.go`, `middleware.go`, `error_handler.go` | the wrappers of one response | dispatcher, `PanicRecovery`, error replies | called by `net/http`, calls user code |
| Metrics | `prometheus/` | the process-wide cache of collectors; the wrapper of one response | `HTTPMetrics`, `collectorsFor`, `responseWriter` | a middleware; registers with a Prometheus registry |
| Configuration | `config.go`, `config_map.go`, `config_file.go` | none of its own: the environment, a map, a directory | twelve lookups per provider | called by user code at any time, while others write the source |
| Helpers | `handlers.go`, `context.go`, `logger.go`, `http_wire.go` | none | health and readiness handlers, context values, default logger | used by the others |

What is hard here: a shutdown can begin on four different paths (a failed start,
a signal, a cancelled context, one of several callers of `Stop`) and at any
point of the startup; every binding has a goroutine of its own, which may be
scheduled before or after anything the driver does; deadlines pass at any time;
user code fails, panics, registers more callbacks from callbacks. What makes the
components correct:

- **Lifecycle**: bindings close one at a time in reverse order whatever fails;
  `OnStop` and the cleaner come after them and always; whoever waits for the end
  gets it, and not before; an expected return of a serve loop is told from a
  surprise; the ports are given back.
- **Cleaner**: what `Add` accepted runs once, newest first, under any race of
  `Add` and `Clean` and after any panic.
- **Setup**: a binding is an HTTP pipeline or a `ServeFunc`, in whatever order it is
  configured; it listens where the Options say and the advertised address leads
  there; a run that is up serves what it added, and nobody else does; one that is
  over has left nothing but a binding whose probe failed, or one whose server another
  run has replaced.
- **Configuration**: a value is one the source held during the call, a failure has
  its reason there, and a fallback from garbage is logged.
- **Request path**: a request gets one answer; a panic is answered if nothing was
  sent, and never reaches `net/http` from inside `PanicRecovery`.
- **Metrics**: one collector set per registerer, which is really gathered; the
  status that is counted is the one that was sent.

`PROJECT.json` lists the hazards with their lines and the properties aimed at
each.

## Modules

| Module | Models | Notes |
|---|---|---|
| `CleanerSpec` | what a Cleaner promises | a pile that is filled, closed once and run from the top |
| `Cleaner` | `cleaner.go` | one process per goroutine; `Clean` is split at its two critical sections and at each turn of its loop |
| `DaemonSpec` | what the life of a daemon promises | stages up, down, hook, clean, over; instantiates `CleanerSpec` |
| `Lifecycle` | `scaffold.go`, `port_wait.go` | instantiates `CleanerSpec` as its cleaner; see below |
| `Setup` | `network.go`, `bindings.go`, the setters of `binding.go`, the parts of `scaffold.go` that connect them | one process per run; see below |
| `Config` | `config.go`, `config_map.go`, `config_file.go` | one call after another against a source that changes |
| `Collectors` | `collectorsFor` | one process per call of `HTTPMetrics`; `Load`, `LoadOrStore` and the registration of each collector are steps |
| `Request` | `buildHandler`, `PanicRecovery`, `HTTPMetrics`, both response writers | one request, step by step |
| `MCCleaner`, `MCLifecycle`, `MCSetup`, `MCConfig`, `MCRequest` | the small instances | |
| `CleanerProofs`, `LifecycleProofs`, `CollectorsProofs`, `ConfigProofs`, `RequestProofs` | the theorems about each component | |
| `SetupProofs`, `SetupServesProofs` | the theorems about `Setup` | the second builds on the invariant of the first |

The modules fit together through the promises: `Cleaner` is shown to implement
`CleanerSpec`, and `Lifecycle` uses `CleanerSpec` where the code calls the
cleaner, so that the interleavings inside `Clean` need not be repeated in it.
`Lifecycle` with its cleaner is in turn shown to implement `DaemonSpec`.
`Setup` looks at the same `openBindings` and `runShutdown` from another side:
`Lifecycle` follows one run through probes, deadlines and callbacks with bindings
that are just names, `Setup` follows several runs with bindings that have addresses,
parts and servers; there a probe succeeds or fails, and that is all of it.

### Lifecycle

`pc` is where the goroutine is that drives the daemon: the caller of `Serve`, or
of `Start` and afterwards the `Stop` call that wins `sync.Once`. Its labels
follow the code: `onstart`; `open`, `probe`, `dial`, `sleep` (`openBindings` and
`waitForListener`); `onready`; `up` or `notify` and `select`; `before`, `close`,
`drain`, `onstop`, `clean`, `cleaning` (`runShutdown`); `returned`. `killed` and
`panicked` are the ends nobody handles: a signal before `signal.Notify`, a panic
of `OnStart`.

| State | In the code |
|---|---|
| `order`, `opened`, `idx` | the bindings in Add order, how many are in `opened`, the index of `runShutdown`'s loop |
| `lis[b]`, `loop[b]`, `shut[b]`, `busy[b]` | the socket, the serve goroutine, `http.Server.Shutdown`, the connections that are not idle |
| `cause[b]` | history: why the serve loop returned, to compare with what `Classify` says |
| `flag`, `once`, `stop[s]` | the `atomic.Bool`, the `sync.Once`, the callers of `Stop` |
| `callerDone`, `startExpired`, `stopExpired`, `notified`, `sig` | contexts, deadlines, the signal channel |
| `regd`, `fired` | the two callback lists: length and position |
| `failed`, `shutErr` | startup failed; `runShutdown` collected an error |

A failing `OnStart`, a bind failure and a failed probe all go through `Abort`,
as they all go through `runShutdown(..., nil, opened, ...)`. `net/http` is
external: `Shutdown` closes the listener if `Serve` has registered it, keeps a
later `Serve` from starting, and returns when no connection is busy or the
context is done.

`StopInside` is a callback, `OnStop` or a cleanup function that calls `Stop` on its
own `Instance`. `sync.Once` is not re-entrant, so the winner of `once.Do` waits for
itself: `once` becomes `"stuck"`, the driver never moves again, and neither does a
caller of `Stop`.

Abstractions: a callback is a position in its list, so that only its order,
registration and completion count (a panic is recovered and looks like a
return); the code below `Options` (defaults, addresses) has run; user code calls
`Clean` only through `runShutdown`; handlers call `AddBeforeShutdown` only before
the shutdown starts (later it is a data race on the slice).

### Setup

`Runs` are calls of `Start` and `Serve`, all with the same Options: the constant
`Cases` lists what these may say and the machine they run on. A run makes its own
`Bindings` or works on the caller's (`StoreOf`); `Kind` is the implementation.

| State | In the code |
|---|---|
| `case` | `Options`, the interfaces, who runs, and by which of the two entry points |
| `pc[r]` | `OnStart`, `openBindings`, serving, `runShutdown`; `refused` is an address that does not resolve, `panicked` a panic of `Add` or a setter |
| `addr[r]`, `adv[r]` | `DaemonConfig.BindAddress` and `AdvertisedAddress` |
| `field[s]` | `DefaultBindings.bindAddr` |
| `store[s][k]` | a `Binding`: name, `ListenAddr`, what was configured, `serveFunc`, and `srv`, the run whose `http.Server` it points to; `by` is history |
| `snap[r]`, `opened[r]` | what `orderedBindings` returned; `opened` |
| `up` | the open listeners: of which run, on which binding, and whether the goroutine has yet to run (`new`), is in the `ServeFunc` (`fn`) or in `Serve` of the server some run made |
| `shut` | the servers whose `Shutdown` was called |
| `failed` | history: the bindings whose probe failed, and in which run |

`Begin` is everything before `OnStart`: the two addresses and `resolveBindings`,
which writes the address into a `DefaultBindings` whoever made it. During `OnStart`
runs add and configure in any interleaving, also bindings another run added
(`Get`). `OpenNext` is a turn of the loop of `openBindings`: it overwrites `srv`, spawns
the goroutine, and when the probe fails it gives up without counting the binding among
those that `runShutdown` closes. `ServeLoop` is the goroutine: it reads the binding when
it gets to run, which may be after the run is over or after another run has put its own
server there. `CloseNext` shuts the server it finds in the binding, as
`shutdownBinding` does. Listen, the assignment and the `go` statement are one step: where
two runs may both listen, on ports the kernel chooses, only the order of the assignments
can be told from what is read later. External are
the kernel, which refuses a port that an overlapping address holds (`Busy`) and may
refuse any (`ListenFails`); `net/http`, where `Serve` of a server that was shut down
closes the listener and returns; and a `ServeFunc`, which is assumed to close its listener when
the cleanup functions of its run tell it to, or at once when they ran before it.

### Config

A provider has no state; `held` is the source. A call is three steps: it is made,
it reads (`lookup`, `readKey`), it parses and answers. Between them a variable may
be set, or the whole directory replaced, emptied, or made unreadable; a file
that is rewritten in place shows as one more content. `seen` is history: what the
source held for the key since the call began. The properties are stated on `seen`
without the operators the code is translated to.

### Request

`d` is the depth of control in the middleware chain, from 1 (outermost) to
`Len(chain) + 1` (the dispatcher). Code at depth `d` writes through the wrappers
at the depths below `d`. `noted[k]` is what wrapper `k` has seen (`status` of
the metrics wrapper, `written` of the panic tracker), `status` what the client
got. User code is any sequence of at most `MaxOps` operations, a panic or a
return, at each of its places: middleware before and after `next`, RPC
handlers, the mux, registered error handlers. It is polite as the header of the
module says, otherwise almost nothing could be said of the answer.

## Runs

| Run | Instance | Shows |
|---|---|---|
| `cleaner` | 3 goroutines, 3 functions | order, exactly-once, exclusivity and exhaustion of the stack; implements `CleanerSpec` |
| `daemon` | 2 HTTP bindings, one with a bad TLS config; both entry points, both timeouts; 1 failed dial per probe; 2 callbacks per phase; 1 busy connection per binding; 2 callers of `Stop` | `Start` and `Serve` on all their paths, concurrent `Stop`, callbacks that register callbacks; what is left at the end, that every step brings the end nearer, and that `Stop` does not answer nil when it has abandoned a connection; implements `DaemonSpec` |
| `live` | 1 HTTP and 1 `ServeFunc` binding, both entry points, 2 callers of `Stop`, an `OnStopTimeout`; no callbacks, no failed dials | shutdown ends, triggers and callers are answered, ports are released; the refinement again, with a binding nobody shuts down |
| `setup` | 1 run with every sort of address and machine, 2 runs with no, a default or a test `Bindings`; one name on a port and one where the kernel chooses it; 2 setter calls; any listener refused, any probe failed, goroutines as late as can be | setters exclude each other, addresses lead where they should, runs do not take each other's bindings, what a run leaves when it is over |
| `config` | 1 good key and 1 that leads out of the directory; 7 contents; 1 change during a call | values are current, failures are explained, for all twelve methods of all three providers |
| `collectors` | 3 calls, 2 registerers, any names taken beforehand | racing calls of `HTTPMetrics` |
| `requests` | 18 chains of up to 3 middlewares, 2 RPC handlers, every mux, 2 operations of user code of every kind | one answer; the counted status is the sent one; a panic is answered with 500 and contained |

Five more runs show [disagreements](#disagreements).

Why the bounds are enough. The properties of the lifecycle relate two bindings,
two callers of `Stop`, or a binding and the driver; two bindings give an opened
and an unopened one, a drained and an undrained one, a closed one and one that is
skipped; the proofs cover any number. One busy connection holds a `Shutdown` as well as many
do. A second failed dial meets the same state as the first. Two callbacks are one that
runs and one that it registers. In `setup` two runs are enough for one to take
what belongs to the other, and the addresses are one of each sort the code tells
apart: none, both wildcards and a third spelling, loopback, private of either
family, public, and text that is no address. Two setter calls are a part and what
excludes it; the parts are one of the setters that may be called again and one
that may not. Runs are interchangeable (`RunsAreAlike`): the cases come for each of them.
In `config` the texts are read by all kinds, by some, by none; the
endings none, one of each sort, and two; a second change during a call shows a
content the first could have brought. For `Request`, all pairs of neighbours and the
triples that differ from pairs (`PanicRecovery` around itself, user code between
scaffold's middlewares) are in `AllChains`; two operations, by the same piece of
user code or by two, are an answer and one that comes too late, or an
informational status or a flush and what follows it. The theorems lift every safety property
from these bounds.

Deadlock is not checked: a daemon whose `Stop` has returned, a `Clean` that is
over, a run that is over and a request that is answered stop for good. That nothing stops earlier is
what `live` and `EventuallyGathered` show.

Every property is tried against a mutation of the modelled code (`mutants` in
`PROJECT.json`; the mutated operators stand at the head of each module).

## Fairness

- The driving goroutine runs: `WF(Driver)`. Callbacks, `OnStop` and cleanup
  functions return unless they call `Stop` themselves (`StopInside`, after which
  `Driver` is disabled; `ShutdownTerminates` and `StopCallersReturn` except it, and
  `stop_inside` shows that they must), dials and sleeps end. `OnStart` need not return and nobody
  needs to stop the daemon.
- A serve loop runs when it was spawned, returns after `Shutdown` closed its
  listener (`net/http` does), and goes on to read the flag. A `ServeFunc` need
  never return, a loop nobody shut down need not fail.
- A caller of `Stop` that waits in `sync.Once` wakes up when the winner is done.
- The deadline of the shutdown context passes, where one is set (`"stop"` in
  `Timeouts`). Without it `ShutdownTerminates` is false, and rightly so: nothing
  in the code ends a drain while a connection stays busy. For the same reason it
  excepts a `Start` that failed: its shutdown runs on the context of its caller,
  who need not cancel it.
- Connections, signals and cancellations are never fair.
- `Collectors`: a call that has begun goes on. `Cleaner`: a `Clean` that has begun
  goes on. `Setup` and `Config` claim no liveness: `OnStart` may take for ever, and a
  lookup has no loop. `Request` claims no liveness: user code may run for ever.

## Proofs

All proofs are checked by `tlapm` without omissions. Every invariant and every action
property of a passing run is a theorem, and so are both refinements. The proofs
assume only the named `ASSUME`s:

| Module | Assumed of the constants |
|---|---|
| `Lifecycle` | the sets of bindings are finite and disjoint, the bounds are natural numbers |
| `Collectors` | the two markers are not calls |
| `Setup` | no run has the name of a marker; Options hold no, a default or a test `Bindings`; an interface has an address and is usable or not; `0.0.0.0` is an unspecified IPv4 address, `127.0.0.1` is not unspecified, and neither is a private one |
| `Config` | contents are texts with line endings |
| `Request` | chains are made of the three kinds of middleware, bounds are natural numbers, no final status is 0 or 103 |

- **Cleaner** (`CleanerProofs`): types, `LIFO`, `NilMeansAllRan`,
  `OneCleanAccepted`, and the refinement of `CleanerSpec`. The invariant says that
  `running` holds exactly while one
  goroutine is in the loop, and that the history of runs and what is left of its
  snapshot together are everything that was registered; `LIFO` says nothing
  about what is left and is not inductive without it.
- **Lifecycle** (`LifecycleProofs`): types, `SerialReverse`,
  `DrainedBeforeOnStop`, `InducedExitIsExpected`, `CallbacksComplete`,
  `StopReturnsAfterShutdown`, `CleanerAlwaysRuns`, and the refinement of
  `DaemonSpec`. `IInv` has one part per property. `CloseInv` is the heart: it
  says for every label of the driver which `Shutdown`s have returned, which one
  is under way and which have not begun, as a function of the loop index;
  `SerialReverse` follows from the index going down, `DrainedBeforeOnStop` from
  the index being 0. `FlagInv` says that the flag is up before anything happens
  that could make a serve loop return. `AbandonedIsReported` compares a step with what
  the shutdown did long before it: `DrainInv` carries from the end of a `Shutdown` to
  the answer of `Stop` that a binding with a busy connection has left an error behind, and
  nobody takes one back.

  The last section says what a shutdown leaves and why it ends. `SpawnInv` finds for
  every goroutine its place in `order`, at most one beyond `opened`, and gives
  `OnlyProbedIsLeft`: `leak_on_failure` is as far as the leak goes.
  `ShutdownDescends` is the half of `ShutdownTerminates` that needs no fairness, a
  measure (stage, turns left in its loop) in natural numbers that the driver
  lowers with every step of `runShutdown` and nobody else raises; what remains for
  TLC is that the driver is not held up in between. `NobodyWaitsInVain` says of a
  caller in `once.Do` that another caller is running the sequence, or has run it.
- **Collectors** (`CollectorsProofs`): types, `OneSetPerRegisterer`,
  `OwnNamesNeverClash`. The invariant says that every call has the cached set and
  that only the call whose set is cached registers. `BoundUnlessTaken` is the
  counterpart of `unregistered`: what `metrics.go` says of a repeated call is true of
  every registerer on which no name was taken, from the moment the call that built the
  set is back. `OwnerInv` adds what that call has registered already.
- **Setup** (`SetupProofs`): `Exclusive` and `ListensWhereTold`, for any number of runs
  that share their Bindings in any way. Neither is inductive: a setter is safe because
  a pipeline and a `ServeFunc` have never met before, and a server only appears on a
  binding that has no `ServeFunc` or is shared. `Orderly` gathers what
  steps that begin no run may do to the runs and their servers, so that each action
  has to show only what it does to one binding. `ListensWhereTold` needs more:
  a binding takes its host from the field of its store when it is *added*, and serves
  much later. `AddrInv` says that a run that has begun has the address its Options
  resolve to and that the field of its store holds it; `RightAddr` that every binding
  no caller added has this host.
- **Setup, who serves what** (`SetupServesProofs`): types, `ServesWhatItAdded`,
  `StopStopsOwn` and `AdvertisedIsServed`. A shutdown finds a server through the
  binding, and another run may have put its own there, so what keeps the two apart
  has to be said at every moment between. `OwnInv` says it of every listener: its probe
  failed, or another run that shares the binding has replaced its server, or it is `Serves`:
  its own server or a `ServeFunc` has it or will have it, and once the loop of the shutdown
  is past it only a `ServeFunc`, or a goroutine that will return at once. `OpenInv` is the
  converse, from `opened` to the listeners, and `OnceInv` says that a binding that has a
  port, or is in a store of its own, has one: two runs that share a store differ in nothing
  but their ports, and `Busy` keeps the second from opening what the first holds. What
  `OwnInv` needs to survive a late goroutine is in `PointInv` (a binding points to the
  server of a run that has come to it) and `PastInv` (a server is shut down only when the
  loop of its own run is past it, unless it was replaced); `MineInv` and `LoopInv` relate
  stores and loops. `AdvInv` and
  `CallerInv` (a binding the caller added has no host, since no run had resolved its
  Options) are for `AdvertisedIsServed`. Its lemma `FirstFit`, that the scan of the
  interfaces finds the first that fits or none, is the one place where a proof needs
  induction, by the least counterexample of a well-founded relation.
- **Config** (`ConfigProofs`): types, `ValueIsCurrent` and `FailureIsExplained`, for any
  keys, contents and number of changes. The invariant says that what a call has read is
  what one of the entries in `seen` offers; it survives a rotation since `seen` only
  grows during a call. The lemmas on `Trim` carry the comparison of the code's line
  endings with those the property counts. `Handed` says what is in hand between two
  steps of a call, on which the types of its answer depend.
- **Request** (`RequestProofs`): types, `OneAnswer`, `RecordedIsSent`, `PanicIsAnswered`
  and `PanicContained`, for chains of any length. All but the last relate what is sent
  to what each wrapper has noted, and a wrapper stops noting when control leaves it.
  `PlaceInv` says which code can run at which depth. `NotedInv` says of the wrappers
  that are still around what runs (`Around`) that they have noted whatever was sent,
  unless there was a flush, and of all wrappers that what they noted was sent, unless
  it was informational or the connection was taken; `OneAnswer` is the case of a
  `PanicRecovery` that is about to answer. `CountInv` sharpens this to the very status,
  where nothing parts the two (`Regular`), and follows a counted status up the chain:
  once it is counted nothing outside can send another, if no user middleware is
  outside (`Shielded`). `SilentInv` says that after a panic with nothing sent the 500 is
  sent or on its way, `PanicInv` that no `PanicRecovery` lies between a panic on its way
  up and the code that raised it.

Only model-checked: the liveness properties `ShutdownTerminates`, `TriggerHonoured`,
`PortsReleased`, `StopCallersReturn`, `StackExhausted` and `EventuallyGathered`. They need
fairness and with it ENABLED, which are out of the prover's reach.

## Disagreements

Found while modelling; each of these has a run that TLC refutes.

| Run | Code | Says otherwise |
|---|---|---|
| `leak_on_failure` | a binding whose probe fails is not in `opened`: it is still served after `Start` has returned the error | `docs/features/mvp/prd.md:417` |
| `stop_inside` | a callback, `OnStop` or a cleanup function that calls `Stop` waits for itself, and every other caller with it, whatever the deadline | `scaffold.go:140` |
| `unregistered` | after a panic of `MustRegister` the unregistered set stays in the cache | `prometheus/metrics.go:41` |
| `flush_then_panic` | `Flush` is not taken for a response: a panic after it is answered again | `middleware.go:22` |
| `hijack_refused` | `ResponseController.Hijack` fails in the recommended chain | `middleware.go:76` |

Smaller ones, of which no run is kept:

- `Serve` returns `ExitSuccess` when `OnStop` or the cleaner fails
  (`docs/features/mvp/prd.md:113` has `ExitFailure`).
- A binding the caller adds to a `DefaultBindings` before `Serve` gets its address when
  it is added, so it listens on all interfaces whatever `BindAddress` is
  (`README.md:242`: "all bindings"). `ListensWhereTold` is stated for the others.
- `isWildcard` compares text: with the bind address `::0` the advertised address is
  `::0` too (`network.go:100`). `AdvertisedIsServed` excepts such spellings.
- Two runs that are given the same Bindings open each other's bindings. A port keeps
  them apart; where the kernel chooses it (port 0, which `TestBindings` always has),
  the later run replaces the server the earlier one would shut down: that server
  outlives its run (`scaffold.go:563`, 208), or its goroutine, when it is late, serves
  with the other run's server (593). No document forbids sharing; `ServesWhatItAdded`
  excepts such bindings and no others, `StopStopsOwn` also those of a failed probe
  (`leak_on_failure`).
- When a binding fails to open, `runShutdown` closes the ones before it and then calls
  `OnStop` (`scaffold.go:176`); `docs/features/mvp/prd.md:395` and 417 have `OnStop`
  first. `DrainedBeforeOnStop` and `ImplementsPromise` state the order of the code, which is
  that of every other path.
- A later call of `Stop` does not return nil "immediately"
  (`docs/features/mvp/tech-spec.md:294`) while the first is still running: it waits in
  `sync.Once` until the sequence is over (`StopReturnsAfterShutdown`).
- `docs/features/mvp/tech-spec.md:238` has `DefaultBindings` listen on all interfaces and
  241 the host not configurable. The code and `README.md` have had `BindAddress` since;
  `ListensWhereTold` follows them.
- A `ServeFunc` is accepted for a binding another run has opened as HTTP.
- `OnStartTimeout` interrupts the port probe (`ProbeCheck`), which
  `docs/features/mvp/tech-spec.md:121` denies and the paragraph after it grants.
- A shutdown that overtakes the goroutine of a binding leaves its socket open
  while `OnStop` runs (`ShutdownBegin` with `loop[b] = "spawned"`), though
  `scaffold.go:44` has all bindings stopped by then. `PortsReleased` says that the
  port is given back in the end.
- An informational status is taken for a response (`middleware.go:67`): a panic
  after it becomes an empty 200. `PanicIsAnswered` and `RecordedIsSent` are stated
  for requests without one.
- A request whose handler panics is not counted in the recommended chain
  (`prometheus/metrics.go:57`).

`OneAnswer` and `RecordedIsSent` except what follows a flush, for the reason that
`flush_then_panic` shows; the variable `used` of `Request` exists to say so.

## Not modelled

- Handlers for health and readiness, context accessors, the default logger, TLS and
  the fields of `http.Server`: no state and no order to get wrong.
- What strconv, time and net make of a text: tables given as constants.
- Two keys that belong together and are read by two calls: the providers have no
  operation on both, and no document promises that they match.
- `Clean` called by user code: `Cleaner` has any number of calls, `Lifecycle` only the
  one of `runShutdown`.
- A handler that calls `AddBeforeShutdown`, or a setter after `OnStart`: data races on a
  slice and a map, listed as hazards.
- `r.Pattern` and the durations in the metrics; headers and bodies of replies.
- The Prometheus registry, `net/http`, `os/signal`, `sync`: external, as the
  headers of the modules describe them.
- A panic of `srv.Shutdown`, which `shutdownBinding` recovers without an error
  (`scaffold.go:200`): the binding would be left as it is and the loop go on. `net/http`
  gives no occasion for one. An error of `Shutdown` before the deadline (a listener that
  fails to close) is an outcome of `ShutdownEnd`.
- Serve loops that return on their own (ADR-0003) are `Lifecycle`'s; in `Setup` a loop
  that has begun ends with its server or its run.
- HTTP/2, WebSockets after a hijack, TLS handshakes.

## Plan

Done: `CleanerSpec`, `Cleaner`, `DaemonSpec`, `Lifecycle` with `Stop` from inside,
`Setup`, `Config`, `Collectors`, `Request`, their runs, and the proofs above. In this
order next:

1. Where the driver may wait: a proof that between two steps of `runShutdown` only a
   drain can hold it up, and only for a serve loop that has been told to return or a
   connection that is busy before the deadline, stated on the guards.
2. An abstract `ResponseSpec` (nothing sent, sent, closed) that `Request`
   implements for polite user code.
3. `Clean` called by user code during the shutdown: `Cleaner` instead of `CleanerSpec`
   in `Lifecycle`, with the `ErrCleanerClosed` that `runShutdown` then reports.
4. The data races on the callback list and the error handlers, as nondeterministic
   reads.
