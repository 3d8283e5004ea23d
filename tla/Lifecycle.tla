----------------------------- MODULE Lifecycle -----------------------------
(***************************************************************************)
(* scaffold.go and port_wait.go: one daemon from OnStart to the return of  *)
(* Serve, or of Start and Instance.Stop.                                   *)
(*                                                                         *)
(* The goroutines are the one that drives the daemon (pc: the caller of    *)
(* Serve, or of Start and then the Stop call that wins the sync.Once), one *)
(* serve loop per binding (loop), and the callers of Stop (stop).  The     *)
(* environment delivers signals, cancels contexts, lets deadlines pass,    *)
(* opens and ends connections, makes net.Listen or a dial fail, and        *)
(* decides what user code returns.                                         *)
(*                                                                         *)
(* net/http's Server is external: Serve and Shutdown are modelled from     *)
(* what the code relies on, that Serve registers its listener before it    *)
(* accepts and gives up when Shutdown came first, and that Shutdown closes *)
(* the registered listener, waits for Serve to return, and then for the    *)
(* connections to become idle or for its context.                          *)
(***************************************************************************)
EXTENDS Naturals, Sequences, FiniteSets

CONSTANTS
    HTTPBindings,   \* bindings scaffold serves with an http.Server
    FuncBindings,   \* bindings handed to a user ServeFunc
    BadTLS,         \* HTTP bindings whose TLS config has no certificate
    Fns,            \* cleanup registrations; the one named after a ServeFunc
                    \* binding is the one that stops its server
    Stoppers,       \* goroutines that call Instance.Stop
    Modes,          \* the entry points considered: "start", "serve"
    Timeouts,       \* deadlines that are set: "start" (OnStartTimeout), "stop"
                    \* (OnStopTimeout, or one on the context given to Stop)
    MaxCallbacks,   \* bound: callbacks registered per phase
    MaxConns,       \* bound: busy connections per binding
    MaxDials        \* bound: failed dials before the 5s deadline has passed

Bindings == HTTPBindings \cup FuncBindings

Phases == {"ready", "before"}

ASSUME LifecycleAssumption ==
    /\ IsFiniteSet(Bindings)
    /\ HTTPBindings \cap FuncBindings = {}
    /\ BadTLS \subseteq HTTPBindings
    /\ FuncBindings \subseteq Fns
    /\ Modes \subseteq {"start", "serve"}
    /\ Timeouts \subseteq {"start", "stop"}
    /\ MaxCallbacks \in Nat
    /\ MaxConns \in Nat
    /\ MaxDials \in Nat

VARIABLES
    mode,           \* which entry point drives the daemon
    pc,             \* where that goroutine is
    order,          \* bindings in Add order
    opened,         \* openBindings: how many of them are in "opened"
    idx,            \* runShutdown: loop index, counts down
    dials,          \* waitForListener: failed dials so far
    lis,            \* lis[b]: the listening socket
    loop,           \* loop[b]: the serve-loop goroutine
    cause,          \* cause[b]: why the serve loop returned
    shut,           \* shut[b]: http.Server.Shutdown not called, begun, returned
    busy,           \* busy[b]: connections that are not idle
    flag,           \* the shutdown-requested flag
    callerDone,     \* the caller's context is cancelled
    startExpired,   \* OnStartTimeout has passed
    stopExpired,    \* OnStopTimeout, or the context given to Stop, has passed
    notified,       \* signal.Notify is in force
    sig,            \* sigCh holds a signal
    regd,           \* regd[ph]: callbacks registered for a phase
    fired,          \* fired[ph]: callbacks invoked
    failed,         \* startup failed: OnStart error or binding not opened
    shutErr,        \* runShutdown collected an error
    once,           \* Instance.once; "stuck" when the sequence waits for itself
    stop,           \* stop[s]: what the Stop call of s is doing or returned
    pending, ran, cphase    \* the Cleaner, as CleanerSpec describes it

planVars    == <<mode, order, opened, idx, dials>>
errVars     == <<failed, shutErr>>
driverVars  == <<planVars, errVars, flag>>
bindingVars == <<lis, loop, cause, shut, busy>>
ctxVars     == <<callerDone, startExpired, stopExpired>>
sigVars     == <<notified, sig>>
envVars     == <<ctxVars, sigVars>>
cbVars      == <<regd, fired>>
stopVars    == <<once, stop>>
pileVars    == <<pending, ran, cphase>>
sideVars    == <<cbVars, stopVars, pileVars>>
vars == <<pc, driverVars, bindingVars, envVars, sideVars>>

Pile == INSTANCE CleanerSpec WITH phase <- cphase

-----------------------------------------------------------------------------
(***************************************************************************)
(* Plausible bugs the properties are tried against                         *)
(***************************************************************************)

ForgetFlag == UNCHANGED flag
CloseWholeOrder == Len(order)
CloseAllButLast == IF opened = 0 THEN 0 ELSE opened - 1
ForwardOrder(k) == order[opened + 1 - k]
RetryUntilDrained == IF busy[order[idx]] > 0 THEN idx ELSE idx - 1
PanicEndsPass(ph) == fired[ph] = regd[ph] \/ fired[ph] > 0
LoserReturnsAtOnce == once # "new"
ReturnWithoutShutdown == "returned"
NeverExpires == FALSE
SignalOnly == FALSE
KeepsLastError(err) == shutErr' = err

-----------------------------------------------------------------------------
(***************************************************************************)
(* Helpers                                                                 *)
(***************************************************************************)

Startup == {"onstart", "open", "probe", "dial", "sleep", "onready", "notify"}

\* A killed or panicked process takes no further step.
Alive == pc \notin {"killed", "panicked"}

\* The binding openBindings is at, and the one runShutdown is at.
Opening == order[opened + 1]
ClosingAt(k) == order[k]

\* enrichedStart: the caller's context, with OnStartTimeout in Serve.
StartCtxDone == callerDone \/ startExpired

\* The context runShutdown was given: a failed Start passes its start context,
\* every other path a context of its own.
ShutdownCtxDone == IF mode = "start" /\ failed THEN callerDone ELSE stopExpired

\* Every shutdown path raises the flag before it stops anything.
RaiseFlag == flag' = TRUE

\* runShutdown's loop starts from the last binding that was opened.
LastToClose == opened

\* It goes on to the binding before, whatever shutdownBinding returned.
NextToClose == idx - 1

\* No later step takes back an error that runShutdown has collected.
Collect(err) == shutErr' = (shutErr \/ err)

\* What is left to do when startup fails is a shutdown of what was opened.
AbortTo == "close"

\* runCallbacks ends when it has been through the list, which it reads again
\* on every turn.
PassOver(ph) == fired[ph] = regd[ph]

\* sync.Once makes the callers that lost wait for the one that won.
OnceOver == once = "done"

\* The select in Serve listens to the caller's context too.
CtxTriggers == callerDone

\* A step that only moves the driver on.
Goto(l) == pc' = l /\ UNCHANGED <<driverVars, bindingVars, envVars, sideVars>>

-----------------------------------------------------------------------------
Init ==
    /\ mode \in Modes
    /\ pc = "onstart"
    /\ order = <<>>
    /\ opened = 0
    /\ idx = 0
    /\ dials = 0
    /\ lis = [b \in Bindings |-> "none"]
    /\ loop = [b \in Bindings |-> "none"]
    /\ cause = [b \in Bindings |-> "none"]
    /\ shut = [b \in Bindings |-> "no"]
    /\ busy = [b \in Bindings |-> 0]
    /\ flag = FALSE
    /\ callerDone = FALSE
    /\ startExpired = FALSE
    /\ stopExpired = FALSE
    /\ notified = FALSE
    /\ sig = FALSE
    /\ regd = [ph \in Phases |-> 0]
    /\ fired = [ph \in Phases |-> 0]
    /\ failed = FALSE
    /\ shutErr = FALSE
    /\ once = "new"
    /\ stop = [s \in Stoppers |-> "idle"]
    /\ Pile!Init

-----------------------------------------------------------------------------
(***************************************************************************)
(* OnStart                                                                 *)
(***************************************************************************)

\* OnStart calls sc.Bindings.Add.
AddBinding(b) ==
    /\ pc = "onstart"
    /\ \A k \in DOMAIN order : order[k] # b
    /\ order' = Append(order, b)
    /\ UNCHANGED <<mode, pc, opened, idx, dials, bindingVars, flag, envVars, sideVars,
                   errVars>>

\* AddOnListenReady or AddBeforeShutdown, from OnStart, from a callback that is
\* running (the loop of runCallbacks sees one added to its own list), and for a
\* shutdown callback from a handler while the daemon is up.  A callback for a
\* pass that is over would never be read.
AddCallback(ph) ==
    /\ regd[ph] < MaxCallbacks
    /\ \/ pc = "onstart"
       \/ pc = "onready" /\ ~PassOver("ready")
       \/ ph = "before" /\ pc \in {"up", "select"}
       \/ ph = "before" /\ pc = "before" /\ ~PassOver("before")
    /\ regd' = [regd EXCEPT ![ph] = @ + 1]
    /\ UNCHANGED <<driverVars, pc, bindingVars, envVars, fired, stopVars, pileVars>>

\* Cleaner.Add, from OnStart or later from a handler or any other goroutine.
AddCleanup(f) ==
    /\ Alive
    /\ Pile!Register(f)
    /\ UNCHANGED <<driverVars, pc, bindingVars, envVars, cbVars, stopVars>>

\* OnStart returns nil and the bindings can be iterated in Add order.
OnStartOk ==
    /\ pc = "onstart"
    /\ Goto("open")

\* Startup is given up: the flag, then runShutdown without BeforeShutdown
\* callbacks on what openBindings reported as opened.
Abort ==
    /\ RaiseFlag
    /\ failed' = TRUE
    /\ idx' = LastToClose
    /\ pc' = AbortTo
    /\ UNCHANGED <<mode, order, opened, envVars, sideVars, shutErr>>

\* OnStart returns an error, or Options.Bindings cannot be iterated.
OnStartFails ==
    /\ pc = "onstart"
    /\ Abort
    /\ UNCHANGED <<dials, bindingVars>>

\* Nothing recovers a panic of OnStart.
OnStartPanics ==
    /\ pc = "onstart"
    /\ Goto("panicked")

-----------------------------------------------------------------------------
(***************************************************************************)
(* openBindings and waitForListener                                        *)
(***************************************************************************)

\* net.Listen succeeds, the server is built and its goroutine is spawned.
Listen ==
    /\ pc = "open"
    /\ opened < Len(order)
    /\ lis' = [lis EXCEPT ![Opening] = "open"]
    /\ loop' = [loop EXCEPT ![Opening] = "spawned"]
    /\ dials' = 0
    /\ pc' = "probe"
    /\ UNCHANGED <<mode, order, opened, idx, cause, shut, busy, flag, envVars, sideVars,
                   errVars>>

ListenFails ==
    /\ pc = "open"
    /\ opened < Len(order)
    /\ Abort
    /\ UNCHANGED <<dials, bindingVars>>

\* The head of the probe's loop.
ProbeCheck ==
    /\ pc = "probe"
    /\ IF StartCtxDone
       THEN Abort /\ UNCHANGED <<dials, bindingVars>>
       ELSE /\ Goto("dial")

\* The kernel completes a connection to an open listening socket whether or
\* not anybody accepts on it yet.
DialOk ==
    /\ pc = "dial"
    /\ lis[Opening] = "open"
    /\ opened' = opened + 1
    /\ pc' = "open"
    /\ UNCHANGED <<mode, order, idx, dials, bindingVars, flag, envVars, sideVars, errVars>>

\* A dial may fail although the socket is open (a firewall, no loopback).  Past the
\* deadline the probe gives up; before it, it sleeps and tries again.
DialFails ==
    /\ pc = "dial"
    /\ UNCHANGED bindingVars
    /\ \/ /\ Abort
          /\ UNCHANGED dials
       \/ /\ dials < MaxDials
          /\ dials' = dials + 1
          /\ pc' = "sleep"
          /\ UNCHANGED <<mode, order, opened, idx, flag, envVars, sideVars, errVars>>

\* The sleep ends because the context is done or because 10ms have passed.
ProbeWakes ==
    /\ pc = "sleep"
    /\ UNCHANGED <<dials, bindingVars>>
    /\ \/ StartCtxDone /\ Abort
       \/ /\ pc' = "probe"
          /\ UNCHANGED <<mode, order, opened, idx, flag, envVars, sideVars, errVars>>

AllOpen ==
    /\ pc = "open"
    /\ opened = Len(order)
    /\ Goto("onready")

-----------------------------------------------------------------------------
(***************************************************************************)
(* runCallbacks, and what Start and Serve do when every port is open       *)
(***************************************************************************)

\* One turn of runCallbacks.  A callback that panics is recovered and the loop
\* goes on as if it had returned.
FireCallback(ph) ==
    /\ pc = IF ph = "ready" THEN "onready" ELSE "before"
    /\ fired[ph] < regd[ph]
    /\ fired' = [fired EXCEPT ![ph] = @ + 1]
    /\ UNCHANGED <<driverVars, pc, bindingVars, envVars, regd, stopVars, pileVars>>

\* "daemon ready": Start returns the Instance, Serve goes on.
Ready ==
    /\ pc = "onready"
    /\ PassOver("ready")
    /\ Goto(IF mode = "start" THEN "up" ELSE "notify")

\* Serve registers for SIGTERM and SIGINT only now.
Notify ==
    /\ pc = "notify"
    /\ notified' = TRUE
    /\ pc' = "select"
    /\ UNCHANGED <<driverVars, bindingVars, ctxVars, sig, sideVars>>

\* Serve's select, and the flag.
Trigger ==
    /\ pc = "select"
    /\ \/ sig /\ sig' = FALSE
       \/ CtxTriggers /\ UNCHANGED sig
    /\ RaiseFlag
    /\ pc' = "before"
    /\ UNCHANGED <<planVars, bindingVars, ctxVars, notified, sideVars, errVars>>

\* A goroutine calls Instance.Stop: the first runs the sequence.
StopWins(s) ==
    /\ mode = "start" /\ pc = "up"
    /\ stop[s] = "idle" /\ once = "new"
    /\ once' = "busy"
    /\ stop' = [stop EXCEPT ![s] = "running"]
    /\ RaiseFlag
    /\ pc' = "before"
    /\ UNCHANGED <<planVars, bindingVars, envVars, cbVars, errVars, pileVars>>

\* The others block in once.Do.
StopLoses(s) ==
    /\ stop[s] = "idle" /\ once # "new"
    /\ stop' = [stop EXCEPT ![s] = "waiting"]
    /\ UNCHANGED <<driverVars, pc, bindingVars, envVars, cbVars, once, pileVars>>

StopReturns(s) ==
    /\ stop[s] = "waiting" /\ OnceOver
    /\ stop' = [stop EXCEPT ![s] = "nil"]
    /\ UNCHANGED <<driverVars, pc, bindingVars, envVars, cbVars, once, pileVars>>

\* A BeforeShutdown callback, OnStop or a cleanup function calls Stop on the very
\* Instance whose Stop is running it, itself or in a goroutine it waits for:
\* once.Do waits for a function that waits for once.Do.
StopInside ==
    /\ once = "busy"
    /\ \/ pc = "before" /\ ~PassOver("before")
       \/ pc = "onstop"
       \/ pc = "cleaning" /\ pending # <<>>
    /\ once' = "stuck"
    /\ UNCHANGED <<driverVars, pc, bindingVars, envVars, cbVars, stop, pileVars>>

-----------------------------------------------------------------------------
(***************************************************************************)
(* runShutdown                                                             *)
(***************************************************************************)

BeforeDone ==
    /\ pc = "before"
    /\ PassOver("before")
    /\ idx' = LastToClose
    /\ pc' = "close"
    /\ UNCHANGED <<mode, order, opened, dials, bindingVars, flag, envVars, sideVars,
                   errVars>>

\* shutdownBinding on a ServeFunc binding returns at once.
SkipServeFunc ==
    /\ pc = "close" /\ idx > 0
    /\ ClosingAt(idx) \in FuncBindings
    /\ idx' = NextToClose
    /\ UNCHANGED <<mode, pc, order, opened, dials, bindingVars, flag, envVars, sideVars,
                   errVars>>

\* http.Server.Shutdown: no Serve may start any more, and the listener of one
\* that has started is closed.
ShutdownBegin ==
    /\ pc = "close" /\ idx > 0
    /\ LET b == ClosingAt(idx) IN
        /\ b \in HTTPBindings
        /\ shut' = [shut EXCEPT ![b] = "begun"]
        /\ lis' = [lis EXCEPT ![b] = IF loop[b] = "serving" THEN "closed" ELSE @]
    /\ pc' = "drain"
    /\ UNCHANGED <<driverVars, loop, cause, busy, envVars, sideVars>>

\* http.Server.Shutdown returns: Serve has returned and either no connection
\* is busy, with or without an error of the listener's Close, or the context is done.
ShutdownEnd ==
    /\ pc = "drain"
    /\ LET b == ClosingAt(idx) IN
        /\ loop[b] # "serving"
        /\ \E err \in BOOLEAN :
            /\ busy[b] > 0 => ShutdownCtxDone /\ err
            /\ Collect(err)
        /\ shut' = [shut EXCEPT ![b] = "returned"]
    /\ idx' = NextToClose
    /\ pc' = "close"
    /\ UNCHANGED <<mode, order, opened, dials, lis, loop, cause, busy, flag, envVars,
                   sideVars, failed>>

AllClosed ==
    /\ pc = "close"
    /\ idx = 0
    /\ Goto("onstop")

\* callOnStop: an error is collected, a panic is recovered and is not.
OnStop ==
    /\ pc = "onstop"
    /\ \E outcome \in {"nil", "error", "panic"} : Collect(outcome = "error")
    /\ pc' = "clean"
    /\ UNCHANGED <<planVars, bindingVars, flag, envVars, sideVars, failed>>

\* Cleaner.Clean.
CleanBegin ==
    /\ pc = "clean"
    /\ Pile!Begin
    /\ pc' = "cleaning"
    /\ UNCHANGED <<driverVars, bindingVars, envVars, cbVars, stopVars>>

\* A cleanup function that fails or panics is logged; Clean returns nil all the same.
CleanOne ==
    /\ pc = "cleaning"
    /\ Pile!RunTop
    /\ UNCHANGED <<driverVars, pc, bindingVars, envVars, cbVars, stopVars>>

\* Clean returns, and with it runShutdown and Serve, Start or the winning Stop;
\* Serve's deferred signal.Stop ends the registration.
Return ==
    /\ pc = "cleaning"
    /\ Pile!Finish
    /\ pc' = "returned"
    /\ notified' = FALSE
    /\ once' = IF once = "busy" THEN "done" ELSE once
    /\ stop' = [s \in Stoppers |->
                  IF stop[s] # "running" THEN stop[s]
                  ELSE IF shutErr THEN "error" ELSE "nil"]
    /\ UNCHANGED <<driverVars, bindingVars, ctxVars, sig, cbVars>>

-----------------------------------------------------------------------------
(***************************************************************************)
(* runBindingServeLoop                                                     *)
(***************************************************************************)

ServeStep(b, l, c, sock) ==
    /\ loop' = [loop EXCEPT ![b] = l]
    /\ cause' = [cause EXCEPT ![b] = c]
    /\ lis' = [lis EXCEPT ![b] = sock]
    /\ UNCHANGED <<driverVars, pc, shut, busy, envVars, sideVars>>

\* The goroutine gets to run.  ServeTLS without a certificate returns before it
\* touches the listener; Serve after Shutdown closes it and returns.
ServeBegins(b) ==
    /\ Alive /\ loop[b] = "spawned"
    /\ \/ /\ b \in BadTLS
          /\ ServeStep(b, "exited", "own", lis[b])
       \/ /\ b \notin BadTLS /\ shut[b] = "no"
          /\ ServeStep(b, "serving", "none", lis[b])
       \/ /\ b \notin BadTLS /\ shut[b] # "no"
          /\ ServeStep(b, "exited", "induced", "closed")

\* http.Server.Serve returns: with ErrServerClosed after Shutdown, and on its
\* own when Accept fails for good.  Either way it closes the listener.
ServeReturns(b) ==
    /\ Alive /\ b \in HTTPBindings
    /\ loop[b] = "serving"
    /\ ServeStep(b, "exited", IF shut[b] = "no" THEN "own" ELSE "induced", "closed")

\* A ServeFunc returns, because its cleanup function stopped it or on its own.
\* Whether it closes the listener is its own business.
FuncReturns(b) ==
    /\ Alive /\ b \in FuncBindings
    /\ loop[b] = "serving"
    /\ \E sock \in {"open", "closed"} :
          ServeStep(b, "exited",
                    IF \E k \in DOMAIN ran : ran[k] = b THEN "induced" ELSE "own", sock)

\* The goroutine loads the flag to tell an expected return from a surprise.
Classify(b) ==
    /\ Alive /\ loop[b] = "exited"
    /\ loop' = [loop EXCEPT ![b] = IF flag THEN "expected" ELSE "unexpected"]
    /\ UNCHANGED <<driverVars, pc, lis, cause, shut, busy, envVars, sideVars>>

-----------------------------------------------------------------------------
(***************************************************************************)
(* Environment                                                             *)
(***************************************************************************)

\* A connection becomes busy: one that Serve accepts, or an idle one that is
\* used again.  Idle ones outlive a Serve that failed, not a Shutdown.
ConnBusy(b) ==
    /\ Alive /\ b \in HTTPBindings
    /\ busy[b] < MaxConns
    /\ \/ loop[b] = "serving"
       \/ cause[b] = "own" /\ b \notin BadTLS /\ shut[b] # "returned"
    /\ busy' = [busy EXCEPT ![b] = @ + 1]
    /\ UNCHANGED <<driverVars, pc, lis, loop, cause, shut, envVars, sideVars>>

ConnDone(b) ==
    /\ Alive /\ busy[b] > 0
    /\ busy' = [busy EXCEPT ![b] = @ - 1]
    /\ UNCHANGED <<driverVars, pc, lis, loop, cause, shut, envVars, sideVars>>

CallerCancels ==
    /\ Alive /\ ~callerDone
    /\ callerDone' = TRUE
    /\ UNCHANGED <<driverVars, pc, bindingVars, startExpired, stopExpired, sigVars,
                   sideVars>>

\* OnStartTimeout passes before Serve calls cancelStart.
StartDeadline ==
    /\ mode = "serve" /\ "start" \in Timeouts /\ ~startExpired
    /\ pc \in Startup \ {"notify"}
    /\ startExpired' = TRUE
    /\ UNCHANGED <<driverVars, pc, bindingVars, callerDone, stopExpired, sigVars, sideVars>>

\* OnStopTimeout passes, or the context of the Stop call is done.
StopDeadline ==
    /\ Alive /\ "stop" \in Timeouts /\ ~stopExpired
    /\ IF mode = "serve" THEN flag ELSE pc \notin Startup /\ ~failed
    /\ stopExpired' = TRUE
    /\ UNCHANGED <<driverVars, pc, bindingVars, callerDone, startExpired, sigVars,
                   sideVars>>

\* SIGTERM or SIGINT: queued while Notify is in force (the channel holds one,
\* more are dropped), fatal to the process otherwise.
Signal ==
    /\ Alive /\ mode = "serve" /\ pc # "returned"
    /\ IF notified
       THEN sig' = TRUE /\ UNCHANGED pc
       ELSE pc' = "killed" /\ UNCHANGED sig
    /\ UNCHANGED <<driverVars, bindingVars, ctxVars, notified, sideVars>>

-----------------------------------------------------------------------------
\* The steps of user code during OnStart and after it.
User ==
    \/ \E b \in Bindings : AddBinding(b)
    \/ \E ph \in Phases : AddCallback(ph)
    \/ \E f \in Fns : AddCleanup(f)
    \/ OnStartOk
    \/ OnStartFails
    \/ OnStartPanics
    \/ StopInside

\* The steps of the goroutine that drives the daemon.
Driver ==
    /\ once # "stuck"
    /\ \/ Listen
       \/ ListenFails
       \/ ProbeCheck
       \/ DialOk
       \/ DialFails
       \/ ProbeWakes
       \/ AllOpen
       \/ \E ph \in Phases : FireCallback(ph)
       \/ Ready
       \/ Notify
       \/ Trigger
       \/ BeforeDone
       \/ SkipServeFunc
       \/ ShutdownBegin
       \/ ShutdownEnd
       \/ AllClosed
       \/ OnStop
       \/ CleanBegin
       \/ CleanOne
       \/ Return

ServeLoop(b) ==
    \/ ServeBegins(b)
    \/ ServeReturns(b)
    \/ FuncReturns(b)
    \/ Classify(b)

StopCall(s) ==
    \/ StopWins(s)
    \/ StopLoses(s)
    \/ StopReturns(s)

Environment ==
    \/ \E b \in Bindings : ConnBusy(b) \/ ConnDone(b)
    \/ CallerCancels
    \/ StartDeadline
    \/ StopDeadline
    \/ Signal

Next ==
    \/ User
    \/ Driver
    \/ \E b \in Bindings : ServeLoop(b)
    \/ \E s \in Stoppers : StopCall(s)
    \/ Environment

\* A serve loop runs when it is spawned, returns when its listener has been
\* closed by Shutdown, and looks at the flag when it has returned.
ServeLoopProgress(b) ==
    \/ ServeBegins(b)
    \/ shut[b] # "no" /\ ServeReturns(b)
    \/ Classify(b)

\* The driver is a running goroutine and callbacks, OnStop and cleanup
\* functions return; the shutdown context has a deadline.  Nothing obliges
\* OnStart to return, a connection to become idle, a ServeFunc to return, or
\* anybody to stop the daemon; without a stop timeout nothing ends a drain.
Fairness ==
    /\ WF_vars(Driver)
    /\ \A b \in Bindings : WF_vars(ServeLoopProgress(b))
    /\ \A s \in Stoppers : WF_vars(StopReturns(s))
    /\ WF_vars(StopDeadline)

Spec == Init /\ [][Next]_vars /\ Fairness

-----------------------------------------------------------------------------
(***************************************************************************)
(* Properties                                                              *)
(***************************************************************************)

Labels == Startup \cup {"up", "select", "before", "close", "drain", "onstop",
                        "clean", "cleaning", "returned", "killed", "panicked"}

\* Every variable keeps its type; the bindings are distinct, openBindings stays
\* within them, and runShutdown is never at a binding that was not opened.
TypeOK ==
    /\ mode \in Modes
    /\ pc \in Labels
    /\ order \in Seq(Bindings)
    /\ \A j, k \in DOMAIN order : order[j] = order[k] => j = k
    /\ opened \in 0..Len(order)
    /\ idx \in 0..opened
    /\ dials \in 0..MaxDials
    /\ lis \in [Bindings -> {"none", "open", "closed"}]
    /\ loop \in [Bindings -> {"none", "spawned", "serving", "exited",
                              "expected", "unexpected"}]
    /\ cause \in [Bindings -> {"none", "own", "induced"}]
    /\ shut \in [Bindings -> {"no", "begun", "returned"}]
    /\ busy \in [Bindings -> 0..MaxConns]
    /\ flag \in BOOLEAN
    /\ callerDone \in BOOLEAN /\ startExpired \in BOOLEAN /\ stopExpired \in BOOLEAN
    /\ notified \in BOOLEAN /\ sig \in BOOLEAN
    /\ regd \in [Phases -> 0..MaxCallbacks]
    /\ fired \in [Phases -> 0..MaxCallbacks]
    /\ \A ph \in Phases : fired[ph] <= regd[ph]
    /\ failed \in BOOLEAN /\ shutErr \in BOOLEAN
    /\ once \in {"new", "busy", "stuck", "done"}
    /\ stop \in [Stoppers -> {"idle", "running", "waiting", "nil", "error"}]
    /\ pending \in Seq(Fns) /\ ran \in Seq(Fns)
    /\ cphase \in {"open", "cleaning", "done"}

\* ADR-0002: Shutdown of a binding does not begin before Shutdown of every
\* binding added after it has returned, whatever fails or times out.
SerialReverse ==
    \A k \in 1..opened, j \in 1..opened :
        /\ j < k
        /\ order[j] \in HTTPBindings /\ order[k] \in HTTPBindings
        /\ shut[order[j]] # "no"
        => shut[order[k]] = "returned"

\* Everything from OnStop on.
PastDrain == {"onstop", "clean", "cleaning", "returned"}

\* When OnStop and the cleanup functions run, no HTTP binding that was opened is
\* serving, and none has a request in flight unless the time for it is up.
DrainedBeforeOnStop ==
    pc \in PastDrain =>
        \A k \in 1..opened : order[k] \in HTTPBindings =>
            /\ shut[order[k]] = "returned"
            /\ loop[order[k]] # "serving"
            /\ busy[order[k]] = 0 \/ ShutdownCtxDone

\* ADR-0003: a serve loop that returned because scaffold made it return is never
\* logged as a surprise, however its goroutine is scheduled.
InducedExitIsExpected ==
    \A b \in Bindings : cause[b] = "induced" => loop[b] # "unexpected"

\* No "daemon ready" with a ready callback left, and no listener begins to close
\* in a regular shutdown with a before-shutdown callback left, even one that
\* another callback or a handler registered.
CallbacksComplete ==
    /\ pc \in {"up", "notify", "select"} => fired["ready"] = regd["ready"]
    /\ (\E b \in Bindings : shut[b] # "no") /\ ~failed
          => fired["before"] = regd["before"]

\* sync.Once: whoever gets an answer from Stop gets it after the whole sequence,
\* also a caller that lost the race.
StopReturnsAfterShutdown ==
    \A s \in Stoppers : stop[s] \in {"nil", "error"} => pc = "returned"

\* A Stop that answers nil has abandoned no connection, although one deadline covers
\* all bindings (scaffold.go:177): when the context is done before a binding has
\* drained, the error of its Shutdown gets through everything that runs after it.
AbandonedIsReported ==
    [][\A s \in Stoppers : (stop[s] = "running" /\ stop'[s] = "nil") =>
          \A k \in 1..opened : order[k] \in HTTPBindings => busy[order[k]] = 0]_vars

\* Every path that returns, failed startup included, has run every cleanup
\* function that was registered, so "Cleaner.Clean always runs".
CleanerAlwaysRuns == pc = "returned" => cphase = "done" /\ pending = <<>>

\* When the sequence is over, scaffold serves none of its HTTP bindings any more,
\* but the one whose probe failed: what a failed startup leaves behind (see
\* NothingServedAfterFailure) is that one, and a regular shutdown leaves nothing.
OnlyProbedIsLeft ==
    pc = "returned" =>
        \A b \in HTTPBindings : loop[b] = "serving" =>
            failed /\ opened < Len(order) /\ b = Opening

\* How far runShutdown is from its end: the stages it has to go through, and the
\* turns left in the loop it is in.  Callbacks register others up to the bound.
Sequence == {"before", "close", "drain", "onstop", "clean", "cleaning"}

StagesLeft ==
    CASE pc = "before"             -> 5
      [] pc \in {"close", "drain"} -> 4
      [] pc = "onstop"             -> 3
      [] pc = "clean"              -> 2
      [] pc = "cleaning"           -> 1
      [] OTHER                     -> 0

TurnsLeft ==
    CASE pc = "before"   -> MaxCallbacks - fired["before"]
      [] pc = "close"    -> 2 * idx
      [] pc = "drain"    -> 2 * idx - 1
      [] pc = "cleaning" -> Len(pending)
      [] OTHER           -> 0

Descends ==
    \/ StagesLeft' \in 0..(StagesLeft - 1)
    \/ StagesLeft' = StagesLeft /\ TurnsLeft' \in 0..(TurnsLeft - 1)

\* Every step of runShutdown brings its end nearer, and nothing that users of Stop,
\* serve loops, callbacks that register callbacks, late registrations with the
\* cleaner or the environment do puts it off: no binding is shut down again
\* because its drain failed, and no loop starts over.
ShutdownDescends ==
    [][(pc \in Sequence) =>
          \/ Descends
          \/ ~Driver /\ UNCHANGED <<StagesLeft, TurnsLeft>>]_vars

\* Once shutdown is requested the daemon returns, although connections may stay
\* busy for ever, unless a signal that nobody handles ends the process first or
\* the sequence calls Stop itself and waits for its own end.
\* A failed Start is the exception: it drains on its caller's context (scaffold.go:314),
\* and a busy connection holds it until the caller cancels that context.
ShutdownTerminates ==
    flag /\ (mode = "start" /\ failed => callerDone)
        ~> pc \in {"returned", "killed"} \/ once = "stuck"

\* A signal or a cancelled context that meets a serving daemon stops it.
TriggerHonoured == pc = "select" /\ (sig \/ callerDone) ~> pc = "returned"

\* Every Stop call that was made gets its answer, the ones that lost the race
\* too; nothing but a Stop from inside the sequence can hold them up.
StopCallersReturn ==
    \A s \in Stoppers :
        stop[s] \in {"running", "waiting"}
            ~> stop[s] \in {"nil", "error"} \/ once = "stuck"

\* The port of every binding that was opened is given back in the end, even if
\* its serve loop was not scheduled before Shutdown: a test can bind it again.
PortsReleased ==
    \A b \in HTTPBindings \ BadTLS :
        pc = "returned" /\ (\E k \in 1..opened : order[k] = b) ~> lis[b] = "closed"

-----------------------------------------------------------------------------
(***************************************************************************)
(* The promise it implements                                               *)
(***************************************************************************)

Promise == INSTANCE DaemonSpec WITH
    stage <- CASE pc \in {"close", "drain"}    -> "down"
               [] pc = "onstop"                -> "hook"
               [] pc \in {"clean", "cleaning"} -> "clean"
               [] pc = "returned"              -> "over"
               [] pc \in {"killed", "panicked"} -> "dead"
               [] OTHER                        -> "up",
    live  <- SubSeq(order, 1,
                    IF failed \/ pc \in PastDrain \cup {"close", "drain"} THEN idx ELSE opened)

\* Every behaviour of the lifecycle is one that DaemonSpec allows.
ImplementsPromise == Promise!Spec

-----------------------------------------------------------------------------
(***************************************************************************)
(* What documents and comments say, and the code does otherwise            *)
(***************************************************************************)

\* docs/features/mvp/prd.md:417: a failed startup closes "any already-opened
\* listeners", so that no binding is still served when Start or Serve is back.
NothingServedAfterFailure ==
    failed /\ pc = "returned" => \A b \in HTTPBindings : loop[b] # "serving"

\* scaffold.go:140: "Subsequent calls return nil without re-running any step."
SubsequentStopsReturn == \A s \in Stoppers : stop[s] = "waiting" ~> stop[s] = "nil"

=============================================================================
