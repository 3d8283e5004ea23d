-------------------------- MODULE LifecycleProofs --------------------------
(***************************************************************************)
(* Proofs about Lifecycle, for every set of bindings, cleanup functions    *)
(* and Stop callers and every bound.                                       *)
(*                                                                         *)
(* None of the safety properties is inductive: each speaks of what a       *)
(* binding, a caller or the pile looks like at some point, and nothing in  *)
(* it says how far the driver is.  IInv below adds that: where the flag,   *)
(* every Shutdown, once and the pile stand for each label of the driver.   *)
(* TypeInv comes first, because most steps of the other parts use it; then *)
(* one lemma per part says that every step preserves it.  The last section *)
(* maps each step to a step of DaemonSpec or to none.                      *)
(***************************************************************************)
EXTENDS Lifecycle, TLAPS

USE DEF driverVars, planVars, errVars, bindingVars, envVars, ctxVars, sigVars,
        sideVars, cbVars, stopVars, pileVars, NextToClose

\* The labels of waitForListener.
Probing == {"probe", "dial", "sleep"}

\* TypeOK, and what the labels say about the two loop indices.
TypeInv ==
    /\ TypeOK
    /\ pc \in Probing => opened < Len(order)
    /\ pc = "drain" => idx > 0

\* TypeInv holds before OnStart.
LEMMA InitTypeInv == Init => TypeInv
<1> SUFFICES ASSUME Init PROVE TypeInv
  OBVIOUS
<1>1. order = <<>> /\ order \in Seq(Bindings) /\ Len(order) = 0
  BY DEF Init
<1>2. pending \in Seq(Fns) /\ ran \in Seq(Fns) /\ cphase = "open"
  BY DEF Init, Pile!Init
<1>3. /\ regd \in [Phases -> 0..MaxCallbacks]
      /\ fired \in [Phases -> 0..MaxCallbacks]
      /\ \A ph \in Phases : fired[ph] <= regd[ph]
      /\ busy \in [Bindings -> 0..MaxConns]
      /\ dials \in 0..MaxDials
  BY LifecycleAssumption DEF Init
<1>4. /\ lis \in [Bindings -> {"none", "open", "closed"}]
      /\ loop \in [Bindings -> {"none", "spawned", "serving", "exited",
                                "expected", "unexpected"}]
      /\ cause \in [Bindings -> {"none", "own", "induced"}]
      /\ shut \in [Bindings -> {"no", "begun", "returned"}]
      /\ stop \in [Stoppers -> {"idle", "running", "waiting", "nil", "error"}]
  BY DEF Init
<1>5. mode \in Modes /\ pc \in Labels /\ pc \notin Probing /\ pc # "drain"
  BY DEF Init, Labels, Startup, Probing
<1>6. opened \in 0..Len(order) /\ idx \in 0..opened
  BY <1>1 DEF Init
<1>7. \A j, k \in DOMAIN order : order[j] = order[k] => j = k
  BY <1>1
<1>8. /\ flag \in BOOLEAN
      /\ callerDone \in BOOLEAN /\ startExpired \in BOOLEAN /\ stopExpired \in BOOLEAN
      /\ notified \in BOOLEAN /\ sig \in BOOLEAN
      /\ failed \in BOOLEAN /\ shutErr \in BOOLEAN
      /\ once \in {"new", "busy", "stuck", "done"}
  BY DEF Init
<1>. QED
  BY <1>1, <1>2, <1>3, <1>4, <1>5, <1>6, <1>7, <1>8 DEF TypeInv, TypeOK

\* What user code may do in OnStart and later preserves TypeInv.
LEMMA UserTypeInv == ASSUME TypeInv, User PROVE TypeInv'
<1> USE DEF TypeInv, TypeOK, Labels, Startup, Probing
<1>1. ASSUME NEW b \in Bindings, AddBinding(b) PROVE TypeInv'
  BY <1>1 DEF AddBinding
<1>2. ASSUME NEW ph \in Phases, AddCallback(ph) PROVE TypeInv'
  BY <1>2, LifecycleAssumption DEF AddCallback, Phases, PassOver
<1>3. ASSUME NEW f \in Fns, AddCleanup(f) PROVE TypeInv'
  BY <1>3 DEF AddCleanup, Pile!Register
<1>4. CASE OnStartOk
  BY <1>4 DEF OnStartOk, Goto
<1>5. CASE OnStartFails
  BY <1>5 DEF OnStartFails, Abort, RaiseFlag, LastToClose, AbortTo
<1>6. CASE OnStartPanics
  BY <1>6 DEF OnStartPanics, Goto
<1>7. CASE StopInside
  BY <1>7 DEF StopInside
<1>. QED
  BY <1>1, <1>2, <1>3, <1>4, <1>5, <1>6, <1>7 DEF User

\* The ways out of the probe: startup is given up, or the driver moves on.
LEMMA AbortTypeInv == ASSUME TypeInv, Abort, UNCHANGED <<dials, bindingVars>>
                      PROVE  TypeInv'
  BY DEF TypeInv, TypeOK, Labels, Startup, Probing, Abort, RaiseFlag, LastToClose, AbortTo

\* So does every step of the goroutine that drives the daemon.
LEMMA DriverTypeInv == ASSUME TypeInv, Driver PROVE TypeInv'
<1> USE DEF TypeInv, TypeOK, Labels, Startup, Probing
<1> USE DEF Abort, RaiseFlag, LastToClose, AbortTo, Goto
<1>1. CASE Listen
  <2>1. Opening \in Bindings
    BY <1>1 DEF Listen, Opening
  <2>. QED
    BY <1>1, <2>1, LifecycleAssumption DEF Listen
<1>2. CASE ListenFails
  BY <1>2 DEF ListenFails
<1>3. CASE ProbeCheck
  <2>1. CASE Abort /\ UNCHANGED <<dials, bindingVars>>
    BY <2>1, AbortTypeInv
  <2>2. CASE Goto("dial")
    BY <1>3, <2>2 DEF ProbeCheck
  <2>. QED
    BY <1>3, <2>1, <2>2 DEF ProbeCheck
<1>4. CASE DialOk
  BY <1>4 DEF DialOk
<1>5. CASE DialFails
  <2>1. CASE Abort /\ UNCHANGED dials
    BY <1>5, <2>1, AbortTypeInv DEF DialFails
  <2>2. CASE dials < MaxDials /\ dials' = dials + 1 /\ pc' = "sleep"
             /\ UNCHANGED <<mode, order, opened, idx, flag, envVars, sideVars, errVars>>
    BY <1>5, <2>2, LifecycleAssumption DEF DialFails
  <2>. QED
    BY <1>5, <2>1, <2>2 DEF DialFails
<1>6. CASE ProbeWakes
  <2>1. CASE Abort
    BY <1>6, <2>1, AbortTypeInv DEF ProbeWakes
  <2>2. CASE pc' = "probe"
             /\ UNCHANGED <<mode, order, opened, idx, flag, envVars, sideVars, errVars>>
    BY <1>6, <2>2 DEF ProbeWakes
  <2>. QED
    BY <1>6, <2>1, <2>2 DEF ProbeWakes
<1>7. CASE AllOpen
  BY <1>7 DEF AllOpen
<1>8. ASSUME NEW ph \in Phases, FireCallback(ph) PROVE TypeInv'
  BY <1>8, LifecycleAssumption DEF FireCallback, Phases
<1>9. CASE Ready
  BY <1>9 DEF Ready
<1>10. CASE Notify
  BY <1>10 DEF Notify
<1>11. CASE Trigger
  <2>1. sig' \in BOOLEAN
    BY <1>11 DEF Trigger
  <2>2. pc' = "before" /\ flag' = TRUE
        /\ UNCHANGED <<planVars, bindingVars, ctxVars, notified, sideVars, errVars>>
    BY <1>11 DEF Trigger
  <2>. QED
    BY <2>1, <2>2
<1>12. CASE BeforeDone
  BY <1>12 DEF BeforeDone
<1>13. CASE SkipServeFunc
  BY <1>13 DEF SkipServeFunc
<1>14. CASE ShutdownBegin
  BY <1>14 DEF ShutdownBegin, ClosingAt
<1>15. CASE ShutdownEnd
  <2>1. shutErr' \in BOOLEAN
    BY <1>15 DEF ShutdownEnd, Collect
  <2>. QED
    BY <1>15, <2>1 DEF ShutdownEnd, ClosingAt
<1>16. CASE AllClosed
  BY <1>16 DEF AllClosed
<1>17. CASE OnStop
  BY <1>17 DEF OnStop, Collect
<1>18. CASE CleanBegin
  BY <1>18 DEF CleanBegin, Pile!Begin
<1>19. CASE CleanOne
  BY <1>19 DEF CleanOne, Pile!RunTop
<1>20. CASE Return
  BY <1>20 DEF Return, Pile!Finish
<1>. QED
  BY <1>1, <1>2, <1>3, <1>4, <1>5, <1>6, <1>7, <1>8, <1>9, <1>10, <1>11, <1>12,
     <1>13, <1>14, <1>15, <1>16, <1>17, <1>18, <1>19, <1>20 DEF Driver

\* So does every step of a serve loop.
LEMMA ServeLoopTypeInv == ASSUME TypeInv, NEW b \in Bindings, ServeLoop(b)
                          PROVE  TypeInv'
<1> USE DEF TypeInv, TypeOK, Probing, ServeStep
<1>1. CASE ServeBegins(b)
  <2>1. CASE ServeStep(b, "exited", "own", lis[b])
    BY <2>1
  <2>2. CASE ServeStep(b, "serving", "none", lis[b])
    BY <2>2
  <2>3. CASE ServeStep(b, "exited", "induced", "closed")
    BY <2>3
  <2>. QED
    BY <1>1, <2>1, <2>2, <2>3 DEF ServeBegins
<1>2. CASE ServeReturns(b)
  BY <1>2 DEF ServeReturns
<1>3. CASE FuncReturns(b)
  BY <1>3 DEF FuncReturns
<1>4. CASE Classify(b)
  BY <1>4 DEF Classify
<1>. QED
  BY <1>1, <1>2, <1>3, <1>4 DEF ServeLoop

\* So does every step of a Stop call.
LEMMA StopCallTypeInv == ASSUME TypeInv, NEW s \in Stoppers, StopCall(s)
                         PROVE  TypeInv'
<1> USE DEF TypeInv, TypeOK, Labels, Probing
<1>1. CASE StopWins(s)
  BY <1>1 DEF StopWins, RaiseFlag
<1>2. CASE StopLoses(s)
  BY <1>2 DEF StopLoses
<1>3. CASE StopReturns(s)
  BY <1>3 DEF StopReturns
<1>. QED
  BY <1>1, <1>2, <1>3 DEF StopCall

\* And every step of the environment.
LEMMA EnvironmentTypeInv == ASSUME TypeInv, Environment PROVE TypeInv'
<1> USE DEF TypeInv, TypeOK, Labels, Probing
<1>1. ASSUME NEW b \in Bindings, ConnBusy(b) PROVE TypeInv'
  BY <1>1, LifecycleAssumption DEF ConnBusy
<1>2. ASSUME NEW b \in Bindings, ConnDone(b) PROVE TypeInv'
  BY <1>2, LifecycleAssumption DEF ConnDone
<1>3. CASE CallerCancels
  BY <1>3 DEF CallerCancels
<1>4. CASE StartDeadline
  BY <1>4 DEF StartDeadline
<1>5. CASE StopDeadline
  BY <1>5 DEF StopDeadline
<1>6. CASE Signal
  <2>1. sig' \in BOOLEAN /\ (pc' = pc \/ pc' = "killed")
    BY <1>6 DEF Signal
  <2>. QED
    BY <1>6, <2>1 DEF Signal
<1>. QED
  BY <1>1, <1>2, <1>3, <1>4, <1>5, <1>6 DEF Environment

\* TypeInv is inductive.
LEMMA NextTypeInv == TypeInv /\ [Next]_vars => TypeInv'
<1> SUFFICES ASSUME TypeInv, [Next]_vars PROVE TypeInv'
  OBVIOUS
<1>1. CASE Next
  BY <1>1, UserTypeInv, DriverTypeInv, ServeLoopTypeInv, StopCallTypeInv,
     EnvironmentTypeInv DEF Next
<1>2. CASE UNCHANGED vars
  BY <1>2 DEF vars, TypeInv, TypeOK
<1>. QED
  BY <1>1, <1>2

\* TypeInv holds throughout.
LEMMA SpecTypeInv == Spec => []TypeInv
  BY InitTypeInv, NextTypeInv, PTL DEF Spec

\* scaffold.go: every variable keeps its type; openBindings and runShutdown never
\* index a binding that was not added or not opened.
THEOREM LifecycleTypeOK == Spec => []TypeOK
<1>1. TypeInv => TypeOK
  BY DEF TypeInv
<1>. QED
  BY <1>1, SpecTypeInv, PTL

-----------------------------------------------------------------------------
(***************************************************************************)
(* The inductive invariant                                                 *)
(***************************************************************************)

\* The labels of the shutdown sequence.
Stopping == {"before", "close", "drain"} \cup PastDrain

\* The flag is up before anything that could make a serve loop return.
FlagInv ==
    /\ pc \in Stopping => flag
    /\ \A b \in Bindings : shut[b] # "no" => flag
    /\ ran # <<>> => flag
    /\ \A b \in Bindings : cause[b] = "induced" => flag
    /\ InducedExitIsExpected

\* Where Shutdown of the binding at position k stands.
ShutAt(k) ==
    IF k > idx THEN "returned" ELSE IF k = idx /\ pc = "drain" THEN "begun" ELSE "no"

\* No Shutdown before the loop, and in the loop as the index says.
CloseInv ==
    /\ pc \in Startup \cup {"up", "select", "before"} => \A b \in Bindings : shut[b] = "no"
    /\ pc \in {"close", "drain"} \cup PastDrain =>
          \A k \in 1..opened : order[k] \in HTTPBindings => shut[order[k]] = ShutAt(k)
    /\ pc = "drain" => order[idx] \in HTTPBindings
    /\ pc \in PastDrain => idx = 0
    /\ SerialReverse

\* A binding whose Shutdown has returned stays stopped, and what it had to abandon
\* stays reported.
DrainInv ==
    \A b \in HTTPBindings : shut[b] = "returned" =>
        /\ loop[b] # "serving"
        /\ busy[b] = 0 \/ (ShutdownCtxDone /\ shutErr)

\* A pass that is over stays complete.
CallInv ==
    /\ pc \in {"close", "drain"} \cup PastDrain /\ ~failed => fired["before"] = regd["before"]
    /\ CallbacksComplete

\* once is busy as long as the sequence runs, and nobody is answered before.
OnceInv ==
    /\ once \in {"busy", "stuck"} => pc \in Stopping /\ pc # "returned" /\ mode = "start"
    /\ once = "done" => pc = "returned"
    /\ \A s \in Stoppers : stop[s] = "running" => once \in {"busy", "stuck"}
    /\ \A s \in Stoppers : stop[s] \in {"nil", "error"} => once = "done"

\* The pile is as far as the driver.
CleanInv ==
    /\ cphase = "done" => pending = <<>>
    /\ Alive => cphase = IF pc = "cleaning" THEN "cleaning"
                         ELSE IF pc = "returned" THEN "done" ELSE "open"

IInv == TypeInv /\ FlagInv /\ CloseInv /\ DrainInv /\ CallInv /\ OnceInv /\ CleanInv

-----------------------------------------------------------------------------
(***************************************************************************)
(* Steps that the invariants look at in the same way                       *)
(***************************************************************************)

\* Startup is given up.
GiveUp == pc \in Startup /\ Abort /\ UNCHANGED bindingVars

\* The probe goes on.
KeepProbing ==
    /\ pc \in Probing /\ pc' \in Probing
    /\ UNCHANGED <<mode, order, opened, idx, flag, bindingVars, envVars, sideVars, errVars>>

\* Each step of the probe either gives startup up or goes on probing.
LEMMA StartupSteps ==
    OnStartFails \/ ListenFails \/ ProbeCheck \/ DialFails \/ ProbeWakes
        => GiveUp \/ KeepProbing
<1>1. OnStartFails \/ ListenFails => GiveUp
  BY DEF OnStartFails, ListenFails, GiveUp, Startup
<1>2. ProbeCheck => GiveUp \/ KeepProbing
  BY DEF ProbeCheck, Goto, GiveUp, KeepProbing, Startup, Probing
<1>3. DialFails => GiveUp \/ KeepProbing
  BY DEF DialFails, GiveUp, KeepProbing, Startup, Probing
<1>4. ProbeWakes => GiveUp \/ KeepProbing
  BY DEF ProbeWakes, GiveUp, KeepProbing, Startup, Probing
<1>. QED
  BY <1>1, <1>2, <1>3, <1>4

\* FlagInv is preserved: nothing makes a serve loop return before the flag is up.
LEMMA FlagStep == ASSUME TypeInv, FlagInv, Next PROVE FlagInv'
<1> USE DEF TypeInv, TypeOK, FlagInv, InducedExitIsExpected, Stopping, PastDrain, Startup, Probing
<1>1. CASE GiveUp
  BY <1>1 DEF GiveUp, Abort, RaiseFlag, AbortTo
<1>2. CASE KeepProbing
  BY <1>2 DEF KeepProbing
<1>3. CASE User
  BY <1>3, <1>1, <1>2, StartupSteps
  DEF User, AddBinding, AddCallback, AddCleanup, Pile!Register, OnStartOk, OnStartPanics, StopInside, Goto
<1>4. CASE Driver
  BY <1>4, <1>1, <1>2, StartupSteps
  DEF Driver, Listen, DialOk, AllOpen, FireCallback, Ready, Notify, Trigger, RaiseFlag,
      BeforeDone, SkipServeFunc, ShutdownBegin, ShutdownEnd, AllClosed, OnStop, CleanBegin,
      Pile!Begin, CleanOne, Pile!RunTop, Return, Pile!Finish, Goto, ClosingAt
<1>5. ASSUME NEW b \in Bindings, ServeLoop(b) PROVE FlagInv'
  BY <1>5 DEF ServeLoop, ServeBegins, ServeReturns, FuncReturns, Classify, ServeStep
<1>6. ASSUME NEW s \in Stoppers, StopCall(s) PROVE FlagInv'
  BY <1>6 DEF StopCall, StopWins, StopLoses, StopReturns, RaiseFlag
<1>7. CASE Environment
  BY <1>7 DEF Environment, ConnBusy, ConnDone, CallerCancels, StartDeadline, StopDeadline, Signal
<1>. QED
  BY <1>3, <1>4, <1>5, <1>6, <1>7 DEF Next

\* The positions runShutdown goes through hold distinct bindings.
LEMMA Positions == ASSUME TypeInv
                   PROVE  /\ opened \in Nat /\ idx \in Nat /\ idx <= opened
                          /\ \A k \in 1..opened : order[k] \in Bindings
                          /\ \A j, k \in 1..opened : order[j] = order[k] => j = k
<1>1. /\ order \in Seq(Bindings) /\ opened \in 0..Len(order) /\ idx \in 0..opened
      /\ \A j, k \in DOMAIN order : order[j] = order[k] => j = k
  BY DEF TypeInv, TypeOK
<1>2. 1..opened \subseteq DOMAIN order
  BY <1>1
<1>. QED
  BY <1>1, <1>2

\* If every Shutdown stands where the index says, they are serial and reverse.
LEMMA SerialFromIndex ==
    ASSUME TypeInv',
           (\A k \in 1..opened : order[k] \in HTTPBindings => shut[order[k]] = ShutAt(k))'
    PROVE  SerialReverse'
<1>1. opened' \in Nat /\ idx' \in Nat
  BY DEF TypeInv, TypeOK
<1>. QED
  BY <1>1 DEF SerialReverse, ShutAt

\* CloseInv depends on these variables only.
LEMMA CloseFrame == ASSUME CloseInv, UNCHANGED <<pc, order, opened, idx, shut>>
                    PROVE  CloseInv'
  BY DEF CloseInv, SerialReverse, ShutAt

\* As long as no Shutdown has begun, the driver can be anywhere before the loop.
LEMMA CloseNone == ASSUME \A b \in Bindings : shut'[b] = "no",
                          TypeInv', pc' \notin {"close", "drain"} \cup PastDrain
                   PROVE  CloseInv'
<1>1. ASSUME NEW k \in (1..opened)' PROVE order'[k] \in Bindings
  BY DEF TypeInv, TypeOK
<1>. QED
  BY <1>1 DEF CloseInv, SerialReverse, PastDrain

\* CloseInv is preserved: Shutdown goes down the list, one binding at a time.
LEMMA CloseStep == ASSUME TypeInv, TypeInv', CloseInv, Next PROVE CloseInv'
<1> USE DEF PastDrain, Startup
<1>1. CASE GiveUp
  <2>1. /\ \A b \in Bindings : shut'[b] = "no"
        /\ pc' = "close" /\ idx' = opened /\ opened' = opened /\ order' = order
    BY <1>1 DEF GiveUp, Abort, LastToClose, AbortTo, CloseInv
  <2>2. ASSUME NEW k \in 1..opened PROVE order[k] \in Bindings /\ ~(k > opened)
    BY DEF TypeInv, TypeOK
  <2>. QED
    BY <2>1, <2>2 DEF CloseInv, SerialReverse, ShutAt
<1>2. CASE pc \in Startup \cup {"up", "select", "before"} /\ UNCHANGED shut
           /\ pc' \notin {"close", "drain"} \cup PastDrain
  BY <1>2, CloseNone DEF CloseInv
<1>3. CASE User
  <2>1. ASSUME NEW ph \in Phases, AddCallback(ph) PROVE CloseInv'
    BY <2>1, CloseFrame DEF AddCallback
  <2>2. ASSUME NEW f \in Fns, AddCleanup(f) PROVE CloseInv'
    BY <2>2, CloseFrame DEF AddCleanup
  <2>3. ASSUME NEW b \in Bindings, AddBinding(b) PROVE CloseInv'
    BY <2>3, <1>2 DEF AddBinding
  <2>4. CASE OnStartOk \/ OnStartPanics
    BY <2>4, <1>2 DEF OnStartOk, OnStartPanics, Goto
  <2>5. CASE OnStartFails
    BY <2>5, <1>1 DEF OnStartFails, GiveUp
  <2>6. CASE StopInside
    BY <2>6, CloseFrame DEF StopInside
  <2>. QED
    BY <1>3, <2>1, <2>2, <2>3, <2>4, <2>5, <2>6 DEF User
<1>4. CASE Driver
  <2>1. CASE KeepProbing \/ Listen \/ DialOk \/ AllOpen \/ Ready \/ Notify \/ Trigger
    BY <2>1, <1>2 DEF KeepProbing, Probing, Listen, DialOk, AllOpen, Ready, Notify, Trigger, Goto
  <2>2. ASSUME NEW ph \in Phases, FireCallback(ph) PROVE CloseInv'
    BY <2>2, CloseFrame DEF FireCallback
  <2>3. CASE BeforeDone
    <3>1. /\ \A b \in Bindings : shut'[b] = "no"
          /\ pc' = "close" /\ idx' = opened /\ opened' = opened /\ order' = order
      BY <2>3 DEF BeforeDone, LastToClose, CloseInv
    <3>2. ASSUME NEW k \in 1..opened PROVE order[k] \in Bindings /\ ~(k > opened)
      BY DEF TypeInv, TypeOK
    <3>. QED
      BY <3>1, <3>2 DEF CloseInv, SerialReverse, ShutAt
  <2>4. CASE SkipServeFunc
    <3>1. /\ pc = "close" /\ pc' = "close" /\ idx > 0 /\ idx' = idx - 1
          /\ order[idx] \in FuncBindings
          /\ UNCHANGED <<order, opened, shut>>
      BY <2>4 DEF SkipServeFunc, ClosingAt
    <3>2. order[idx] \notin HTTPBindings
      BY <3>1, LifecycleAssumption
    <3>3. (\A k \in 1..opened : order[k] \in HTTPBindings => shut[order[k]] = ShutAt(k))'
      BY <3>1, <3>2, Positions DEF CloseInv, ShutAt
    <3>. QED
      BY <3>1, <3>3, SerialFromIndex DEF CloseInv
  <2>5. CASE ShutdownBegin
    <3>1. /\ pc = "close" /\ pc' = "drain" /\ idx > 0
          /\ order[idx] \in HTTPBindings
          /\ shut' = [shut EXCEPT ![order[idx]] = "begun"]
          /\ UNCHANGED <<order, opened, idx>>
      BY <2>5 DEF ShutdownBegin, ClosingAt
    <3>2. \A k \in 1..opened : k # idx => order[k] # order[idx]
      BY <3>1, Positions
    <3>3. (\A k \in 1..opened : order[k] \in HTTPBindings => shut[order[k]] = ShutAt(k))'
      <4>1. ASSUME NEW k \in 1..opened, order[k] \in HTTPBindings
            PROVE  shut'[order[k]] = ShutAt(k)'
        <5>1. shut[order[k]] = ShutAt(k) /\ order[k] \in Bindings
          BY <3>1, <4>1, Positions DEF CloseInv
        <5>2. CASE k = idx
          BY <3>1, <5>1, <5>2, Positions DEF ShutAt, TypeInv, TypeOK
        <5>3. CASE k # idx
          BY <3>1, <3>2, <4>1, <5>1, <5>3, Positions DEF ShutAt, TypeInv, TypeOK
        <5>. QED
          BY <5>2, <5>3
      <4>. QED
        BY <3>1, <4>1
    <3>. QED
      BY <3>1, <3>3, SerialFromIndex DEF CloseInv
  <2>6. CASE ShutdownEnd
    <3>1. /\ pc = "drain" /\ pc' = "close" /\ idx > 0 /\ idx' = idx - 1
          /\ order[idx] \in HTTPBindings
          /\ shut' = [shut EXCEPT ![order[idx]] = "returned"]
          /\ UNCHANGED <<order, opened>>
      BY <2>6 DEF ShutdownEnd, ClosingAt, CloseInv, TypeInv
    <3>2. \A k \in 1..opened : k # idx => order[k] # order[idx]
      BY <3>1, Positions
    <3>3. (\A k \in 1..opened : order[k] \in HTTPBindings => shut[order[k]] = ShutAt(k))'
      <4>1. ASSUME NEW k \in 1..opened, order[k] \in HTTPBindings
            PROVE  shut'[order[k]] = ShutAt(k)'
        <5>1. shut[order[k]] = ShutAt(k) /\ order[k] \in Bindings
          BY <3>1, <4>1, Positions DEF CloseInv
        <5>2. CASE k = idx
          BY <3>1, <5>1, <5>2, Positions DEF ShutAt, TypeInv, TypeOK
        <5>3. CASE k # idx
          <6>1. shut'[order[k]] = shut[order[k]]
            <7>1. order[k] # order[idx]
              BY <3>2, <5>3
            <7>2. DOMAIN shut = Bindings
              BY DEF TypeInv, TypeOK
            <7>. QED
              BY <3>1, <5>1, <7>1, <7>2
          <6>2. idx \in Nat /\ k \in Nat
            BY Positions
          <6>3. CASE k > idx
            BY <3>1, <5>1, <6>1, <6>2, <6>3 DEF ShutAt
          <6>4. CASE k < idx
            BY <3>1, <5>1, <6>1, <6>2, <6>4 DEF ShutAt
          <6>. QED
            BY <5>3, <6>2, <6>3, <6>4
        <5>. QED
          BY <5>2, <5>3
      <4>. QED
        BY <3>1, <4>1
    <3>. QED
      BY <3>1, <3>3, SerialFromIndex DEF CloseInv
  <2>7. CASE AllClosed \/ OnStop \/ CleanBegin \/ CleanOne \/ Return
    <3>1. /\ pc \in {"close"} \cup PastDrain /\ idx = 0 /\ pc' \in PastDrain
          /\ UNCHANGED <<order, opened, idx, shut>>
      BY <2>7 DEF AllClosed, OnStop, CleanBegin, CleanOne, Return, Goto, CloseInv
    <3>. QED
      BY <3>1 DEF CloseInv, SerialReverse, ShutAt
  <2>. QED
    BY <1>1, <1>4, <2>1, <2>2, <2>3, <2>4, <2>5, <2>6, <2>7, StartupSteps DEF Driver
<1>5. ASSUME NEW b \in Bindings, ServeLoop(b) PROVE CloseInv'
  BY <1>5, CloseFrame
  DEF ServeLoop, ServeBegins, ServeReturns, FuncReturns, Classify, ServeStep
<1>6. ASSUME NEW s \in Stoppers, StopCall(s) PROVE CloseInv'
  <2>1. CASE StopWins(s)
    BY <2>1, <1>2 DEF StopWins
  <2>2. CASE StopLoses(s) \/ StopReturns(s)
    BY <2>2, CloseFrame DEF StopLoses, StopReturns
  <2>. QED
    BY <1>6, <2>1, <2>2 DEF StopCall
<1>7. CASE Environment
  <2>1. CASE Signal /\ pc' = "killed"
    BY <2>1 DEF Signal, CloseInv, SerialReverse
  <2>2. CASE UNCHANGED <<pc, order, opened, idx, shut>>
    BY <2>2, CloseFrame
  <2>. QED
    BY <1>7, <2>1, <2>2
    DEF Environment, ConnBusy, ConnDone, CallerCancels, StartDeadline, StopDeadline, Signal
<1>. QED
  BY <1>3, <1>4, <1>5, <1>6, <1>7 DEF Next

\* DrainInv is preserved: nothing starts again once Shutdown has returned.
LEMMA DrainStep == ASSUME TypeInv, CloseInv, DrainInv, Next PROVE DrainInv'
<1> USE DEF TypeInv, TypeOK, DrainInv, ShutdownCtxDone
<1>1. CASE GiveUp
  <2>1. \A b \in Bindings : shut'[b] = "no"
    BY <1>1 DEF GiveUp, CloseInv
  <2>. QED
    BY <2>1 DEF Bindings
<1>2. CASE /\ UNCHANGED <<loop, shut, busy, mode, failed, callerDone, stopExpired>>
           /\ shutErr => shutErr'
  BY <1>2
<1>3. CASE User
  BY <1>3, <1>1, <1>2, StartupSteps
  DEF User, AddBinding, AddCallback, AddCleanup, OnStartOk, OnStartPanics, StopInside, Goto, KeepProbing
<1>4. CASE Driver
  <2>1. CASE Listen
    BY <2>1 DEF Listen
  <2>2. CASE ShutdownBegin
    BY <2>2 DEF ShutdownBegin
  <2>3. CASE ShutdownEnd
    <3>1. PICK b \in Bindings :
            /\ loop[b] # "serving"
            /\ busy[b] = 0 \/ (ShutdownCtxDone /\ shutErr')
            /\ shutErr => shutErr'
            /\ shut' = [shut EXCEPT ![b] = "returned"]
      <4>1. order[idx] \in Bindings
        BY <2>3, Positions DEF ShutdownEnd, TypeInv
      <4>2. PICK err \in BOOLEAN : /\ busy[order[idx]] > 0 => ShutdownCtxDone /\ err
                                   /\ Collect(err)
        BY <2>3 DEF ShutdownEnd, ClosingAt
      <4>3. busy[order[idx]] \in 0..MaxConns
        BY <4>1
      <4>4. busy[order[idx]] = 0 \/ (ShutdownCtxDone /\ err)
        BY <4>2, <4>3, LifecycleAssumption
      <4>5. (shutErr => shutErr') /\ (err => shutErr')
        BY <4>2 DEF Collect
      <4>. QED
        BY <2>3, <4>1, <4>4, <4>5 DEF ShutdownEnd, ClosingAt
    <3>2. UNCHANGED <<loop, busy, mode, failed, callerDone, stopExpired>>
      BY <2>3 DEF ShutdownEnd
    <3>3. HTTPBindings \subseteq Bindings
      BY DEF Bindings
    <3>4. ASSUME NEW c \in HTTPBindings, shut'[c] = "returned"
          PROVE  loop'[c] # "serving" /\ (busy'[c] = 0 \/ (ShutdownCtxDone /\ shutErr)')
      <4>1. CASE c = b
        BY <3>1, <3>2, <4>1
      <4>2. CASE c # b
        BY <3>1, <3>2, <3>3, <3>4, <4>2
      <4>. QED
        BY <4>1, <4>2
    <3>. QED
      BY <3>4
  <2>4. CASE KeepProbing
    BY <2>4, <1>2 DEF KeepProbing
  <2>5. CASE DialOk \/ AllOpen \/ (\E ph \in Phases : FireCallback(ph)) \/ Ready \/ Notify
    BY <2>5, <1>2 DEF DialOk, AllOpen, FireCallback, Ready, Notify, Goto
  <2>6. CASE Trigger \/ BeforeDone \/ SkipServeFunc \/ AllClosed \/ OnStop
    BY <2>6, <1>2 DEF Trigger, BeforeDone, SkipServeFunc, AllClosed, OnStop, Collect, Goto
  <2>7. CASE CleanBegin \/ CleanOne \/ Return
    BY <2>7, <1>2 DEF CleanBegin, CleanOne, Return
  <2>. QED
    BY <1>1, <1>4, <2>1, <2>2, <2>3, <2>4, <2>5, <2>6, <2>7, StartupSteps DEF Driver
<1>5. ASSUME NEW b \in Bindings, ServeLoop(b) PROVE DrainInv'
  <2>1. UNCHANGED <<shut, busy, mode, failed, callerDone, stopExpired, shutErr>>
    BY <1>5 DEF ServeLoop, ServeBegins, ServeReturns, FuncReturns, Classify, ServeStep
  <2>2. \A c \in HTTPBindings : loop'[c] = "serving" => loop[c] = "serving" \/ shut[c] = "no"
    BY <1>5 DEF ServeLoop, ServeBegins, ServeReturns, FuncReturns, Classify, ServeStep, Bindings
  <2>. QED
    BY <2>1, <2>2
<1>6. ASSUME NEW s \in Stoppers, StopCall(s) PROVE DrainInv'
  BY <1>6, <1>2 DEF StopCall, StopWins, StopLoses, StopReturns
<1>7. CASE Environment
  <2>1. ASSUME NEW b \in Bindings, ConnBusy(b) PROVE DrainInv'
    <3>1. b \in HTTPBindings /\ shut[b] # "returned"
      BY <2>1 DEF ConnBusy
    <3>. QED
      BY <2>1, <3>1 DEF ConnBusy, Bindings
  <2>2. ASSUME NEW b \in Bindings, ConnDone(b) PROVE DrainInv'
    BY <2>2, LifecycleAssumption DEF ConnDone
  <2>3. CASE CallerCancels \/ StopDeadline
    BY <2>3 DEF CallerCancels, StopDeadline
  <2>4. CASE StartDeadline \/ Signal
    BY <2>4, <1>2 DEF StartDeadline, Signal
  <2>. QED
    BY <1>7, <2>1, <2>2, <2>3, <2>4 DEF Environment
<1>. QED
  BY <1>3, <1>4, <1>5, <1>6, <1>7 DEF Next

\* CallInv is preserved: no callback is registered for a pass that is over.
LEMMA CallStep == ASSUME TypeInv, CloseInv, CallInv, Next PROVE CallInv'
<1> USE DEF CallInv, CallbacksComplete, PassOver, Phases, Stopping, PastDrain, Startup, Probing
<1>1. pc \in Startup \cup {"up", "select", "before"} => \A b \in Bindings : shut[b] = "no"
  BY DEF CloseInv
<1>2. CASE GiveUp
  BY <1>1, <1>2 DEF GiveUp, Abort, AbortTo
<1>3. CASE KeepProbing
  BY <1>3 DEF KeepProbing
<1>4. CASE User
  <2>1. ASSUME NEW ph \in Phases, AddCallback(ph) PROVE CallInv'
    BY <1>1, <2>1 DEF AddCallback, TypeInv, TypeOK
  <2>2. CASE OnStartFails
    BY <1>2, <2>2 DEF OnStartFails, GiveUp
  <2>3. ASSUME UNCHANGED <<shut, failed, regd, fired>>,
               pc' = pc \/ pc' = "open" \/ (pc' = "panicked" /\ pc = "onstart")
        PROVE  CallInv'
    BY <1>1, <2>3
  <2>. QED
    BY <1>4, <2>1, <2>2, <2>3
    DEF User, AddBinding, AddCleanup, OnStartOk, OnStartPanics, StopInside, Goto
<1>5. CASE Driver
  <2>1. CASE Listen \/ DialOk \/ AllOpen
    BY <1>1, <2>1 DEF Listen, DialOk, AllOpen, Goto
  <2>2. ASSUME NEW ph \in Phases, FireCallback(ph) PROVE CallInv'
    BY <1>1, <2>2 DEF FireCallback, TypeInv, TypeOK
  <2>3. CASE Ready \/ Notify \/ Trigger \/ BeforeDone
    BY <1>1, <2>3 DEF Ready, Notify, Trigger, BeforeDone, Goto
  <2>4. CASE SkipServeFunc \/ ShutdownBegin \/ ShutdownEnd \/ AllClosed
    BY <2>4 DEF SkipServeFunc, ShutdownBegin, ShutdownEnd, AllClosed, Goto
  <2>5. CASE OnStop \/ CleanBegin \/ CleanOne \/ Return
    BY <2>5 DEF OnStop, CleanBegin, CleanOne, Return
  <2>. QED
    BY <1>2, <1>3, <1>5, <2>1, <2>2, <2>3, <2>4, <2>5, StartupSteps DEF Driver
<1>6. ASSUME NEW b \in Bindings, ServeLoop(b) PROVE CallInv'
  BY <1>6 DEF ServeLoop, ServeBegins, ServeReturns, FuncReturns, Classify, ServeStep
<1>7. ASSUME NEW s \in Stoppers, StopCall(s) PROVE CallInv'
  BY <1>1, <1>7 DEF StopCall, StopWins, StopLoses, StopReturns
<1>8. CASE Environment
  BY <1>8 DEF Environment, ConnBusy, ConnDone, CallerCancels, StartDeadline, StopDeadline, Signal
<1>. QED
  BY <1>4, <1>5, <1>6, <1>7, <1>8 DEF Next

\* OnceInv is preserved: only the end of the sequence releases the callers.
LEMMA OnceStep == ASSUME TypeInv, OnceInv, Next PROVE OnceInv'
<1> USE DEF TypeInv, TypeOK, OnceInv, Stopping, PastDrain, Startup, Probing
<1>1. CASE GiveUp
  BY <1>1 DEF GiveUp, Abort, RaiseFlag, LastToClose, AbortTo
<1>2. CASE KeepProbing
  BY <1>2 DEF KeepProbing
<1>3. CASE User
  BY <1>3, <1>1, <1>2, StartupSteps
  DEF User, AddBinding, AddCallback, AddCleanup, Pile!Register, OnStartOk, OnStartPanics, StopInside, Goto
<1>4. CASE Driver
  BY <1>4, <1>1, <1>2, StartupSteps
  DEF Driver, Listen, DialOk, AllOpen, FireCallback, Ready, Notify, Trigger, RaiseFlag,
      BeforeDone, LastToClose, SkipServeFunc, ShutdownBegin, ShutdownEnd, AllClosed, OnStop, CleanBegin,
      Pile!Begin, CleanOne, Pile!RunTop, Return, Pile!Finish, Goto, ClosingAt
<1>5. ASSUME NEW b \in Bindings, ServeLoop(b) PROVE OnceInv'
  BY <1>5 DEF ServeLoop, ServeBegins, ServeReturns, FuncReturns, Classify, ServeStep
<1>6. ASSUME NEW s \in Stoppers, StopCall(s) PROVE OnceInv'
  BY <1>6 DEF StopCall, StopWins, StopLoses, StopReturns, RaiseFlag, OnceOver
<1>7. CASE Environment
  BY <1>7 DEF Environment, ConnBusy, ConnDone, CallerCancels, StartDeadline, StopDeadline, Signal
<1>. QED
  BY <1>3, <1>4, <1>5, <1>6, <1>7 DEF Next


\* CleanInv is preserved: the pile moves with the driver and not by itself.
LEMMA CleanStep == ASSUME TypeInv, CleanInv, Next PROVE CleanInv'
<1> USE DEF TypeInv, TypeOK, CleanInv, Alive, Stopping, PastDrain, Startup, Probing
<1>1. CASE GiveUp
  BY <1>1 DEF GiveUp, Abort, RaiseFlag, LastToClose, AbortTo
<1>2. CASE KeepProbing
  BY <1>2 DEF KeepProbing
<1>3. CASE User
  BY <1>3, <1>1, <1>2, StartupSteps
  DEF User, AddBinding, AddCallback, AddCleanup, Pile!Register, OnStartOk, OnStartPanics, StopInside, Goto
<1>4. CASE Driver
  BY <1>4, <1>1, <1>2, StartupSteps
  DEF Driver, Listen, DialOk, AllOpen, FireCallback, Ready, Notify, Trigger, RaiseFlag,
      BeforeDone, LastToClose, SkipServeFunc, ShutdownBegin, ShutdownEnd, AllClosed, OnStop, CleanBegin,
      Pile!Begin, CleanOne, Pile!RunTop, Return, Pile!Finish, Goto, ClosingAt
<1>5. ASSUME NEW b \in Bindings, ServeLoop(b) PROVE CleanInv'
  BY <1>5 DEF ServeLoop, ServeBegins, ServeReturns, FuncReturns, Classify, ServeStep
<1>6. ASSUME NEW s \in Stoppers, StopCall(s) PROVE CleanInv'
  BY <1>6 DEF StopCall, StopWins, StopLoses, StopReturns, RaiseFlag, OnceOver
<1>7. CASE Environment
  BY <1>7 DEF Environment, ConnBusy, ConnDone, CallerCancels, StartDeadline, StopDeadline, Signal
<1>. QED
  BY <1>3, <1>4, <1>5, <1>6, <1>7 DEF Next

-----------------------------------------------------------------------------
(***************************************************************************)
(* The theorems                                                            *)
(***************************************************************************)

\* The invariant holds before OnStart.
LEMMA InitIInv == Init => IInv
<1> SUFFICES ASSUME Init PROVE IInv
  OBVIOUS
<1>1. TypeInv
  BY InitTypeInv
<1>2. FlagInv
  BY DEF Init, Pile!Init, FlagInv, InducedExitIsExpected, Stopping, PastDrain
<1>3. CloseInv
  BY DEF Init, CloseInv, SerialReverse, Startup, PastDrain
<1>4. DrainInv
  BY DEF Init, DrainInv, Bindings
<1>5. CallInv
  BY DEF Init, CallInv, CallbacksComplete, PastDrain
<1>6. OnceInv
  BY DEF Init, OnceInv
<1>7. CleanInv
  BY DEF Init, Pile!Init, CleanInv
<1>. QED
  BY <1>1, <1>2, <1>3, <1>4, <1>5, <1>6, <1>7 DEF IInv

\* The invariant is inductive.
LEMMA NextIInv == IInv /\ [Next]_vars => IInv'
<1> SUFFICES ASSUME IInv, [Next]_vars PROVE IInv'
  OBVIOUS
<1>1. TypeInv'
  BY NextTypeInv DEF IInv
<1>2. CASE Next
  BY <1>1, <1>2, FlagStep, CloseStep, DrainStep, CallStep, OnceStep, CleanStep DEF IInv
<1>3. CASE UNCHANGED vars
  BY <1>1, <1>3
  DEF vars, IInv, FlagInv, CloseInv, DrainInv, CallInv, OnceInv, CleanInv, ShutAt,
      InducedExitIsExpected, SerialReverse, ShutdownCtxDone, CallbacksComplete, Alive
<1>. QED
  BY <1>2, <1>3

\* The invariant holds throughout.
LEMMA SpecIInv == Spec => []IInv
  BY InitIInv, NextIInv, PTL DEF Spec

\* scaffold.go:176 and ADR-0002: bindings are shut down one at a time, the last
\* one added first, whatever fails or times out.
THEOREM LifecycleSerialReverse == Spec => []SerialReverse
<1>1. IInv => SerialReverse
  BY DEF IInv, CloseInv
<1>. QED
  BY <1>1, SpecIInv, PTL

\* scaffold.go:44: when OnStop and the cleanup functions run, every HTTP binding
\* that was opened has stopped serving and has drained or run out of time.
THEOREM LifecycleDrainedBeforeOnStop == Spec => []DrainedBeforeOnStop
<1>1. IInv => DrainedBeforeOnStop
  <2>1. ASSUME IInv, pc \in PastDrain, NEW k \in 1..opened, order[k] \in HTTPBindings
        PROVE  /\ shut[order[k]] = "returned"
               /\ loop[order[k]] # "serving"
               /\ busy[order[k]] = 0 \/ ShutdownCtxDone
    <3>1. shut[order[k]] = "returned"
      BY <2>1 DEF IInv, CloseInv, ShutAt
    <3>. QED
      BY <2>1, <3>1 DEF IInv, DrainInv
  <2>. QED
    BY <2>1 DEF DrainedBeforeOnStop
<1>. QED
  BY <1>1, SpecIInv, PTL

\* scaffold.go:177: a Stop that answers nil abandoned no connection of any binding,
\* however many there are, whenever the time was up and whatever failed afterwards.
THEOREM LifecycleAbandonedIsReported == Spec => AbandonedIsReported
<1>1. ASSUME IInv, [Next]_vars
      PROVE  [\A s \in Stoppers : (stop[s] = "running" /\ stop'[s] = "nil") =>
                \A k \in 1..opened : order[k] \in HTTPBindings => busy[order[k]] = 0]_vars
  <2> SUFFICES ASSUME Next, NEW s \in Stoppers, stop[s] = "running", stop'[s] = "nil",
                      NEW k \in 1..opened, order[k] \in HTTPBindings
               PROVE  busy[order[k]] = 0
    BY <1>1
  <2>1. CASE Return
    <3>1. pc = "cleaning" /\ ~shutErr
      BY <2>1 DEF Return
    <3>2. shut[order[k]] = "returned"
      BY <1>1, <3>1 DEF IInv, CloseInv, ShutAt, PastDrain
    <3>. QED
      BY <1>1, <3>1, <3>2 DEF IInv, DrainInv
  <2>2. CASE Driver /\ ~Return
    <3>1. UNCHANGED stop
      BY <2>2, StartupSteps
      DEF Driver, Listen, GiveUp, Abort, KeepProbing, DialOk, AllOpen, FireCallback, Ready,
          Notify, Trigger, BeforeDone, SkipServeFunc, ShutdownBegin, ShutdownEnd, AllClosed,
          OnStop, CleanBegin, CleanOne, Goto
    <3>. QED
      BY <3>1
  <2>3. CASE User
    <3>1. UNCHANGED stop
      BY <2>3, StartupSteps
      DEF User, AddBinding, AddCallback, AddCleanup, OnStartOk, GiveUp, Abort, KeepProbing,
          OnStartPanics, StopInside, Goto
    <3>. QED
      BY <3>1
  <2>4. ASSUME NEW b \in Bindings, ServeLoop(b) PROVE UNCHANGED stop
    BY <2>4 DEF ServeLoop, ServeBegins, ServeReturns, FuncReturns, Classify, ServeStep
  <2>5. ASSUME NEW c \in Stoppers, StopCall(c) PROVE ~(stop[s] = "running" /\ stop'[s] = "nil")
    BY <1>1, <2>5 DEF StopCall, StopWins, StopLoses, StopReturns, IInv, TypeInv, TypeOK
  <2>6. CASE Environment
    <3>1. UNCHANGED stop
      BY <2>6 DEF Environment, ConnBusy, ConnDone, CallerCancels, StartDeadline,
                  StopDeadline, Signal
    <3>. QED
      BY <3>1
  <2>. QED
    BY <2>1, <2>2, <2>3, <2>4, <2>5, <2>6 DEF Next
<1>. QED
  BY <1>1, SpecIInv, PTL DEF Spec, AbandonedIsReported

\* ADR-0003 and scaffold.go:595: a serve loop that scaffold made return is never
\* reported as a surprise.
THEOREM LifecycleInducedExitIsExpected == Spec => []InducedExitIsExpected
<1>1. IInv => InducedExitIsExpected
  BY DEF IInv, FlagInv
<1>. QED
  BY <1>1, SpecIInv, PTL

\* scaffold.go:70-84: the callbacks registered for a phase have all been called
\* when the phase is over, also those that callbacks registered.
THEOREM LifecycleCallbacksComplete == Spec => []CallbacksComplete
<1>1. IInv => CallbacksComplete
  BY DEF IInv, CallInv
<1>. QED
  BY <1>1, SpecIInv, PTL

\* scaffold.go:147: nobody is told that the daemon has stopped before it has.
THEOREM LifecycleStopReturnsAfterShutdown == Spec => []StopReturnsAfterShutdown
<1>1. IInv => StopReturnsAfterShutdown
  BY DEF IInv, OnceInv, StopReturnsAfterShutdown
<1>. QED
  BY <1>1, SpecIInv, PTL

\* scaffold.go:144: every path that returns has run every cleanup function.
THEOREM LifecycleCleanerAlwaysRuns == Spec => []CleanerAlwaysRuns
<1>1. IInv => CleanerAlwaysRuns
  BY DEF IInv, CleanInv, Alive, CleanerAlwaysRuns
<1>. QED
  BY <1>1, SpecIInv, PTL

-----------------------------------------------------------------------------
(***************************************************************************)
(* The implementation of DaemonSpec                                        *)
(***************************************************************************)

\* Startup has not failed as long as it goes on, and where a signal would kill
\* the process nothing but a failed startup is being torn down.
StageInv ==
    /\ pc \in Startup \cup {"up", "select", "before"} => ~failed
    /\ mode = "serve" /\ ~failed /\ pc \in ({"select"} \cup Stopping) \ {"returned"} => notified

\* The number of bindings that are up.
LiveCount == IF failed \/ pc \in PastDrain \cup {"close", "drain"} THEN idx ELSE opened

Live == SubSeq(order, 1, LiveCount)

Stage == CASE pc \in {"close", "drain"}        -> "down"
           [] pc = "onstop"                   -> "hook"
           [] pc \in {"clean", "cleaning"}     -> "clean"
           [] pc = "returned"                 -> "over"
           [] pc \in {"killed", "panicked"}    -> "dead"
           [] OTHER                           -> "up"

\* StageInv is preserved.
LEMMA StageStep == ASSUME TypeInv, StageInv, OnceInv, Next PROVE StageInv'
<1> USE DEF StageInv, OnceInv, Stopping, PastDrain, Startup, Probing
<1>1. CASE GiveUp
  BY <1>1 DEF GiveUp, Abort, AbortTo
<1>2. CASE KeepProbing
  BY <1>2 DEF KeepProbing
<1>3. CASE User
  BY <1>3, <1>1, <1>2, StartupSteps
  DEF User, AddBinding, AddCallback, AddCleanup, OnStartOk, OnStartPanics, StopInside, Goto
<1>4. CASE Driver
  <2>1. CASE Listen \/ DialOk \/ AllOpen \/ Ready \/ Notify \/ Trigger \/ BeforeDone
    BY <2>1 DEF Listen, DialOk, AllOpen, Ready, Notify, Trigger, BeforeDone, Goto
  <2>2. ASSUME NEW ph \in Phases, FireCallback(ph) PROVE StageInv'
    BY <2>2 DEF FireCallback
  <2>3. CASE SkipServeFunc \/ ShutdownBegin \/ ShutdownEnd \/ AllClosed
    BY <2>3 DEF SkipServeFunc, ShutdownBegin, ShutdownEnd, AllClosed, Goto
  <2>4. CASE OnStop \/ CleanBegin \/ CleanOne \/ Return
    BY <2>4 DEF OnStop, CleanBegin, CleanOne, Return
  <2>. QED
    BY <1>1, <1>2, <1>4, <2>1, <2>2, <2>3, <2>4, StartupSteps DEF Driver
<1>5. ASSUME NEW b \in Bindings, ServeLoop(b) PROVE StageInv'
  BY <1>5 DEF ServeLoop, ServeBegins, ServeReturns, FuncReturns, Classify, ServeStep
<1>6. ASSUME NEW s \in Stoppers, StopCall(s) PROVE StageInv'
  BY <1>6 DEF StopCall, StopWins, StopLoses, StopReturns
<1>7. CASE Environment
  BY <1>7 DEF Environment, ConnBusy, ConnDone, CallerCancels, StartDeadline, StopDeadline, Signal
<1>. QED
  BY <1>3, <1>4, <1>5, <1>6, <1>7 DEF Next

\* A prefix of a sequence does not see what is appended to it.
LEMMA SubSeqAppend == ASSUME NEW S, NEW s \in Seq(S), NEW x \in S, NEW n \in 0..Len(s)
                      PROVE  SubSeq(Append(s, x), 1, n) = SubSeq(s, 1, n)
  OBVIOUS

\* A prefix is as long as was asked for.
LEMMA SubSeqLen == ASSUME NEW S, NEW s \in Seq(S), NEW n \in 0..Len(s)
                   PROVE  Len(SubSeq(s, 1, n)) = n
  OBVIOUS

\* A prefix grows by the next element.
LEMMA SubSeqGrow == ASSUME NEW S, NEW s \in Seq(S), NEW n \in 0..(Len(s) - 1)
                    PROVE  SubSeq(s, 1, n + 1) = Append(SubSeq(s, 1, n), s[n + 1])
  OBVIOUS

\* A prefix shrinks by its last element.
LEMMA SubSeqShrink == ASSUME NEW S, NEW s \in Seq(S), NEW n \in 1..Len(s)
                      PROVE  /\ SubSeq(s, 1, n) # <<>>
                             /\ SubSeq(SubSeq(s, 1, n), 1, Len(SubSeq(s, 1, n)) - 1)
                                  = SubSeq(s, 1, n - 1)
<1>1. Len(SubSeq(s, 1, n)) = n
  OBVIOUS
<1>2. SubSeq(SubSeq(s, 1, n), 1, n - 1) = SubSeq(s, 1, n - 1)
  OBVIOUS
<1>. QED
  BY <1>1, <1>2

\* A daemon before OnStart is one with nothing up.
LEMMA PromiseInit == Init => Promise!Init
<1> SUFFICES ASSUME Init PROVE Promise!Init
  OBVIOUS
<1>1. SubSeq(<<>>, 1, 0) = <<>>
  OBVIOUS
<1>2. /\ order = <<>> /\ opened = 0 /\ ~failed /\ pc = "onstart"
      /\ pending = <<>> /\ ran = <<>> /\ cphase = "open"
  BY DEF Init, Pile!Init
<1>. QED
  BY <1>1, <1>2 DEF Promise!Init, Promise!Pile!Init, PastDrain

\* A step that leaves the stage, the live bindings and the pile alone.
LEMMA Stutter == ASSUME Stage' = Stage, Live' = Live, UNCHANGED pileVars
                 PROVE  UNCHANGED Promise!daemonVars
  BY DEF Promise!daemonVars, Stage, Live, LiveCount

\* Giving startup up is GoDown.
LEMMA PromiseGiveUp == ASSUME StageInv, GiveUp PROVE Promise!GoDown
<1> USE DEF PastDrain, Startup
<1>1. Stage = "up" /\ Stage' = "down"
  BY DEF GiveUp, Abort, AbortTo, Stage
<1>2. LiveCount = opened /\ LiveCount' = opened /\ order' = order
  BY DEF GiveUp, Abort, LastToClose, StageInv, LiveCount
<1>. QED
  BY <1>1, <1>2 DEF GiveUp, Abort, Promise!GoDown, Stage, Live, LiveCount

\* User code registers cleanup functions, makes OnStart fail or panic, or does
\* nothing the promise can see.
LEMMA PromiseUser == ASSUME TypeInv, TypeInv', StageInv, StageInv', User
                     PROVE  [Promise!Next]_(Promise!daemonVars)
<1> USE DEF PastDrain, Startup
<1>1. ASSUME NEW b \in Bindings, AddBinding(b) PROVE UNCHANGED Promise!daemonVars
  <2>1. LiveCount \in 0..Len(order) /\ LiveCount' = LiveCount
    BY <1>1 DEF AddBinding, LiveCount, TypeInv, TypeOK
  <2>2. Live' = Live
    BY <1>1, <2>1, SubSeqAppend DEF AddBinding, Live, TypeInv, TypeOK
  <2>. QED
    BY <1>1, <2>2, Stutter DEF AddBinding, Stage
<1>2. ASSUME NEW ph \in Phases, AddCallback(ph) PROVE UNCHANGED Promise!daemonVars
  BY <1>2, Stutter DEF AddCallback, Stage, Live, LiveCount
<1>3. ASSUME NEW f \in Fns, AddCleanup(f) PROVE Promise!Register(f)
  <2>1. Stage # "dead"
    BY <1>3 DEF AddCleanup, Alive, Stage
  <2>2. Stage' = Stage /\ Live' = Live
    BY <1>3 DEF AddCleanup, Stage, Live, LiveCount
  <2>. QED
    BY <1>3, <2>1, <2>2
    DEF AddCleanup, Pile!Register, Promise!Register, Promise!Pile!Register, Stage, Live, LiveCount
<1>4. CASE OnStartOk
  BY <1>4, Stutter DEF OnStartOk, Goto, Stage, Live, LiveCount
<1>5. CASE OnStartFails
  <2>1. GiveUp
    BY <1>5 DEF OnStartFails, GiveUp
  <2>. QED
    BY <2>1, PromiseGiveUp DEF Promise!Next
<1>6. CASE OnStartPanics
  BY <1>6 DEF OnStartPanics, Goto, Promise!Die, Promise!Next
<1>7. CASE StopInside
  BY <1>7, Stutter DEF StopInside, Stage, Live, LiveCount
<1>. QED
  BY <1>1, <1>2, <1>3, <1>4, <1>5, <1>6, <1>7 DEF User, Promise!Next

\* Every step of the driver is the step of the promise for its stage, or none.
LEMMA PromiseDriver == ASSUME TypeInv, StageInv, CloseInv, CleanInv, Driver
                       PROVE  [Promise!Next]_(Promise!daemonVars)
<1> USE DEF PastDrain, Startup
<1>1. CASE GiveUp
  BY <1>1, PromiseGiveUp DEF Promise!Next
<1>2. CASE KeepProbing
  BY <1>2, Stutter DEF KeepProbing, Probing, Stage, Live, LiveCount
<1>3. CASE DialOk
  <2>1. ~failed /\ pc = "dial" /\ pc' = "open" /\ opened' = opened + 1
        /\ UNCHANGED <<order, failed, pileVars>>
    BY <1>3 DEF DialOk, StageInv
  <2>2. order \in Seq(Bindings) /\ opened \in 0..(Len(order) - 1)
    BY <2>1 DEF TypeInv, TypeOK, Probing
  <2>3. Live = SubSeq(order, 1, opened) /\ Live' = SubSeq(order, 1, opened + 1)
    BY <2>1 DEF Live, LiveCount
  <2>4. Live' = Append(Live, order[opened + 1])
    BY <2>2, <2>3, SubSeqGrow
  <2>5. order[opened + 1] \in Bindings
    BY <2>2
  <2>6. \A k \in DOMAIN Live : Live[k] # order[opened + 1]
    <3>1. \A j, k \in DOMAIN order : order[j] = order[k] => j = k
      BY DEF TypeInv, TypeOK
    <3>2. ASSUME NEW k \in DOMAIN Live
          PROVE  k \in 1..opened /\ Live[k] = order[k]
      BY <2>2, <2>3
    <3>. QED
      BY <2>2, <3>1, <3>2
  <2>7. Stage = "up" /\ Stage' = "up"
    BY <2>1 DEF Stage
  <2>8. Promise!Open(order[opened + 1])
    BY <2>1, <2>4, <2>6, <2>7 DEF Promise!Open, Stage, Live, LiveCount
  <2>. QED
    BY <2>5, <2>8 DEF Promise!Next
<1>4. CASE Listen \/ AllOpen \/ Ready \/ Notify \/ Trigger
  <2>1. UNCHANGED <<order, opened, idx, failed, pileVars>>
    BY <1>4 DEF Listen, AllOpen, Ready, Notify, Trigger, Goto
  <2>2. /\ pc \in {"open", "onready", "notify", "select"}
        /\ pc' \in {"probe", "onready", "up", "notify", "select", "before"}
    BY <1>4 DEF Listen, AllOpen, Ready, Notify, Trigger, Goto
  <2>. QED
    BY <2>1, <2>2, Stutter DEF Stage, Live, LiveCount
<1>5. ASSUME NEW ph \in Phases, FireCallback(ph) PROVE UNCHANGED Promise!daemonVars
  BY <1>5, Stutter DEF FireCallback, Stage, Live, LiveCount
<1>6. CASE BeforeDone
  <2>1. Stage = "up" /\ Stage' = "down"
    BY <1>6 DEF BeforeDone, Stage
  <2>2. LiveCount = opened /\ LiveCount' = opened /\ order' = order
    BY <1>6 DEF BeforeDone, LastToClose, StageInv, LiveCount
  <2>. QED
    BY <1>6, <2>1, <2>2 DEF BeforeDone, Promise!GoDown, Promise!Next, Stage, Live, LiveCount
<1>7. CASE ShutdownBegin
  BY <1>7, Stutter DEF ShutdownBegin, Stage, Live, LiveCount
<1>8. CASE SkipServeFunc \/ ShutdownEnd
  <2>1. /\ pc \in {"close", "drain"} /\ pc' = "close" /\ idx > 0 /\ idx' = idx - 1
        /\ UNCHANGED <<order, pileVars>>
    BY <1>8 DEF SkipServeFunc, ShutdownEnd, TypeInv
  <2>2. order \in Seq(Bindings) /\ idx \in 1..Len(order)
    BY <2>1 DEF TypeInv, TypeOK
  <2>3. Live = SubSeq(order, 1, idx) /\ Live' = SubSeq(order, 1, idx - 1)
    BY <2>1 DEF Live, LiveCount
  <2>4. Live # <<>> /\ Live' = SubSeq(Live, 1, Len(Live) - 1)
    BY <2>2, <2>3, SubSeqShrink
  <2>5. Stage = "down" /\ Stage' = "down"
    BY <2>1 DEF Stage
  <2>. QED
    BY <2>1, <2>4, <2>5 DEF Promise!CloseLast, Promise!Next, Stage, Live, LiveCount
<1>9. CASE AllClosed
  <2>1. Stage = "down" /\ Stage' = "hook"
    BY <1>9 DEF AllClosed, Goto, Stage
  <2>2. Live = SubSeq(order, 1, 0) /\ Live' = Live
    BY <1>9 DEF AllClosed, Goto, Live, LiveCount
  <2>3. Live = <<>>
    BY <2>2 DEF TypeInv, TypeOK
  <2>. QED
    BY <1>9, <2>1, <2>2, <2>3
    DEF AllClosed, Goto, Promise!AllDown, Promise!Next, Stage, Live, LiveCount
<1>10. CASE OnStop
  <2>1. Stage = "hook" /\ Stage' = "clean" /\ Live' = Live
    BY <1>10 DEF OnStop, Stage, Live, LiveCount
  <2>. QED
    BY <1>10, <2>1 DEF OnStop, Promise!Hook, Promise!Next, Stage, Live, LiveCount
<1>11. CASE CleanBegin
  <2>1. Stage = "clean" /\ Stage' = "clean" /\ Live' = Live
    BY <1>11 DEF CleanBegin, Stage, Live, LiveCount
  <2>. QED
    BY <1>11, <2>1
    DEF CleanBegin, Pile!Begin, Promise!Clean, Promise!Pile!Begin, Promise!Next,
        Stage, Live, LiveCount
<1>12. CASE CleanOne
  <2>1. Stage = "clean" /\ Stage' = "clean" /\ Live' = Live
    BY <1>12 DEF CleanOne, Stage, Live, LiveCount
  <2>. QED
    BY <1>12, <2>1
    DEF CleanOne, Pile!RunTop, Promise!Clean, Promise!Pile!RunTop, Promise!Next,
        Stage, Live, LiveCount
<1>13. CASE Return
  <2>1. Stage = "clean" /\ Stage' = "over" /\ Live' = Live
    BY <1>13 DEF Return, Stage, Live, LiveCount
  <2>. QED
    BY <1>13, <2>1
    DEF Return, Pile!Finish, Promise!End, Promise!Pile!Finish, Promise!Next,
        Stage, Live, LiveCount
<1>. QED
  BY <1>1, <1>2, <1>3, <1>4, <1>5, <1>6, <1>7, <1>8, <1>9, <1>10, <1>11, <1>12, <1>13,
     StartupSteps DEF Driver

\* Serve loops, Stop calls and the environment do not show, but for the start of
\* a shutdown and for a signal nobody handles.
LEMMA PromiseOthers ==
    ASSUME TypeInv, StageInv, OnceInv,
           \/ \E b \in Bindings : ServeLoop(b)
           \/ \E s \in Stoppers : StopCall(s)
           \/ Environment
    PROVE  [Promise!Next]_(Promise!daemonVars)
<1> USE DEF PastDrain, Startup
<1>1. ASSUME NEW b \in Bindings, ServeLoop(b) PROVE UNCHANGED Promise!daemonVars
  <2>1. UNCHANGED <<pc, order, opened, idx, failed, pileVars>>
    BY <1>1 DEF ServeLoop, ServeBegins, ServeReturns, FuncReturns, Classify, ServeStep
  <2>. QED
    BY <2>1, Stutter DEF Stage, Live, LiveCount
<1>2. ASSUME NEW s \in Stoppers, StopCall(s) PROVE UNCHANGED Promise!daemonVars
  <2>1. /\ UNCHANGED <<order, opened, idx, failed, pileVars>>
        /\ pc' = pc \/ (pc = "up" /\ pc' = "before")
    BY <1>2 DEF StopCall, StopWins, StopLoses, StopReturns
  <2>. QED
    BY <2>1, Stutter DEF Stage, Live, LiveCount
<1>3. CASE Signal /\ pc' = "killed"
  <2>1. /\ UNCHANGED <<order, opened, idx, failed, pileVars>>
        /\ Alive /\ pc # "returned" /\ mode = "serve"
    BY <1>3 DEF Signal
  <2>2. CASE notified
    BY <1>3, <2>1, <2>2 DEF Signal, Alive
  <2>3. CASE ~notified
    <3>1. failed \/ pc \notin PastDrain \cup {"close", "drain"}
      BY <2>1, <2>3 DEF StageInv, Stopping
    <3>2. Live' = Live
      BY <1>3, <2>1, <3>1 DEF Live, LiveCount
    <3>3. Stage \notin {"over", "dead"} /\ Stage' = "dead"
      BY <1>3, <2>1 DEF Stage, Alive
    <3>. QED
      BY <2>1, <3>2, <3>3 DEF Promise!Die, Promise!Next, Stage, Live, LiveCount
  <2>. QED
    BY <2>2, <2>3
<1>4. CASE UNCHANGED <<pc, order, opened, idx, failed, pileVars>>
  BY <1>4, Stutter DEF Stage, Live, LiveCount
<1>5. ASSUME Environment
      PROVE  (Signal /\ pc' = "killed") \/ UNCHANGED <<pc, order, opened, idx, failed, pileVars>>
  BY <1>5
  DEF Environment, ConnBusy, ConnDone, CallerCancels, StartDeadline, StopDeadline, Signal
<1>. QED
  BY <1>1, <1>2, <1>3, <1>4, <1>5

\* scaffold.go: the daemon, with all its goroutines, failures and deadlines,
\* behaves like the one DaemonSpec describes.
THEOREM LifecycleImplementsPromise == Spec => ImplementsPromise
<1> DEFINE J == IInv /\ StageInv
<1>1. Init => J
  BY InitIInv DEF Init, StageInv, Stopping, PastDrain
<1>2. J /\ [Next]_vars => J'
  <2>1. ASSUME J, Next PROVE J'
    BY <2>1, NextIInv, StageStep DEF IInv
  <2>2. ASSUME J, UNCHANGED vars PROVE J'
    BY <2>2, NextIInv DEF vars, StageInv
  <2>. QED
    BY <2>1, <2>2
<1>3. J /\ J' /\ [Next]_vars => [Promise!Next]_(Promise!daemonVars)
  <2>1. ASSUME J, J', Next PROVE [Promise!Next]_(Promise!daemonVars)
    BY <2>1, PromiseUser, PromiseDriver, PromiseOthers DEF Next, IInv
  <2>2. ASSUME UNCHANGED vars PROVE UNCHANGED Promise!daemonVars
    BY <2>2, Stutter DEF vars, Stage, Live, LiveCount
  <2>. QED
    BY <2>1, <2>2
<1> HIDE DEF J
<1>. QED
  BY <1>1, <1>2, <1>3, PromiseInit, PTL DEF Spec, ImplementsPromise, Promise!Spec

-----------------------------------------------------------------------------
(***************************************************************************)
(* What is left at the end, and why the end comes                          *)
(***************************************************************************)

\* Only a binding that was opened, or the one that is being probed or was being
\* probed when startup was given up, has a goroutine.
SpawnInv ==
    \A b \in Bindings : loop[b] # "none" =>
        \E k \in DOMAIN order :
            /\ order[k] = b
            /\ k <= opened \/ (k = opened + 1 /\ (failed \/ pc \in Probing \cup {"killed"}))

\* A step that spawns nothing and goes no further in openBindings.
LEMMA SpawnFrame ==
    ASSUME SpawnInv, UNCHANGED <<order, opened>>, failed => failed',
           pc \in Probing \cup {"killed"} => failed' \/ pc' \in Probing \cup {"killed"},
           \A b \in Bindings : loop'[b] # "none" => loop[b] # "none"
    PROVE  SpawnInv'
  BY DEF SpawnInv

LEMMA SpawnStep == ASSUME TypeInv, StageInv, SpawnInv, Next PROVE SpawnInv'
<1> USE DEF Probing
<1>1. CASE GiveUp
  BY <1>1, SpawnFrame DEF GiveUp, Abort
<1>2. CASE KeepProbing
  BY <1>2, SpawnFrame DEF KeepProbing
<1>3. CASE User
  <2>1. ASSUME NEW b \in Bindings, AddBinding(b) PROVE SpawnInv'
    <3>1. /\ order' = Append(order, b) /\ order \in Seq(Bindings) /\ opened \in 0..Len(order)
          /\ pc = "onstart" /\ ~failed /\ UNCHANGED <<pc, opened, loop, failed>>
      BY <2>1 DEF AddBinding, TypeInv, TypeOK, StageInv, Startup
    <3>2. \A k \in DOMAIN order : k \in DOMAIN order' /\ order'[k] = order[k]
      BY <3>1
    <3>. QED
      BY <3>1, <3>2 DEF SpawnInv
  <2>2. CASE OnStartFails
    BY <2>2, <1>1, StartupSteps DEF OnStartFails, GiveUp, Startup
  <2>3. CASE OnStartPanics
    BY <2>3, SpawnFrame DEF OnStartPanics, Goto
  <2>4. CASE OnStartOk \/ StopInside
    BY <2>4, SpawnFrame DEF OnStartOk, StopInside, Goto
  <2>5. ASSUME NEW ph \in Phases, AddCallback(ph) PROVE SpawnInv'
    BY <2>5, SpawnFrame DEF AddCallback
  <2>6. ASSUME NEW f \in Fns, AddCleanup(f) PROVE SpawnInv'
    BY <2>6, SpawnFrame DEF AddCleanup
  <2>. QED
    BY <1>3, <2>1, <2>2, <2>3, <2>4, <2>5, <2>6 DEF User
<1>4. CASE Driver
  <2>1. CASE Listen
    <3>1. /\ opened \in 0..(Len(order) - 1) /\ order \in Seq(Bindings)
          /\ loop' = [loop EXCEPT ![order[opened + 1]] = "spawned"]
          /\ DOMAIN loop = Bindings /\ pc' = "probe" /\ pc = "open" /\ ~failed
          /\ UNCHANGED <<order, opened, failed>>
      BY <2>1 DEF Listen, Opening, TypeInv, TypeOK, StageInv, Startup
    <3>2. opened + 1 \in DOMAIN order
      BY <3>1
    <3>3. ASSUME NEW b \in Bindings, loop'[b] # "none", b # order[opened + 1]
          PROVE  \E k \in DOMAIN order : order[k] = b /\ k <= opened
      BY <3>1, <3>3 DEF SpawnInv
    <3>. QED
      BY <3>1, <3>2, <3>3 DEF SpawnInv
  <2>2. CASE DialOk
    <3>1. /\ opened' = opened + 1 /\ opened \in Nat /\ pc = "dial" /\ ~failed
          /\ order \in Seq(Bindings) /\ UNCHANGED <<order, loop, failed>>
      BY <2>2 DEF DialOk, TypeInv, TypeOK, StageInv, Startup
    <3>2. \A k \in DOMAIN order : k <= opened \/ k = opened + 1 => k <= opened'
      BY <3>1
    <3>. QED
      BY <3>1, <3>2 DEF SpawnInv
  <2>3. CASE AllOpen \/ Ready \/ Notify \/ Trigger \/ BeforeDone
    BY <2>3, SpawnFrame DEF AllOpen, Ready, Notify, Trigger, BeforeDone, Goto
  <2>4. ASSUME NEW ph \in Phases, FireCallback(ph) PROVE SpawnInv'
    BY <2>4, SpawnFrame DEF FireCallback
  <2>5. CASE SkipServeFunc \/ ShutdownBegin \/ ShutdownEnd \/ AllClosed
    BY <2>5, SpawnFrame DEF SkipServeFunc, ShutdownBegin, ShutdownEnd, AllClosed, Goto
  <2>6. CASE OnStop \/ CleanBegin \/ CleanOne \/ Return
    BY <2>6, SpawnFrame DEF OnStop, CleanBegin, CleanOne, Return
  <2>. QED
    BY <1>1, <1>2, <1>4, <2>1, <2>2, <2>3, <2>4, <2>5, <2>6, StartupSteps DEF Driver
<1>5. ASSUME NEW b \in Bindings, ServeLoop(b) PROVE SpawnInv'
  <2>1. /\ UNCHANGED <<order, opened, failed, pc>> /\ loop[b] # "none"
        /\ \E l : loop' = [loop EXCEPT ![b] = l]
    BY <1>5 DEF ServeLoop, ServeBegins, ServeReturns, FuncReturns, Classify, ServeStep
  <2>2. DOMAIN loop = Bindings
    BY DEF TypeInv, TypeOK
  <2>. QED
    BY <2>1, <2>2, SpawnFrame
<1>6. ASSUME NEW s \in Stoppers, StopCall(s) PROVE SpawnInv'
  BY <1>6, SpawnFrame DEF StopCall, StopWins, StopLoses, StopReturns
<1>7. CASE Environment
  BY <1>7, SpawnFrame
  DEF Environment, ConnBusy, ConnDone, CallerCancels, StartDeadline, StopDeadline, Signal
<1>. QED
  BY <1>3, <1>4, <1>5, <1>6, <1>7 DEF Next

\* StageInv and SpawnInv hold throughout, with the invariant they rest on.
LEMMA SpecSpawnInv == Spec => [](IInv /\ StageInv /\ SpawnInv)
<1> DEFINE J == IInv /\ StageInv /\ SpawnInv
<1>1. Init => J
  BY InitIInv DEF Init, StageInv, SpawnInv, Stopping, PastDrain
<1>2. J /\ [Next]_vars => J'
  <2>1. ASSUME J, Next PROVE J'
    BY <2>1, NextIInv, StageStep, SpawnStep DEF IInv
  <2>2. ASSUME J, UNCHANGED vars PROVE J'
    BY <2>2, NextIInv DEF vars, StageInv, SpawnInv
  <2>. QED
    BY <2>1, <2>2
<1> HIDE DEF J
<1>3. J => IInv /\ StageInv /\ SpawnInv
  BY DEF J
<1>. QED
  BY <1>1, <1>2, <1>3, PTL DEF Spec

\* scaffold.go, openBindings: the binding whose probe failed is the only one a
\* shutdown leaves behind, whatever failed and however many bindings there are.
THEOREM LifecycleOnlyProbedIsLeft == Spec => []OnlyProbedIsLeft
<1>1. ASSUME IInv, SpawnInv PROVE OnlyProbedIsLeft
  <2>1. SUFFICES ASSUME pc = "returned", NEW b \in HTTPBindings, loop[b] = "serving"
                 PROVE  failed /\ opened < Len(order) /\ b = Opening
    BY DEF OnlyProbedIsLeft
  <2>2. PICK k \in DOMAIN order : /\ order[k] = b
                                  /\ k <= opened \/ (k = opened + 1 /\ failed)
    BY <1>1, <2>1 DEF SpawnInv, Probing, Bindings
  <2>3. order \in Seq(Bindings) /\ opened \in Nat /\ k \in 1..Len(order)
    BY <1>1, <2>2 DEF IInv, TypeInv, TypeOK
  <2>4. ~(k <= opened)
    <3>1. ASSUME k <= opened PROVE FALSE
      <4>1. k \in 1..opened /\ idx = 0
        BY <1>1, <2>1, <2>3, <3>1 DEF IInv, CloseInv, PastDrain
      <4>2. shut[b] = "returned"
        BY <1>1, <2>1, <2>2, <4>1 DEF IInv, CloseInv, PastDrain, ShutAt
      <4>. QED
        BY <1>1, <2>1, <4>2 DEF IInv, DrainInv
    <3>. QED
      BY <3>1
  <2>. QED
    BY <2>2, <2>3, <2>4 DEF Opening
<1>. QED
  BY <1>1, SpecSpawnInv, PTL

\* Whoever waits in once.Do waits for a caller that runs the sequence, and does not
\* only find the once taken.
WinnerInv ==
    /\ \A s \in Stoppers : stop[s] = "waiting" => once # "new"
    /\ once \in {"busy", "stuck"} => \E w \in Stoppers : stop[w] = "running"

LEMMA WinnerStep == ASSUME TypeInv, OnceInv, WinnerInv, Next PROVE WinnerInv'
<1> USE DEF WinnerInv
<1>1. ASSUME UNCHANGED stopVars PROVE WinnerInv'
  BY <1>1
<1>2. CASE StopInside
  BY <1>2 DEF StopInside
<1>3. CASE Return
  <2>1. /\ once' = (IF once = "busy" THEN "done" ELSE once) /\ pc' = "returned"
        /\ \A s \in Stoppers : stop'[s] = "waiting" => stop[s] = "waiting"
    BY <1>3 DEF Return, TypeInv, TypeOK
  <2>2. once' \notin {"busy", "stuck"}
    BY <2>1, <1>3, OnceStep DEF OnceInv, Next, Driver
  <2>. QED
    BY <2>1, <2>2
<1>4. ASSUME NEW s \in Stoppers, StopCall(s) PROVE WinnerInv'
  BY <1>4 DEF StopCall, StopWins, StopLoses, StopReturns, OnceOver, TypeInv, TypeOK
<1>5. CASE User
  BY <1>1, <1>2, <1>5
  DEF User, AddBinding, AddCallback, AddCleanup, OnStartOk, OnStartFails, OnStartPanics, Abort, Goto
<1>6. CASE Driver
  <2>1. Return \/ UNCHANGED stopVars
    BY <1>6, StartupSteps
    DEF Driver, GiveUp, KeepProbing, Abort, Listen, DialOk, AllOpen, FireCallback, Ready, Notify,
        Trigger, BeforeDone, SkipServeFunc, ShutdownBegin, ShutdownEnd, AllClosed, OnStop,
        CleanBegin, CleanOne, Goto
  <2>. QED
    BY <2>1, <1>1, <1>3
<1>7. ASSUME NEW b \in Bindings, ServeLoop(b) PROVE WinnerInv'
  BY <1>1, <1>7 DEF ServeLoop, ServeBegins, ServeReturns, FuncReturns, Classify, ServeStep
<1>8. CASE Environment
  BY <1>1, <1>8
  DEF Environment, ConnBusy, ConnDone, CallerCancels, StartDeadline, StopDeadline, Signal
<1>. QED
  BY <1>4, <1>5, <1>6, <1>7, <1>8 DEF Next

\* A caller of Stop that waits, waits for a sequence that another caller is running,
\* or has only to wake up.
NobodyWaitsInVain ==
    \A s \in Stoppers : stop[s] = "waiting" =>
        \/ once = "done"
        \/ pc \in Sequence /\ \E w \in Stoppers : stop[w] = "running"

\* scaffold.go, Instance.Stop: however many goroutines call it and whenever, none
\* of them waits while nobody shuts the daemon down.
THEOREM LifecycleNobodyWaitsInVain == Spec => []NobodyWaitsInVain
<1>1. Init => WinnerInv
  BY DEF Init, WinnerInv
<1>2. IInv /\ WinnerInv /\ [Next]_vars => WinnerInv'
  <2>1. ASSUME IInv, WinnerInv, Next PROVE WinnerInv'
    BY <2>1, WinnerStep DEF IInv
  <2>2. ASSUME WinnerInv, UNCHANGED vars PROVE WinnerInv'
    BY <2>2 DEF vars, WinnerInv
  <2>. QED
    BY <2>1, <2>2
<1>3. IInv /\ WinnerInv => NobodyWaitsInVain
  BY DEF IInv, TypeInv, TypeOK, OnceInv, WinnerInv, NobodyWaitsInVain, Stopping, PastDrain, Sequence
<1>. QED
  BY <1>1, <1>2, <1>3, SpecIInv, PTL DEF Spec

\* One step of runShutdown.
LEMMA DriverDescends == ASSUME TypeInv, CleanInv, Driver, pc \in Sequence PROVE Descends
<1> USE DEF Sequence, StagesLeft, TurnsLeft, Descends
<1>1. ASSUME NEW ph \in Phases, FireCallback(ph) PROVE Descends
  <2>1. /\ ph = "before" /\ pc = "before" /\ pc' = "before"
        /\ fired' = [fired EXCEPT !["before"] = @ + 1]
        /\ fired["before"] < regd["before"]
    BY <1>1 DEF FireCallback, Phases
  <2>2. /\ fired["before"] \in Nat /\ regd["before"] \in 0..MaxCallbacks /\ MaxCallbacks \in Nat
        /\ fired'["before"] = fired["before"] + 1
    BY <2>1, LifecycleAssumption DEF TypeInv, TypeOK, Phases
  <2>. QED
    BY <2>1, <2>2
<1>2. CASE SkipServeFunc
  <2>1. idx \in Nat /\ idx > 0 /\ idx' = idx - 1 /\ pc = "close" /\ pc' = "close"
    BY <1>2 DEF SkipServeFunc, TypeInv, TypeOK
  <2>. QED
    BY <2>1
<1>3. CASE ShutdownBegin
  <2>1. idx \in Nat /\ idx > 0 /\ idx' = idx /\ pc = "close" /\ pc' = "drain"
    BY <1>3 DEF ShutdownBegin, TypeInv, TypeOK
  <2>. QED
    BY <2>1
<1>4. CASE ShutdownEnd
  <2>1. idx \in Nat /\ idx > 0 /\ idx' = idx - 1 /\ pc = "drain" /\ pc' = "close"
    BY <1>4 DEF ShutdownEnd, TypeInv, TypeOK
  <2>. QED
    BY <2>1
<1>5. CASE BeforeDone \/ AllClosed \/ OnStop \/ CleanBegin \/ Return
  <2>1. \/ pc = "before" /\ pc' = "close"
        \/ pc = "close" /\ pc' = "onstop"
        \/ pc = "onstop" /\ pc' = "clean"
        \/ pc = "clean" /\ pc' = "cleaning"
        \/ pc = "cleaning" /\ pc' = "returned"
    BY <1>5 DEF BeforeDone, AllClosed, OnStop, CleanBegin, Return, Goto
  <2>2. StagesLeft' \in 0..(StagesLeft - 1)
    BY <2>1
  <2>. QED
    BY <2>2
<1>6. CASE CleanOne
  <2>1. /\ pc = "cleaning" /\ pc' = "cleaning" /\ pending # <<>> /\ pending \in Seq(Fns)
        /\ pending' = SubSeq(pending, 1, Len(pending) - 1)
    BY <1>6 DEF CleanOne, Pile!RunTop, TypeInv, TypeOK
  <2>2. Len(pending) \in Nat \ {0}
    BY <2>1
  <2>3. Len(pending') = Len(pending) - 1
    <3>1. Len(pending) - 1 \in 0..Len(pending)
      BY <2>2
    <3>2. Len(SubSeq(pending, 1, Len(pending) - 1)) = Len(pending) - 1
      BY <2>1, <3>1, SubSeqLen
    <3>. QED
      BY <2>1, <3>2
  <2>. QED
    BY <2>1, <2>2, <2>3
<1>7. ~GiveUp /\ ~KeepProbing
  BY DEF GiveUp, KeepProbing, Probing, Startup
<1>. QED
  BY <1>1, <1>2, <1>3, <1>4, <1>5, <1>6, <1>7, StartupSteps
  DEF Driver, Listen, DialOk, AllOpen, Ready, Notify, Trigger

\* Nobody else holds it up.
LEMMA OthersDoNotAscend ==
    ASSUME TypeInv, CleanInv, Next, ~Driver, pc \in Sequence
    PROVE  Descends \/ UNCHANGED <<StagesLeft, TurnsLeft>>
<1>1. ASSUME UNCHANGED <<pc, idx, fired, pending>> PROVE UNCHANGED <<StagesLeft, TurnsLeft>>
  BY <1>1 DEF StagesLeft, TurnsLeft
<1>2. CASE User
  <2>1. ASSUME NEW f \in Fns, AddCleanup(f) PROVE UNCHANGED <<StagesLeft, TurnsLeft>>
    <3>1. UNCHANGED <<pc, idx, fired>> /\ pc # "cleaning"
      BY <2>1 DEF AddCleanup, Pile!Register, CleanInv, Alive
    <3>. QED
      BY <3>1 DEF StagesLeft, TurnsLeft
  <2>2. ASSUME NEW ph \in Phases, AddCallback(ph) PROVE UNCHANGED <<pc, idx, fired, pending>>
    BY <2>2 DEF AddCallback
  <2>3. CASE StopInside
    BY <2>3, <1>1 DEF StopInside
  <2>. QED
    BY <1>1, <1>2, <2>1, <2>2, <2>3
    DEF User, AddBinding, OnStartOk, OnStartFails, OnStartPanics, Sequence
<1>3. ASSUME NEW b \in Bindings, ServeLoop(b) PROVE UNCHANGED <<StagesLeft, TurnsLeft>>
  BY <1>1, <1>3 DEF ServeLoop, ServeBegins, ServeReturns, FuncReturns, Classify, ServeStep
<1>4. ASSUME NEW s \in Stoppers, StopCall(s) PROVE UNCHANGED <<StagesLeft, TurnsLeft>>
  BY <1>1, <1>4 DEF StopCall, StopWins, StopLoses, StopReturns, Sequence
<1>5. CASE Environment
  <2>1. CASE pc' = "killed"
    BY <2>1 DEF Sequence, Descends, StagesLeft
  <2>2. CASE pc' # "killed"
    BY <1>1, <1>5, <2>2
    DEF Environment, ConnBusy, ConnDone, CallerCancels, StartDeadline, StopDeadline, Signal
  <2>. QED
    BY <2>1, <2>2
<1>. QED
  BY <1>2, <1>3, <1>4, <1>5 DEF Next

\* scaffold.go, runShutdown: any number of bindings, callbacks and cleanup functions
\* are behind it after finitely many of its steps; with the fairness of the driver
\* this is why it ends.
THEOREM LifecycleShutdownDescends == Spec => ShutdownDescends
<1>1. ASSUME IInv, [Next]_vars
      PROVE  [(pc \in Sequence) =>
                 \/ Descends
                 \/ ~Driver /\ UNCHANGED <<StagesLeft, TurnsLeft>>]_vars
  <2>1. CASE Next /\ Driver
    BY <1>1, <2>1, DriverDescends DEF IInv
  <2>2. CASE Next /\ ~Driver
    BY <1>1, <2>2, OthersDoNotAscend DEF IInv
  <2>. QED
    BY <1>1, <2>1, <2>2
<1>. QED
  BY <1>1, SpecIInv, PTL DEF Spec, ShutdownDescends
=============================================================================
