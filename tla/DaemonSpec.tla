----------------------------- MODULE DaemonSpec -----------------------------
(***************************************************************************)
(* What the life of a daemon promises, without goroutines, sockets, flags  *)
(* or deadlines.  Bindings come up one after the other; some time later,   *)
(* because startup failed or somebody asked for it, they go down one at a  *)
(* time, the last one first; when none is left OnStop runs, once; then the *)
(* cleanup functions run, the last one registered first; then it is over.  *)
(* No step is ever taken back, repeated or skipped, except that a panic of *)
(* OnStart or a signal nobody handles ends the process where it is.        *)
(***************************************************************************)
EXTENDS Naturals, Sequences

CONSTANTS Bindings,     \* what OnStart may Add
          Fns           \* cleanup registrations

VARIABLES stage,        \* "up", "down" (going down), "hook" (OnStop is next),
                        \* "clean" and "over", or "dead"
          live,         \* the bindings that are up, in the order they came up
          pending, ran, cphase      \* the pile of cleanup functions

daemonVars == <<stage, live, pending, ran, cphase>>

Pile == INSTANCE CleanerSpec WITH phase <- cphase

Init ==
    /\ stage = "up"
    /\ live = <<>>
    /\ Pile!Init

\* openBindings: the next binding accepts connections.
Open(b) ==
    /\ stage = "up"
    /\ \A k \in DOMAIN live : live[k] # b
    /\ live' = Append(live, b)
    /\ UNCHANGED <<stage, pending, ran, cphase>>

\* A trigger, or a failed startup.
GoDown ==
    /\ stage = "up"
    /\ stage' = "down"
    /\ UNCHANGED <<live, pending, ran, cphase>>

\* runShutdown: the last binding that is up goes down.
CloseLast ==
    /\ stage = "down"
    /\ live # <<>>
    /\ live' = SubSeq(live, 1, Len(live) - 1)
    /\ UNCHANGED <<stage, pending, ran, cphase>>

AllDown ==
    /\ stage = "down"
    /\ live = <<>>
    /\ stage' = "hook"
    /\ UNCHANGED <<live, pending, ran, cphase>>

\* OnStop runs.
Hook ==
    /\ stage = "hook"
    /\ stage' = "clean"
    /\ UNCHANGED <<live, pending, ran, cphase>>

\* Cleaner.Add at any stage, as long as the pile is open.
Register(f) ==
    /\ stage # "dead"
    /\ Pile!Register(f)
    /\ UNCHANGED <<stage, live>>

\* Clean runs the pile after OnStop and before the end.
Clean ==
    /\ stage = "clean"
    /\ Pile!Begin \/ Pile!RunTop
    /\ UNCHANGED <<stage, live>>

End ==
    /\ stage = "clean"
    /\ Pile!Finish
    /\ stage' = "over"
    /\ UNCHANGED live

\* A panic of OnStart, or a signal before Serve has asked for it.
Die ==
    /\ stage \notin {"over", "dead"}
    /\ stage' = "dead"
    /\ UNCHANGED <<live, pending, ran, cphase>>

Next ==
    \/ \E b \in Bindings : Open(b)
    \/ GoDown
    \/ CloseLast
    \/ AllDown
    \/ Hook
    \/ \E f \in Fns : Register(f)
    \/ Clean
    \/ End
    \/ Die

Spec == Init /\ [][Next]_daemonVars

=============================================================================
