------------------------------ MODULE Cleaner ------------------------------
(***************************************************************************)
(* cleaner.go: a LIFO stack of cleanup functions behind a mutex, with the  *)
(* two flags running and done.  Any goroutine may call Add or Clean at any *)
(* time.  A critical section (mu.Lock .. mu.Unlock) is one action, since   *)
(* nothing in it blocks; the loop of Clean runs outside the mutex, so      *)
(* every runOne is a step of its own that other goroutines interleave      *)
(* with.                                                                   *)
(***************************************************************************)
EXTENDS Naturals, Sequences

CONSTANTS Fns,          \* the registrations: each call of Add has a name of its own
          Goroutines    \* the callers of Add and Clean

VARIABLES stack,        \* Cleaner.stack
          running,      \* Cleaner.running
          done,         \* Cleaner.done
          pc,           \* pc[g]: where g is in Clean ("idle" outside it)
          snapshot,     \* snapshot[g]: the local variable of g's Clean
          i,            \* i[g]: how many functions of the snapshot are left
          result,       \* result[g]: what g's Clean returned
          registered,   \* history: every function Add accepted, in order
          ran,          \* history: every function run, in order
          logged        \* functions whose error or panic runOne logged

vars == <<stack, running, done, pc, snapshot, i, result, registered, ran, logged>>

Outcomes == {"nil", "error", "panic"}

-----------------------------------------------------------------------------
(***************************************************************************)
(* Two plausible bugs: a guard that looks at one flag only, and a loop     *)
(* that a panic ends or that loses its place.                              *)
(***************************************************************************)

StartedMissesRunning == done

StepWithoutRecover(k, outcome) == IF outcome = "panic" THEN 0 ELSE k - 1

StepTwice(k, outcome) == k - 2

-----------------------------------------------------------------------------

\* The test at the head of Add and of Clean.
Started == running \/ done

\* The loop counter after a cleanup function: runOne recovers a panic and
\* logs an error, and either way the loop goes on with the next one down.
Step(k, outcome) == k - 1

Init ==
    /\ stack = <<>>
    /\ running = FALSE
    /\ done = FALSE
    /\ pc = [g \in Goroutines |-> "idle"]
    /\ snapshot = [g \in Goroutines |-> <<>>]
    /\ i = [g \in Goroutines |-> 0]
    /\ result = [g \in Goroutines |-> "none"]
    /\ registered = <<>>
    /\ ran = <<>>
    /\ logged = {}

\* Cleaner.Add when Clean has not started.  After that it panics and leaves
\* the cleaner as it was: that call is not a step of the model.
Add(g, f) ==
    /\ pc[g] = "idle"
    /\ \A k \in DOMAIN registered : registered[k] # f
    /\ ~Started
    /\ stack' = Append(stack, f)
    /\ registered' = Append(registered, f)
    /\ UNCHANGED <<running, done, pc, snapshot, i, result, ran, logged>>

\* Cleaner.Clean, first critical section: the call that claims the stack.
CleanBegin(g) ==
    /\ pc[g] = "idle"
    /\ ~Started
    /\ running' = TRUE
    /\ snapshot' = [snapshot EXCEPT ![g] = stack]
    /\ i' = [i EXCEPT ![g] = Len(stack)]
    /\ stack' = <<>>
    /\ pc' = [pc EXCEPT ![g] = "loop"]
    /\ UNCHANGED <<done, result, registered, ran, logged>>

\* Cleaner.Clean, first critical section: a call that finds it already claimed.
CleanRefused(g) ==
    /\ pc[g] = "idle"
    /\ Started
    /\ result' = [result EXCEPT ![g] = "error"]
    /\ pc' = [pc EXCEPT ![g] = "returned"]
    /\ UNCHANGED <<stack, running, done, snapshot, i, registered, ran, logged>>

\* One turn of Clean's loop.
RunOne(g) ==
    /\ pc[g] = "loop"
    /\ i[g] > 0
    /\ LET f == snapshot[g][i[g]] IN
        /\ ran' = Append(ran, f)
        /\ \E outcome \in Outcomes :
            /\ logged' = IF outcome = "nil" THEN logged ELSE logged \cup {f}
            /\ i' = [i EXCEPT ![g] = Step(@, outcome)]
    /\ UNCHANGED <<stack, running, done, pc, snapshot, result, registered>>

\* Cleaner.Clean, second critical section.
CleanEnd(g) ==
    /\ pc[g] = "loop"
    /\ i[g] = 0
    /\ running' = FALSE
    /\ done' = TRUE
    /\ result' = [result EXCEPT ![g] = "nil"]
    /\ pc' = [pc EXCEPT ![g] = "returned"]
    /\ UNCHANGED <<stack, snapshot, i, registered, ran, logged>>

Next ==
    \E g \in Goroutines :
        \/ \E f \in Fns : Add(g, f)
        \/ CleanBegin(g)
        \/ CleanRefused(g)
        \/ RunOne(g)
        \/ CleanEnd(g)

\* A goroutine inside Clean keeps running: cleanup functions return.  Nobody
\* is obliged to call Add or Clean.
Fairness == \A g \in Goroutines : WF_vars(RunOne(g) \/ CleanEnd(g))

Spec == Init /\ [][Next]_vars /\ Fairness

-----------------------------------------------------------------------------
(***************************************************************************)
(* Properties                                                              *)
(***************************************************************************)

\* Every variable keeps its type (cleaner.go, type Cleaner).
TypeOK ==
    /\ stack \in Seq(Fns)
    /\ running \in BOOLEAN
    /\ done \in BOOLEAN
    /\ pc \in [Goroutines -> {"idle", "loop", "returned"}]
    /\ snapshot \in [Goroutines -> Seq(Fns)]
    /\ i \in [Goroutines -> Nat]
    /\ result \in [Goroutines -> {"none", "nil", "error"}]
    /\ registered \in Seq(Fns)
    /\ ran \in Seq(Fns)
    /\ logged \subseteq Fns

\* Whoever calls Add and Clean and in whatever order, the functions run so
\* far are the last ones registered, newest first, none of them skipped or
\* run twice ("Clean invokes each registered function in LIFO order").
LIFO ==
    /\ Len(ran) <= Len(registered)
    /\ \A k \in 1..Len(ran) : ran[k] = registered[Len(registered) + 1 - k]

\* A Clean that returned nil is a promise that everything Add ever accepted
\* has run: no registration slips in between the snapshot and the end.
NilMeansAllRan ==
    \A g \in Goroutines : result[g] = "nil" => Len(ran) = Len(registered)

\* The calls of Clean that were not refused.
Accepted == {g \in Goroutines : pc[g] = "loop" \/ result[g] = "nil"}

\* At most one call is not refused, so at most one goroutine is ever in the
\* loop or has been through it ("do not rerun the stack").
OneCleanAccepted == \A g, h \in Accepted : g = h

\* Once a Clean has claimed the stack every registered function does run,
\* whatever the functions before it returned or panicked with.
StackExhausted == running ~> (Len(ran) = Len(registered) /\ done)

-----------------------------------------------------------------------------
(***************************************************************************)
(* The promise it implements                                               *)
(***************************************************************************)

InLoop == {g \in Goroutines : pc[g] = "loop"}

\* What is left of the snapshot of the goroutine inside Clean.
Left == LET g == CHOOSE h \in Goroutines : pc[h] = "loop"
        IN  SubSeq(snapshot[g], 1, i[g])

Promise == INSTANCE CleanerSpec WITH
    pending <- IF InLoop = {} THEN stack ELSE Left,
    phase   <- IF done THEN "done" ELSE IF running THEN "cleaning" ELSE "open"

\* Every behaviour of the Cleaner is one its abstract specification allows.
ImplementsPromise == Promise!Spec

=============================================================================
