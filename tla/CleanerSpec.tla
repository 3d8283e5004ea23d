---------------------------- MODULE CleanerSpec ----------------------------
(***************************************************************************)
(* What a Cleaner promises, without its mutex, its flags or its callers:   *)
(* cleanup functions pile up while the cleaner is open; one Clean closes   *)
(* the pile and runs it from the top, one function at a time, each exactly *)
(* once; nothing is ever put on the pile again.                            *)
(***************************************************************************)
EXTENDS Naturals, Sequences

CONSTANT Fns        \* the registrations: each call of Add has a name of its own

VARIABLES pending,  \* the pile: functions registered and not yet run
          ran,      \* the functions run so far, in the order they were run
          phase     \* "open", "cleaning" or "done"

cleanerVars == <<pending, ran, phase>>

Init ==
    /\ pending = <<>>
    /\ ran = <<>>
    /\ phase = "open"

\* Cleaner.Add before Clean: the function goes on top of the pile.
Register(f) ==
    /\ phase = "open"
    /\ \A k \in DOMAIN pending : pending[k] # f
    /\ pending' = Append(pending, f)
    /\ UNCHANGED <<ran, phase>>

\* The one Clean call that is not refused closes the pile.
Begin ==
    /\ phase = "open"
    /\ phase' = "cleaning"
    /\ UNCHANGED <<pending, ran>>

\* The top function runs, whatever it returns or panics with.
RunTop ==
    /\ phase = "cleaning"
    /\ pending # <<>>
    /\ ran' = Append(ran, pending[Len(pending)])
    /\ pending' = SubSeq(pending, 1, Len(pending) - 1)
    /\ UNCHANGED phase

\* The pile is exhausted.
Finish ==
    /\ phase = "cleaning"
    /\ pending = <<>>
    /\ phase' = "done"
    /\ UNCHANGED <<pending, ran>>

Next ==
    \/ \E f \in Fns : Register(f)
    \/ Begin
    \/ RunTop
    \/ Finish

Spec == Init /\ [][Next]_cleanerVars

=============================================================================
