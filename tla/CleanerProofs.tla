--------------------------- MODULE CleanerProofs ---------------------------
(***************************************************************************)
(* Theorems about Cleaner, for any set of functions and of goroutines.     *)
(*                                                                         *)
(* LIFO speaks of the history variables only and is not inductive: that    *)
(* the function RunOne takes is the right one depends on what the caller's *)
(* snapshot and loop counter are, and those on the two flags.  IInv says   *)
(* how the stack, the snapshot, the counter and the flags are related to   *)
(* what was registered and what has run.                                   *)
(***************************************************************************)
EXTENDS Cleaner, TLAPS

\* The goroutine inside Clean holds all that was registered, and its counter is
\* the number of functions that have not run.
LoopInv ==
    /\ \A g \in Goroutines : pc[g] = "loop" =>
          /\ running
          /\ snapshot[g] = registered
          /\ i[g] + Len(ran) = Len(registered)
    /\ \A g, h \in Goroutines : pc[g] = "loop" /\ pc[h] = "loop" => g = h
    /\ running => \E g \in Goroutines : pc[g] = "loop"

\* The flags tell the three stages of the cleaner apart.
FlagInv ==
    /\ ~(running /\ done)
    /\ ~running /\ ~done => stack = registered /\ ran = <<>>
    /\ running \/ done => stack = <<>>
    /\ done => Len(ran) = Len(registered)
    /\ \A g \in Goroutines : result[g] = "nil" => done /\ pc[g] = "returned"
    /\ \A g, h \in Goroutines : result[g] = "nil" /\ result[h] = "nil" => g = h

IInv == TypeOK /\ LoopInv /\ FlagInv /\ LIFO

\* A new Cleaner satisfies the invariant.
LEMMA InitIInv == Init => IInv
<1> SUFFICES ASSUME Init PROVE IInv
  OBVIOUS
<1>1. TypeOK
  <2>1. <<>> \in Seq(Fns)
    OBVIOUS
  <2>2. snapshot \in [Goroutines -> Seq(Fns)]
    BY <2>1, Zenon DEF Init
  <2>. QED
    BY <2>1, <2>2 DEF Init, TypeOK
<1>2. LoopInv /\ FlagInv
  BY DEF Init, LoopInv, FlagInv
<1>3. LIFO
  BY DEF Init, LIFO
<1>. QED
  BY <1>1, <1>2, <1>3 DEF IInv

\* Add puts the function on top of both the stack and the history.
LEMMA AddIInv == ASSUME IInv, NEW g \in Goroutines, NEW f \in Fns, Add(g, f)
                 PROVE  IInv'
<1> USE DEF IInv
<1>1. TypeOK'
  BY DEF Add, TypeOK
<1>2. LoopInv' /\ FlagInv'
  BY DEF Add, Started, TypeOK, LoopInv, FlagInv
<1>3. LIFO'
  BY DEF Add, Started, TypeOK, FlagInv, LIFO
<1>. QED
  BY <1>1, <1>2, <1>3

\* The Clean that claims the stack takes all of it.
LEMMA CleanBeginIInv == ASSUME IInv, NEW g \in Goroutines, CleanBegin(g)
                        PROVE  IInv'
<1> USE DEF IInv
<1>1. TypeOK'
  BY DEF CleanBegin, TypeOK
<1>2. LoopInv' /\ FlagInv'
  BY DEF CleanBegin, Started, TypeOK, LoopInv, FlagInv
<1>3. LIFO'
  BY DEF CleanBegin, LIFO
<1>. QED
  BY <1>1, <1>2, <1>3

\* A refused Clean changes its own result only.
LEMMA CleanRefusedIInv == ASSUME IInv, NEW g \in Goroutines, CleanRefused(g)
                          PROVE  IInv'
<1> USE DEF IInv
<1>1. TypeOK'
  BY DEF CleanRefused, TypeOK
<1>2. LoopInv' /\ FlagInv'
  BY DEF CleanRefused, TypeOK, LoopInv, FlagInv
<1>3. LIFO'
  BY DEF CleanRefused, LIFO
<1>. QED
  BY <1>1, <1>2, <1>3

\* A turn of the loop moves one function from the snapshot to the history.
LEMMA RunOneIInv == ASSUME IInv, NEW g \in Goroutines, RunOne(g)
                    PROVE  IInv'
<1> USE DEF IInv
<1>1. PICK outcome \in Outcomes :
        /\ logged' = IF outcome = "nil" THEN logged ELSE logged \cup {snapshot[g][i[g]]}
        /\ i' = [i EXCEPT ![g] = @ - 1]
  BY DEF RunOne, Step
<1>2. /\ i[g] > 0 /\ pc[g] = "loop"
      /\ ran' = Append(ran, snapshot[g][i[g]])
      /\ UNCHANGED <<stack, running, done, pc, snapshot, result, registered>>
  BY DEF RunOne
<1>3. /\ running /\ snapshot[g] = registered
      /\ i[g] \in Nat
      /\ i[g] + Len(ran) = Len(registered)
  BY <1>2 DEF LoopInv, TypeOK
<1>4. snapshot[g][i[g]] \in Fns
  BY <1>2, <1>3 DEF TypeOK
<1>5. TypeOK'
  BY <1>1, <1>2, <1>3, <1>4 DEF TypeOK
<1>6. Len(ran') = Len(ran) + 1
  BY <1>2, <1>4 DEF TypeOK
<1>7. LoopInv'
  <2>1. ASSUME NEW h \in Goroutines, pc'[h] = "loop"
        PROVE  h = g /\ snapshot'[h] = registered' /\ i'[h] + Len(ran') = Len(registered')
    BY <1>1, <1>2, <1>3, <1>6, <2>1 DEF LoopInv, TypeOK
  <2>. QED
    BY <1>2, <1>3, <2>1 DEF LoopInv
<1>8. FlagInv'
  BY <1>2, <1>3 DEF FlagInv, TypeOK
<1>9. LIFO'
  <2>1. Len(ran') <= Len(registered')
    BY <1>2, <1>3, <1>6 DEF TypeOK
  <2>2. ASSUME NEW k \in 1..Len(ran')
        PROVE  ran'[k] = registered'[Len(registered') + 1 - k]
    <3>1. CASE k <= Len(ran)
      BY <1>2, <1>4, <3>1 DEF LIFO, TypeOK
    <3>2. CASE k = Len(ran) + 1
      <4>1. Len(registered) + 1 - k = i[g]
        BY <1>3, <3>2 DEF TypeOK
      <4>. QED
        BY <1>2, <1>3, <1>4, <3>2, <4>1 DEF TypeOK
    <3>. QED
      BY <1>6, <3>1, <3>2 DEF TypeOK
  <2>. QED
    BY <2>1, <2>2 DEF LIFO
<1>. QED
  BY <1>5, <1>7, <1>8, <1>9

\* Clean returns nil when its loop has run everything.
LEMMA CleanEndIInv == ASSUME IInv, NEW g \in Goroutines, CleanEnd(g)
                      PROVE  IInv'
<1> USE DEF IInv
<1>1. TypeOK'
  BY DEF CleanEnd, TypeOK
<1>2. running /\ Len(ran) = Len(registered)
  BY DEF CleanEnd, TypeOK, LoopInv
<1>3. LoopInv'
  BY <1>2 DEF CleanEnd, TypeOK, LoopInv
<1>4. FlagInv'
  BY <1>2 DEF CleanEnd, TypeOK, FlagInv
<1>5. LIFO'
  BY DEF CleanEnd, LIFO
<1>. QED
  BY <1>1, <1>3, <1>4, <1>5

\* Every step of the Cleaner preserves the invariant.
LEMMA NextIInv == IInv /\ [Next]_vars => IInv'
<1> SUFFICES ASSUME IInv, [Next]_vars
             PROVE  IInv'
  OBVIOUS
<1>1. CASE Next
  BY <1>1, AddIInv, CleanBeginIInv, CleanRefusedIInv, RunOneIInv, CleanEndIInv DEF Next
<1>2. CASE UNCHANGED vars
  BY <1>2 DEF vars, IInv, TypeOK, LoopInv, FlagInv, LIFO
<1>. QED
  BY <1>1, <1>2

\* The invariant holds throughout.
LEMMA SpecIInv == Spec => []IInv
  BY InitIInv, NextIInv, PTL DEF Spec

\* cleaner.go, type Cleaner: every variable keeps its type.
THEOREM CleanerTypeOK == Spec => []TypeOK
<1>1. IInv => TypeOK
  BY DEF IInv
<1>. QED
  BY <1>1, SpecIInv, PTL

\* cleaner.go:46: whatever goroutines call Add and Clean, the functions that have
\* run are the last ones registered, newest first, none skipped or repeated.
THEOREM CleanerLIFO == Spec => []LIFO
<1>1. IInv => LIFO
  BY DEF IInv
<1>. QED
  BY <1>1, SpecIInv, PTL

\* cleaner.go:48: a Clean that returned nil has run everything Add accepted.
THEOREM CleanerNilMeansAllRan == Spec => []NilMeansAllRan
<1>1. IInv => NilMeansAllRan
  BY DEF IInv, FlagInv, NilMeansAllRan
<1>. QED
  BY <1>1, SpecIInv, PTL

\* cleaner.go:48: of any number of concurrent calls of Clean at most one is not
\* refused.
THEOREM CleanerOneCleanAccepted == Spec => []OneCleanAccepted
<1>1. IInv => OneCleanAccepted
  BY DEF IInv, LoopInv, FlagInv, OneCleanAccepted, Accepted
<1>. QED
  BY <1>1, SpecIInv, PTL

-----------------------------------------------------------------------------
(***************************************************************************)
(* The implementation of CleanerSpec                                       *)
(***************************************************************************)

\* A sequence is its own longest prefix.
LEMMA SubSeqAll == ASSUME NEW S, NEW s \in Seq(S)
                   PROVE  SubSeq(s, 1, Len(s)) = s
  OBVIOUS

\* Its shortest prefix is empty.
LEMMA SubSeqNone == ASSUME NEW S, NEW s \in Seq(S)
                    PROVE  SubSeq(s, 1, 0) = <<>>
  OBVIOUS

\* A prefix without its last element is the prefix one shorter.
LEMMA SubSeqPrefix == ASSUME NEW S, NEW s \in Seq(S), NEW n \in 1..Len(s)
                      PROVE  /\ Len(SubSeq(s, 1, n)) = n
                             /\ SubSeq(s, 1, n)[n] = s[n]
                             /\ SubSeq(SubSeq(s, 1, n), 1, n - 1) = SubSeq(s, 1, n - 1)
<1>1. Len(SubSeq(s, 1, n)) = n
  OBVIOUS
<1>2. SubSeq(s, 1, n)[n] = s[n]
  OBVIOUS
<1>3. SubSeq(SubSeq(s, 1, n), 1, n - 1) = SubSeq(s, 1, n - 1)
  OBVIOUS
<1>. QED
  BY <1>1, <1>2, <1>3

\* The goroutine inside Clean is the one the mapping chooses.
LEMMA LeftOfLoop == ASSUME LoopInv, NEW g \in Goroutines, pc[g] = "loop"
                    PROVE  InLoop = {g} /\ Left = SubSeq(snapshot[g], 1, i[g])
<1>1. InLoop = {g}
  BY DEF LoopInv, InLoop
<1>2. (CHOOSE h \in Goroutines : pc[h] = "loop") = g
  BY DEF LoopInv
<1>. QED
  BY <1>1, <1>2 DEF Left

\* Nobody is in the loop of Clean while running is false.
LEMMA NoLoop == ASSUME LoopInv, ~running
                PROVE  InLoop = {}
  BY DEF LoopInv, InLoop

\* A new Cleaner is a new pile.
LEMMA PromiseInit == Init => Promise!Init
  BY DEF Init, Promise!Init, InLoop

\* Add is Register.
LEMMA PromiseAdd == ASSUME IInv, IInv', NEW g \in Goroutines, NEW f \in Fns, Add(g, f)
                    PROVE  Promise!Register(f)
<1>1. ~running /\ ~done /\ ~running' /\ ~done'
  BY DEF Add, Started
<1>2. InLoop = {} /\ InLoop' = {}
  BY <1>1, NoLoop DEF IInv, LoopInv, InLoop
<1>3. stack = registered /\ stack' = Append(stack, f) /\ ran' = ran
  BY <1>1 DEF Add, IInv, FlagInv
<1>4. \A k \in DOMAIN stack : stack[k] # f
  BY <1>3 DEF Add
<1>. QED
  BY <1>1, <1>2, <1>3, <1>4 DEF Promise!Register

\* The Clean that claims the stack begins on the pile.
LEMMA PromiseBegin == ASSUME IInv, IInv', NEW g \in Goroutines, CleanBegin(g)
                      PROVE  Promise!Begin
<1>1. ~running /\ ~done /\ running' /\ ~done' /\ ran' = ran
  BY DEF CleanBegin, Started
<1>2. InLoop = {}
  BY <1>1, NoLoop DEF IInv
<1>3. pc'[g] = "loop" /\ snapshot'[g] = stack /\ i'[g] = Len(stack)
  BY DEF CleanBegin, IInv, TypeOK
<1>4. InLoop' = {g} /\ Left' = SubSeq(stack, 1, Len(stack))
  <2>1. InLoop' = {g}
    BY <1>3 DEF IInv, LoopInv, InLoop
  <2>2. (CHOOSE h \in Goroutines : pc'[h] = "loop") = g
    BY <1>3 DEF IInv, LoopInv
  <2>. QED
    BY <1>3, <2>1, <2>2 DEF Left
<1>5. Left' = stack
  BY <1>4, SubSeqAll DEF IInv, TypeOK
<1>. QED
  BY <1>1, <1>2, <1>4, <1>5 DEF Promise!Begin

\* A turn of the loop runs the top of the pile.
LEMMA PromiseRunTop == ASSUME IInv, IInv', NEW g \in Goroutines, RunOne(g)
                       PROVE  Promise!RunTop
<1> DEFINE s == snapshot[g]
           n == i[g]
<1>1. /\ pc[g] = "loop" /\ pc'[g] = "loop"
      /\ n > 0 /\ i'[g] = n - 1 /\ snapshot' = snapshot
      /\ ran' = Append(ran, s[n])
      /\ running' = running /\ done' = done
  BY DEF RunOne, Step, IInv, TypeOK
<1>2. running /\ ~done /\ s \in Seq(Fns) /\ n \in 1..Len(s)
  <2>1. running /\ ~done /\ s = registered
    BY <1>1 DEF IInv, LoopInv, FlagInv
  <2>2. registered \in Seq(Fns) /\ Len(registered) \in Nat /\ Len(ran) \in Nat /\ n \in Nat
    BY DEF IInv, TypeOK
  <2>3. n > 0 /\ n + Len(ran) = Len(registered)
    BY <1>1 DEF IInv, LoopInv
  <2>4. n \in 1..Len(registered)
    BY <2>2, <2>3
  <2>. QED
    BY <2>1, <2>2, <2>4
<1>3. InLoop = {g} /\ Left = SubSeq(s, 1, n)
  BY <1>1, LeftOfLoop DEF IInv
<1>4. InLoop' = {g} /\ Left' = SubSeq(s, 1, n - 1)
  <2>1. InLoop' = {g}
    BY <1>1 DEF IInv, LoopInv, InLoop
  <2>2. (CHOOSE h \in Goroutines : pc'[h] = "loop") = g
    BY <1>1 DEF IInv, LoopInv
  <2>. QED
    BY <1>1, <2>1, <2>2 DEF Left
<1>5. /\ Len(Left) = n /\ Left # <<>>
      /\ Left[n] = s[n]
      /\ SubSeq(Left, 1, n - 1) = Left'
  BY <1>2, <1>3, <1>4, SubSeqPrefix
<1> HIDE DEF s, n
<1>. QED
  BY <1>1, <1>2, <1>3, <1>4, <1>5 DEF Promise!RunTop

\* The end of Clean finishes the pile.
LEMMA PromiseFinish == ASSUME IInv, IInv', NEW g \in Goroutines, CleanEnd(g)
                       PROVE  Promise!Finish
<1>1. /\ pc[g] = "loop" /\ i[g] = 0
      /\ running /\ ~done /\ ~running' /\ done'
      /\ ran' = ran /\ stack' = stack
  BY DEF CleanEnd, IInv, LoopInv, FlagInv
<1>2. InLoop = {g} /\ Left = SubSeq(snapshot[g], 1, 0)
  BY <1>1, LeftOfLoop DEF IInv
<1>3. Left = <<>>
  BY <1>2, SubSeqNone DEF IInv, TypeOK
<1>4. InLoop' = {}
  BY <1>1 DEF IInv, LoopInv, InLoop
<1>5. stack = <<>>
  BY <1>1 DEF IInv, FlagInv
<1>. QED
  BY <1>1, <1>2, <1>3, <1>4, <1>5 DEF Promise!Finish

\* A refused Clean leaves the pile alone.
LEMMA PromiseRefused == ASSUME IInv, IInv', NEW g \in Goroutines, CleanRefused(g)
                        PROVE  UNCHANGED Promise!cleanerVars
<1>1. UNCHANGED <<stack, running, done, snapshot, i, ran>>
  BY DEF CleanRefused
<1>2. \A h \in Goroutines : pc'[h] = "loop" <=> pc[h] = "loop"
  BY DEF CleanRefused, IInv, TypeOK
<1>3. InLoop' = InLoop
  BY <1>2 DEF InLoop
<1>4. CASE InLoop = {}
  BY <1>1, <1>3, <1>4 DEF Promise!cleanerVars
<1>5. CASE InLoop # {}
  <2>1. PICK h \in Goroutines : pc[h] = "loop"
    BY <1>5 DEF InLoop
  <2>2. Left = SubSeq(snapshot[h], 1, i[h])
    BY <2>1, LeftOfLoop DEF IInv
  <2>3. (CHOOSE k \in Goroutines : pc'[k] = "loop") = h
    BY <1>2, <2>1 DEF IInv, LoopInv
  <2>4. Left' = SubSeq(snapshot[h], 1, i[h])
    BY <1>1, <2>3 DEF Left
  <2>. QED
    BY <1>1, <1>3, <2>2, <2>4 DEF Promise!cleanerVars
<1>. QED
  BY <1>4, <1>5

\* Every step of the Cleaner is a step of the pile, or none.
LEMMA PromiseStep == ASSUME IInv, IInv', [Next]_vars
                     PROVE  [Promise!Next]_(Promise!cleanerVars)
<1>1. CASE UNCHANGED vars
  BY <1>1 DEF vars, Promise!cleanerVars, InLoop, Left
<1>2. CASE Next
  <2>1. ASSUME NEW g \in Goroutines, NEW f \in Fns, Add(g, f)
        PROVE  Promise!Next
    BY <2>1, PromiseAdd DEF Promise!Next
  <2>2. ASSUME NEW g \in Goroutines, CleanBegin(g) PROVE Promise!Next
    BY <2>2, PromiseBegin DEF Promise!Next
  <2>3. ASSUME NEW g \in Goroutines, CleanRefused(g)
        PROVE  UNCHANGED Promise!cleanerVars
    BY <2>3, PromiseRefused
  <2>4. ASSUME NEW g \in Goroutines, RunOne(g) PROVE Promise!Next
    BY <2>4, PromiseRunTop DEF Promise!Next
  <2>5. ASSUME NEW g \in Goroutines, CleanEnd(g) PROVE Promise!Next
    BY <2>5, PromiseFinish DEF Promise!Next
  <2>. QED
    BY <1>2, <2>1, <2>2, <2>3, <2>4, <2>5 DEF Next
<1>. QED
  BY <1>1, <1>2

\* cleaner.go: whatever goroutines call Add and Clean, the cleaner behaves like
\* the pile of CleanerSpec.
THEOREM CleanerImplementsPromise == Spec => ImplementsPromise
<1>1. IInv /\ IInv' /\ [Next]_vars => [Promise!Next]_(Promise!cleanerVars)
  BY PromiseStep
<1>. QED
  BY <1>1, PromiseInit, SpecIInv, PTL DEF Spec, ImplementsPromise, Promise!Spec

=============================================================================
