--------------------------- MODULE RequestProofs ---------------------------
(***************************************************************************)
(* Chains of any length, with any number of PanicRecovery and HTTPMetrics  *)
(* in any order, any number of RPC handlers and operations of user code:   *)
(* one answer, panics contained and answered, the counted status is sent.  *)
(***************************************************************************)
EXTENDS Request, TLAPS

\* Where control can be, in terms of what stands at that depth of the chain.
PlaceInv ==
    /\ pc = "in" => d \in 1..Core
    /\ pc \in {"before", "after"} => d \in 1..Len(chain) /\ chain[d] = "user"
    /\ pc \in {"rpc", "mux"} => d = Core
    /\ pc = "answer" => \/ d = Core /\ err = 404
                        \/ d \in 1..Len(chain) /\ chain[d] = "recovery" /\ err = 500
    /\ pc \in {"back", "panic"} => d \in 0..Len(chain)
    /\ pc \in {"done", "aborted"} => d = 0

\* The next handler of middleware k has begun and k has not seen it end.
Around(k) == k < d \/ (k = d /\ pc \in {"back", "panic"})

\* A status that was sent was sent through every wrapper that is still around what
\* runs, and all of those but a Flush have noted it; a wrapper that noted
\* something final knows of a response.
NotedInv ==
    /\ pc = "in" => status = 0 /\ ~taken
    /\ \A k \in DOMAIN chain : hijacked[k] => taken /\ noted[k] # 0
    /\ \A k \in DOMAIN chain :
        Around(k) /\ chain[k] # "user" /\ status # 0 => noted[k] # 0 \/ "flush" \in used
    /\ \A k \in DOMAIN chain :
        noted[k] # 0 => status # 0 \/ taken \/ "early" \in used

\* A panic passes no PanicRecovery.
PanicInv ==
    /\ pc = "panic" => d < origin
    /\ pc \in {"panic", "aborted"} =>
        \A k \in DOMAIN chain : k > d /\ k < origin => chain[k] # "recovery"

\* After a panic with nothing sent, the 500 is sent or on its way.
SilentInv ==
    silent /\ ~taken /\ 500 \notin custom /\ "early" \notin used =>
        \/ status = 500
        \/ status = 0 /\ (pc \in {"panic", "aborted"} \/ (pc = "answer" /\ err = 500))

\* Nothing happened that may part what a wrapper notes from what is sent.
Regular == ~taken /\ "early" \notin used /\ ("flush" \in used => origin = 0)

Shielded(k) == \A outer \in 1..k : chain[outer] # "user"

Sent == IF status = 0 THEN 200 ELSE status

\* What a metrics wrapper would count now, and what it has counted.
CountInv ==
    /\ pc = "answer" /\ err \notin custom /\ Regular => status = 0
    /\ \A k \in DOMAIN chain :
        chain[k] = "metrics" /\ Around(k) /\ Regular =>
            noted[k] = status \/ (noted[k] = 0 /\ status = 200)
    /\ \A k \in DOMAIN chain :
        recorded[k] # 0 /\ Shielded(k) => /\ pc \in {"back", "done"} /\ k > d
                                          /\ Regular => recorded[k] = Sent
    /\ pc = "done" /\ ~taken => status # 0

IInv == TypeOK /\ PlaceInv /\ NotedInv /\ PanicInv /\ SilentInv /\ CountInv

-----------------------------------------------------------------------------
LEMMA ChainType == ASSUME TypeOK
                   PROVE  /\ chain \in Seq({"metrics", "recovery", "user"})
                          /\ Len(chain) \in Nat /\ DOMAIN chain = 1..Len(chain)
                          /\ Core = Len(chain) + 1
  BY RequestAssumption DEF TypeOK, Core

LEMMA InitIInv == Init => IInv
<1> SUFFICES ASSUME Init PROVE IInv
  OBVIOUS
<1>1. /\ chain \in Seq({"metrics", "recovery", "user"}) /\ Len(chain) \in Nat
      /\ DOMAIN chain = 1..Len(chain)
  BY RequestAssumption DEF Init
<1>2. TypeOK
  <2>1. MaxRPC \in Nat /\ MaxOps \in Nat
    BY RequestAssumption
  <2>2. d \in 0..Core /\ origin \in 0..Core /\ j \in 0..rpcs /\ ops \in 0..MaxOps
    BY <1>1, <2>1 DEF Init, Core
  <2> QED BY <2>2 DEF Init, TypeOK
<1>3. PlaceInv
  BY <1>1 DEF Init, PlaceInv, Core
<1>4. NotedInv
  BY DEF Init, NotedInv
<1>5. PanicInv /\ SilentInv
  BY DEF Init, PanicInv, SilentInv
<1>6. CountInv
  BY <1>1 DEF Init, CountInv, Around
<1> QED BY <1>2, <1>3, <1>4, <1>5, <1>6 DEF IInv

-----------------------------------------------------------------------------
(***************************************************************************)
(* Types and places                                                        *)
(***************************************************************************)

LEMMA TypeStep == ASSUME TypeOK, PlaceInv, Next PROVE TypeOK'
<1> DEFINE Labels == {"in", "before", "after", "rpc", "mux", "answer", "back", "panic", "done",
                      "aborted"}
<1>1. /\ Len(chain) \in Nat /\ DOMAIN chain = 1..Len(chain) /\ Core = Len(chain) + 1
      /\ MaxOps \in Nat /\ MaxRPC \in Nat /\ rpcs \in Nat /\ Codes \subseteq Statuses
  BY ChainType, RequestAssumption DEF TypeOK, Statuses
<1>2. ASSUME UNCHANGED <<config, wrapVars, wireVars, recorded, opVars, refused>>,
             pc' \in Labels, d' \in 0..Core, j' \in 0..rpcs, err' \in {0, 404, 500},
             origin' \in 0..Core, silent' \in BOOLEAN
      PROVE  TypeOK'
  BY <1>2 DEF TypeOK, config, wrapVars, wireVars, opVars, Core
<1>3. ASSUME UNCHANGED <<config, control, recorded, faultVars>>,
             noted' \in [DOMAIN chain -> Statuses \cup {0}],
             hijacked' \in [DOMAIN chain -> BOOLEAN],
             status' \in Statuses \cup {0}, author' \subseteq {"user", "scaffold"},
             taken' \in BOOLEAN, refused' \in BOOLEAN, ops' \in 0..MaxOps, used' \subseteq Ops
      PROVE  TypeOK'
  BY <1>3 DEF TypeOK, config, control, faultVars, Core
<1>4. CASE SendHeader \/ SendEarly \/ WriteBody \/ FlushBody \/ TakeOver
  <2>1. /\ UNCHANGED <<config, control, recorded, faultVars>>
        /\ ops' \in 0..MaxOps /\ used' \subseteq Ops
    BY <1>1, <1>4 DEF SendHeader, SendEarly, WriteBody, FlushBody, TakeOver, Operate, TypeOK
  <2>2. CASE SendHeader
    <3>1. PICK code \in Statuses : Send(code) /\ UNCHANGED refused
      BY <1>1, <2>2 DEF SendHeader, PlaceInv, TypeOK, Statuses
    <3> QED BY <1>3, <2>1, <3>1 DEF Send, SeesHeader, TypeOK
  <2>3. CASE SendEarly
    <3>1. Early \in Statuses /\ Send(Early) /\ UNCHANGED refused
      BY <2>3 DEF SendEarly, Statuses
    <3> QED BY <1>3, <2>1, <3>1 DEF Send, SeesHeader, TypeOK
  <2>4. CASE WriteBody
    BY <1>3, <2>1, <2>4 DEF WriteBody, WriteAs, SeesWrite, TypeOK, Statuses
  <2>5. CASE FlushBody
    BY <1>3, <2>1, <2>5 DEF FlushBody, Flush, wrapVars, TypeOK, Statuses
  <2>6. CASE TakeOver
    <3>1. CASE Hijackable
      <4>1. \A k \in DOMAIN chain : hijacked[k] \in BOOLEAN /\ noted[k] \in Statuses \cup {0}
        BY DEF TypeOK
      <4>2. /\ hijacked' = [k \in DOMAIN chain |-> hijacked[k] \/ k \in Asked]
            /\ noted' = [k \in DOMAIN chain |->
                           IF k \in Asked /\ noted[k] = 0 THEN 101 ELSE noted[k]]
            /\ taken' = TRUE /\ UNCHANGED <<status, author, refused>>
        BY <2>6, <3>1 DEF TakeOver, Hijack
      <4>3. hijacked' \in [DOMAIN chain -> BOOLEAN]
        BY <4>1, <4>2
      <4>4. noted' \in [DOMAIN chain -> Statuses \cup {0}]
        BY <4>1, <4>2 DEF Statuses
      <4> QED BY <1>3, <2>1, <4>2, <4>3, <4>4 DEF TypeOK
    <3>2. CASE ~Hijackable
      <4>1. refused' = TRUE /\ UNCHANGED <<noted, hijacked, status, author, taken>>
        BY <2>6, <3>2 DEF TakeOver, Hijack, wrapVars, wireVars
      <4> QED BY <1>3, <2>1, <4>1 DEF TypeOK
    <3> QED BY <3>1, <3>2
  <2> QED BY <1>4, <2>2, <2>3, <2>4, <2>5, <2>6
<1>5. CASE Panic
  BY <1>1, <1>2, <1>5 DEF Panic, Goto, TypeOK, PlaceInv, UserRuns
<1>6. CASE CallNext \/ Return \/ Claim
  BY <1>1, <1>2, <1>6 DEF CallNext, Return, Claim, Move, Goto, faultVars, TypeOK, PlaceInv, UserRuns
<1>7. CASE EnterMiddleware
  BY <1>1, <1>2, <1>7 DEF EnterMiddleware, Move, Goto, faultVars, TypeOK, PlaceInv
<1>8. CASE EnterDispatcher \/ Decline
  BY <1>1, <1>2, <1>8 DEF EnterDispatcher, Decline, Consult, MoreRPC, Fallback, Goto, faultVars,
                          TypeOK
<1>9. CASE AnswerDefault
  <2>1. /\ noted' \in [DOMAIN chain -> Statuses \cup {0}] /\ status' \in Statuses \cup {0}
        /\ author' \subseteq {"user", "scaffold"}
    <3>1. err \in Statuses /\ Reply(err)
      BY <1>9 DEF AnswerDefault, PlaceInv, Statuses
    <3> QED BY <3>1 DEF Reply, SeesHeader, TypeOK
  <2>2. d' \in 0..Core /\ pc' = "back"
    BY <1>1, <1>9 DEF AnswerDefault, PlaceInv
  <2>3. UNCHANGED <<chain, rpcs, mux, custom, j, err, recorded, ops, used, origin, silent,
                    refused, hijacked, taken>>
    BY <1>9 DEF AnswerDefault, Reply, config, opVars, faultVars
  <2> QED BY <2>1, <2>2, <2>3 DEF TypeOK, Core
<1>10. CASE Record
  <2>1. recorded' \in [DOMAIN chain -> Statuses \cup {0}]
    <3>1. d \in DOMAIN chain
      BY <1>1, <1>10 DEF Record, PlaceInv
    <3> QED BY <1>10, <3>1 DEF Record, TypeOK, Statuses
  <2>2. d' \in 0..Core
    BY <1>1, <1>10 DEF Record, PlaceInv
  <2> QED BY <1>10, <2>1, <2>2 DEF Record, TypeOK, config, wrapVars, wireVars, opVars, faultVars, Core
<1>11. CASE PassBack \/ Unwind \/ AbortConn
  BY <1>1, <1>2, <1>11 DEF PassBack, Unwind, AbortConn, Move, Goto, faultVars, TypeOK, PlaceInv
<1>12. CASE Recover
  BY <1>1, <1>2, <1>12 DEF Recover, WhenWritten, Move, Goto, faultVars, TypeOK, PlaceInv
<1>13. CASE Finish
  BY <1>13 DEF Finish, TypeOK, config, wrapVars, opVars, faultVars, Core, Statuses
<1> QED BY <1>4, <1>5, <1>6, <1>7, <1>8, <1>9, <1>10, <1>11, <1>12, <1>13 DEF Next

LEMMA PlaceStep == ASSUME TypeOK, PlaceInv, Next PROVE PlaceInv'
<1> USE ChainType DEF PlaceInv, config, control, wrapVars, wireVars, opVars, faultVars,
                      Core, UserRuns
<1>1. CASE SendHeader \/ SendEarly \/ WriteBody \/ FlushBody \/ TakeOver
  BY <1>1 DEF SendHeader, SendEarly, WriteBody, FlushBody, TakeOver, Operate
<1>2. CASE Panic \/ CallNext \/ Return \/ EnterMiddleware \/ Claim
  BY <1>2 DEF Panic, CallNext, Return, EnterMiddleware, Claim, Move, Goto, TypeOK
<1>3. CASE EnterDispatcher \/ Decline
  BY <1>3 DEF EnterDispatcher, Decline, Consult, MoreRPC, Fallback, Goto
<1>4. CASE AnswerDefault \/ Record
  BY <1>4 DEF AnswerDefault, Record
<1>5. CASE PassBack \/ Unwind \/ AbortConn
  BY <1>5 DEF PassBack, Unwind, AbortConn, Move, Goto
<1>6. CASE Recover
  BY <1>6 DEF Recover, WhenWritten, Move, Goto
<1>7. CASE Finish
  BY <1>7 DEF Finish
<1> QED BY <1>1, <1>2, <1>3, <1>4, <1>5, <1>6, <1>7 DEF Next

-----------------------------------------------------------------------------
(***************************************************************************)
(* What is noted and what is sent                                          *)
(***************************************************************************)

\* The steps that do nothing to the response.
Moves == CallNext \/ Return \/ EnterMiddleware \/ EnterDispatcher \/ Claim \/ Decline
         \/ PassBack \/ Unwind \/ Recover \/ AbortConn

LEMMA MoveFrame ==
    ASSUME Moves \/ Panic
    PROVE  UNCHANGED <<chain, rpcs, mux, custom, noted, hijacked, status, author, taken, recorded,
                       ops, used, refused>>
  BY DEF Moves, Panic, CallNext, Return, EnterMiddleware, EnterDispatcher, Claim, Decline, Consult,
         Fallback, PassBack, Unwind, Recover, WhenWritten, AbortConn, Move, Goto, config, wrapVars,
         wireVars, opVars

\* A wrapper is around what runs after a step only if it was before, or if its own
\* middleware has just called next.
LEMMA AroundFrame ==
    ASSUME TypeOK, PlaceInv, Moves \/ Panic, NEW k \in DOMAIN chain, Around(k)',
           chain[k] # "user"
    PROVE  Around(k) \/ (pc = "in" /\ d = k)
<1> USE ChainType DEF Around, PlaceInv, TypeOK
<1>1. CASE CallNext \/ Return \/ EnterMiddleware \/ Claim \/ Panic
  BY <1>1 DEF CallNext, Return, EnterMiddleware, Claim, Panic, Move, Goto, UserRuns, config
<1>2. CASE EnterDispatcher \/ Decline
  BY <1>2 DEF EnterDispatcher, Decline, Consult, Fallback, Goto, config
<1>3. CASE PassBack \/ Unwind \/ Recover \/ AbortConn
  BY <1>3 DEF PassBack, Unwind, Recover, WhenWritten, AbortConn, Move, Goto, config
<1> QED BY <1>1, <1>2, <1>3 DEF Moves

\* User code and error handlers run inside the wrappers above them.
LEMMA AboveIsAround ==
    ASSUME TypeOK, PlaceInv, UserRuns \/ pc = "answer", NEW k \in DOMAIN chain
    PROVE  /\ Around(k) <=> k < d
           /\ Above(k) <=> Around(k) /\ chain[k] # "user"
  BY ChainType DEF Around, Above, UserRuns, PlaceInv, TypeOK

\* What an operation of user code, or an error handler of scaffold's, leaves alone.
LEMMA OperateFrame ==
    ASSUME SendHeader \/ SendEarly \/ WriteBody \/ FlushBody \/ TakeOver
    PROVE  /\ UserRuns /\ UNCHANGED <<chain, rpcs, mux, custom, pc, d, j, err, recorded, origin,
                                     silent>>
           /\ used \subseteq used'
           /\ \A k : Around(k)' <=> Around(k)
  BY DEF SendHeader, SendEarly, WriteBody, FlushBody, TakeOver, Operate, config, control,
         faultVars, Around

LEMMA AnswerFrame ==
    ASSUME TypeOK, PlaceInv, AnswerDefault
    PROVE  /\ UNCHANGED <<chain, rpcs, mux, custom, j, err, recorded, ops, used, origin, silent,
                          refused, hijacked, taken>>
           /\ pc = "answer" /\ pc' = "back" /\ d' = d - 1 /\ err \notin custom
           /\ \A k \in DOMAIN chain : Around(k)' <=> Around(k)
  BY ChainType DEF AnswerDefault, Reply, config, opVars, faultVars, Around, PlaceInv, TypeOK

LEMMA NotedStep == ASSUME TypeOK, PlaceInv, NotedInv, Next PROVE NotedInv'
<1> USE DEF NotedInv
<1>1. CASE Moves
  <2>1. UNCHANGED <<chain, custom, noted, hijacked, status, taken, used>>
    BY <1>1, MoveFrame
  <2>2. pc' = "in" => status = 0 /\ ~taken
    BY <1>1 DEF Moves, CallNext, Return, EnterMiddleware, EnterDispatcher, Claim, Decline, Consult,
       Fallback, PassBack, Unwind, Recover, WhenWritten, AbortConn, Move, Goto
  <2>3. ASSUME NEW k \in DOMAIN chain, Around(k)', chain[k] # "user", status # 0
        PROVE  noted[k] # 0 \/ "flush" \in used
    BY <1>1, <2>3, AroundFrame
  <2> QED BY <2>1, <2>2, <2>3
<1>2. CASE Panic
  <2>1. UNCHANGED <<chain, custom, noted, hijacked, status, taken, used>>
    BY <1>2, MoveFrame
  <2>2. pc' = "panic" /\ pc # "in"
    BY <1>2 DEF Panic, Goto, UserRuns
  <2>3. ASSUME NEW k \in DOMAIN chain, Around(k)', chain[k] # "user", status # 0
        PROVE  noted[k] # 0 \/ "flush" \in used
    BY <1>2, <2>3, AroundFrame
  <2> QED BY <2>1, <2>2, <2>3
<1>3. CASE SendHeader
  <2>1. PICK code \in Nat \ {0, Early} : Send(code)
    <3>1. PICK code \in (IF pc = "answer" THEN {err} ELSE Codes) : Send(code)
      BY <1>3 DEF SendHeader
    <3>2. Codes \subseteq Nat \ {0, 103} /\ (pc = "answer" => err \in Nat \ {0, 103})
      BY RequestAssumption DEF PlaceInv
    <3>3. code \in Nat \ {0, Early}
      BY <3>1, <3>2 DEF Early
    <3> QED BY <3>1, <3>3
  <2>2. status = 0 /\ ~taken /\ UNCHANGED <<hijacked, taken>> /\ status' = code
    BY <1>3, <2>1 DEF SendHeader, Send, Early
  <2>3. \A k \in DOMAIN chain : noted'[k] = IF Above(k) THEN SeesHeader(k, code) ELSE noted[k]
    BY <2>1 DEF Send
  <2>4. \A k \in DOMAIN chain : Above(k) => noted'[k] = code
    BY <2>2, <2>3 DEF SeesHeader
  <2> QED BY <1>3, <2>1, <2>2, <2>3, <2>4, OperateFrame, AboveIsAround DEF UserRuns
<1>4. CASE SendEarly
  <2>1. /\ status = 0 /\ ~taken /\ UNCHANGED <<hijacked, taken, status>>
        /\ "early" \in used'
    BY <1>4 DEF SendEarly, Operate, Send
  <2> QED BY <1>4, <2>1, OperateFrame DEF UserRuns
<1>5. CASE WriteBody
  <2>1. ~taken /\ WriteAs("user") /\ UNCHANGED <<hijacked, taken>>
    BY <1>5 DEF WriteBody, WriteAs
  <2>2. \A k \in DOMAIN chain : noted'[k] = IF Above(k) THEN SeesWrite(k) ELSE noted[k]
    BY <2>1 DEF WriteAs
  <2>3. \A k \in DOMAIN chain : (Above(k) => noted'[k] # 0) /\ (noted[k] # 0 => noted'[k] # 0)
    BY <2>2 DEF SeesWrite
  <2>4. status' # 0
    BY <2>1 DEF WriteAs
  <2> QED BY <1>5, <2>1, <2>3, <2>4, OperateFrame, AboveIsAround DEF UserRuns
<1>6. CASE FlushBody
  <2>1. UNCHANGED <<noted, hijacked, taken>> /\ "flush" \in used' /\ (status # 0 => status' # 0)
    BY <1>6 DEF FlushBody, Flush, Operate, wrapVars
  <2> QED BY <1>6, <2>1, OperateFrame DEF UserRuns
<1>7. CASE TakeOver
  <2>1. CASE Hijackable
    <3>1. /\ taken' = TRUE /\ status' = status
          /\ hijacked' = [k \in DOMAIN chain |-> hijacked[k] \/ k \in Asked]
          /\ noted' = [k \in DOMAIN chain |->
                         IF k \in Asked /\ noted[k] = 0 THEN 101 ELSE noted[k]]
      BY <1>7, <2>1 DEF TakeOver, Hijack
    <3>2. \A k \in DOMAIN chain : /\ noted[k] # 0 => noted'[k] # 0
                                  /\ k \in Asked => noted'[k] # 0
      BY <3>1
    <3>3. \A k \in DOMAIN chain : hijacked'[k] = (hijacked[k] \/ k \in Asked)
      BY <3>1, Zenon
    <3> QED BY <1>7, <3>1, <3>2, <3>3, OperateFrame DEF UserRuns
  <2>2. CASE ~Hijackable
    <3>1. UNCHANGED <<noted, hijacked, status, taken>>
      BY <1>7, <2>2 DEF TakeOver, Hijack, wrapVars, wireVars
    <3> QED BY <1>7, <3>1, OperateFrame DEF UserRuns
  <2> QED BY <2>1, <2>2
<1>8. CASE AnswerDefault
  <2>1. err \in Nat \ {0} /\ Reply(err) /\ UNCHANGED <<chain, hijacked, taken, used>>
    BY <1>8, AnswerFrame DEF AnswerDefault, PlaceInv
  <2>2. \A k \in DOMAIN chain : noted'[k] = IF Above(k) THEN SeesHeader(k, err) ELSE noted[k]
    BY <2>1 DEF Reply
  <2>3. \A k \in DOMAIN chain : (Above(k) => noted'[k] # 0) /\ (noted[k] # 0 => noted'[k] # 0)
    BY <2>1, <2>2 DEF SeesHeader
  <2>4. status' # 0 \/ taken'
    BY <2>1 DEF Reply
  <2> QED BY <1>8, <2>1, <2>3, <2>4, AnswerFrame, AboveIsAround
<1>9. CASE Record
  <2>1. /\ UNCHANGED <<chain, noted, hijacked, status, taken, used>>
        /\ pc = "back" /\ pc' = "back" /\ d' = d - 1
    BY <1>9 DEF Record, config, wrapVars, wireVars, opVars
  <2>2. \A k \in DOMAIN chain : Around(k)' => Around(k)
    BY <2>1, ChainType DEF Around, TypeOK
  <2> QED BY <2>1, <2>2
<1>10. CASE Finish
  <2>1. /\ UNCHANGED <<chain, noted, hijacked, taken, used>>
        /\ d = 0 /\ d' = 0 /\ pc' = "done" /\ (status # 0 => status' # 0)
    BY <1>10 DEF Finish, config, wrapVars, opVars
  <2>2. \A k \in DOMAIN chain : ~Around(k)'
    BY <2>1, ChainType DEF Around, TypeOK
  <2> QED BY <2>1, <2>2
<1> QED BY <1>1, <1>2, <1>3, <1>4, <1>5, <1>6, <1>7, <1>8, <1>9, <1>10 DEF Next, Moves

\* A status, once sent, is the status; a step never takes back a Hijack.
LEMMA SentStays ==
    ASSUME TypeOK, PlaceInv, Next
    PROVE  /\ taken => taken'
           /\ status # 0 => status' = status
           /\ used \subseteq used'
           /\ UNCHANGED <<chain, custom>>
<1>1. CASE Moves \/ Panic
  BY <1>1, MoveFrame
<1>2. CASE SendHeader \/ SendEarly \/ WriteBody \/ FlushBody
  BY <1>2, OperateFrame DEF SendHeader, SendEarly, WriteBody, FlushBody, Send, WriteAs, Flush
<1>3. CASE TakeOver
  BY <1>3, OperateFrame DEF TakeOver, Hijack, wireVars
<1>4. CASE AnswerDefault
  BY <1>4, AnswerFrame DEF AnswerDefault, Reply
<1>5. CASE Record \/ Finish
  BY <1>5 DEF Record, Finish, config, wireVars, opVars
<1> QED BY <1>1, <1>2, <1>3, <1>4, <1>5 DEF Next, Moves

LEMMA PanicStep == ASSUME TypeOK, PlaceInv, PanicInv, Next PROVE PanicInv'
<1> USE ChainType DEF PanicInv
<1>1. CASE Panic
  BY <1>1 DEF Panic, Goto, config, UserRuns, PlaceInv, TypeOK
<1>2. CASE Unwind
  BY <1>2 DEF Unwind, Move, Goto, config, faultVars, PlaceInv, TypeOK
<1>3. CASE AbortConn
  BY <1>3 DEF AbortConn, Move, Goto, config, faultVars
<1>4. CASE SendHeader \/ SendEarly \/ WriteBody \/ FlushBody \/ TakeOver
  BY <1>4, OperateFrame DEF UserRuns
<1>5. CASE CallNext \/ Return \/ EnterMiddleware \/ EnterDispatcher \/ Claim \/ Decline
           \/ PassBack \/ Recover
  BY <1>5 DEF CallNext, Return, EnterMiddleware, EnterDispatcher, Claim, Decline, Consult,
              Fallback, PassBack, Recover, WhenWritten, Move, Goto
<1>6. CASE AnswerDefault \/ Record \/ Finish
  BY <1>6 DEF AnswerDefault, Record, Finish
<1> QED BY <1>1, <1>2, <1>3, <1>4, <1>5, <1>6 DEF Next

LEMMA SilentStep ==
    ASSUME TypeOK, PlaceInv, NotedInv, SilentInv, Next PROVE SilentInv'
<1> SUFFICES ASSUME silent', ~taken', 500 \notin custom', "early" \notin used'
             PROVE  \/ status' = 500
                    \/ status' = 0 /\ (pc' \in {"panic", "aborted"}
                                       \/ (pc' = "answer" /\ err' = 500))
  BY DEF SilentInv
<1>1. ~taken /\ 500 \notin custom /\ "early" \notin used /\ (status # 0 => status' = status)
  BY SentStays
<1>2. CASE Panic
  BY <1>1, <1>2, MoveFrame DEF Panic, Goto, SilentInv
<1>3. CASE ~Panic
  <2>1. silent
    BY <1>3, OperateFrame, AnswerFrame
       DEF Next, CallNext, Return, EnterMiddleware, EnterDispatcher, Claim, Decline, Consult,
           Fallback, Record, PassBack, Unwind, Recover, WhenWritten, Finish, AbortConn, Move, Goto,
           faultVars
  <2>2. CASE status = 500
    BY <1>1, <2>2
  <2>3. CASE status = 0 /\ pc \in {"panic", "aborted"}
    <3>1. Unwind \/ Recover \/ AbortConn
      BY <1>3, <2>3, OperateFrame, AnswerFrame
         DEF Next, CallNext, Return, EnterMiddleware, EnterDispatcher, Claim, Decline, Record,
             PassBack, Finish, UserRuns
    <3>2. status' = 0
      BY <2>3, <3>1, MoveFrame DEF Moves
    <3>3. CASE Unwind \/ AbortConn
      BY <3>2, <3>3 DEF Unwind, AbortConn, Move, Goto
    <3>4. CASE Recover
      <4>1. d \in DOMAIN chain
        BY <3>4, ChainType DEF Recover, PlaceInv
      <4>2. noted[d] = 0
        BY <1>1, <2>3, <4>1 DEF NotedInv
      <4> QED BY <3>2, <3>4, <4>2 DEF Recover, AlreadyWritten, Goto
    <3> QED BY <3>1, <3>3, <3>4
  <2>4. CASE status = 0 /\ pc = "answer" /\ err = 500
    <3>1. AnswerDefault
      BY <1>1, <1>3, <2>4, OperateFrame
         DEF Next, CallNext, Return, EnterMiddleware, EnterDispatcher, Claim, Decline, Record,
             PassBack, Unwind, Recover, Finish, AbortConn, UserRuns
    <3> QED BY <1>1, <2>4, <3>1 DEF AnswerDefault, Reply
  <2> QED BY <1>1, <2>1, <2>2, <2>3, <2>4 DEF SilentInv
<1> QED BY <1>2, <1>3

-----------------------------------------------------------------------------
(***************************************************************************)
(* What is counted                                                         *)
(***************************************************************************)

\* Once a request is irregular, it stays so.
LEMMA RegularStays ==
    ASSUME TypeOK, PlaceInv, Next, Regular'
    PROVE  Regular
<1>1. ~taken /\ "early" \notin used /\ used \subseteq used'
  BY SentStays DEF Regular
<1>2. origin # 0 => origin' # 0
  <2>1. CASE Panic
    BY <2>1, ChainType DEF Panic, UserRuns, PlaceInv
  <2>2. CASE ~Panic
    BY <2>2, OperateFrame, AnswerFrame
       DEF Next, CallNext, Return, EnterMiddleware, EnterDispatcher, Claim, Decline, Consult,
           Fallback, Record, PassBack, Unwind, Recover, WhenWritten, Finish, AbortConn, Move, Goto,
           faultVars
  <2> QED BY <2>1, <2>2
<1> QED BY <1>1, <1>2 DEF Regular

\* A wrapper that has seen all that was sent sees the next operation as the
\* connection does.
LEMMA NotesWhatIsSent ==
    ASSUME TypeOK, PlaceInv, NotedInv, CountInv, Regular, Regular', NEW k \in DOMAIN chain,
           chain[k] = "metrics", Around(k),
           SendHeader \/ WriteBody \/ FlushBody \/ AnswerDefault
    PROVE  noted'[k] = status' \/ (noted'[k] = 0 /\ status' = 200)
<1>1. noted[k] = status \/ (noted[k] = 0 /\ status = 200)
  BY DEF CountInv
<1>2. ~hijacked[k] /\ ~taken
  BY DEF NotedInv, Regular
<1>3. Above(k)
  BY OperateFrame, AnswerFrame, AboveIsAround
<1>4. CASE SendHeader
  <2>1. PICK code : Send(code) /\ status = 0 /\ code # Early
    <3>1. PICK code \in (IF pc = "answer" THEN {err} ELSE Codes) : Send(code)
      BY <1>4 DEF SendHeader
    <3>2. Early \notin Codes /\ (pc = "answer" => err # Early)
      BY RequestAssumption DEF PlaceInv, Early
    <3> QED BY <1>4, <3>1, <3>2 DEF SendHeader
  <2> QED BY <1>2, <1>3, <2>1 DEF Send, SeesHeader
<1>5. CASE WriteBody
  BY <1>1, <1>2, <1>3, <1>5 DEF WriteBody, WriteAs, SeesWrite
<1>6. CASE FlushBody
  BY <1>1, <1>2, <1>6 DEF FlushBody, Flush, wrapVars
<1>7. CASE AnswerDefault
  <2>1. status = 0
    BY <1>7, AnswerFrame DEF CountInv
  <2> QED BY <1>2, <1>3, <1>7, <2>1 DEF AnswerDefault, Reply, SeesHeader
<1> QED BY <1>4, <1>5, <1>6, <1>7

\* Scaffold's error handlers start with nothing sent.
LEMMA AnswerStep ==
    ASSUME TypeOK, PlaceInv, NotedInv, PanicInv, CountInv, Next,
           pc' = "answer", err' \notin custom', Regular'
    PROVE  status' = 0
<1>1. Regular
  BY RegularStays
<1>2. EnterDispatcher \/ Decline \/ Recover
  BY OperateFrame, AnswerFrame
     DEF Next, UserRuns, Panic, CallNext, Return, EnterMiddleware, Claim, Record, PassBack, Unwind,
         Finish, AbortConn, Move, Goto
<1>3. status' = status
  BY <1>2, MoveFrame DEF Moves
<1>4. CASE EnterDispatcher \/ Decline
  BY <1>3, <1>4 DEF EnterDispatcher, Decline, NotedInv
<1>5. CASE Recover
  <2>1. d \in DOMAIN chain /\ Around(d) /\ chain[d] = "recovery" /\ noted[d] = 0
    BY <1>5, ChainType DEF Recover, PlaceInv, Around, AlreadyWritten, WhenWritten, Move, Goto
  <2>2. origin # 0
    BY <1>5, ChainType DEF Recover, PanicInv, PlaceInv
  <2>3. "flush" \notin used
    BY <1>1, <2>2 DEF Regular
  <2> QED BY <1>3, <2>1, <2>3 DEF NotedInv
<1> QED BY <1>2, <1>4, <1>5

LEMMA NotingStep ==
    ASSUME TypeOK, PlaceInv, NotedInv, CountInv, Next, NEW k \in DOMAIN chain,
           chain[k] = "metrics", Around(k)', Regular'
    PROVE  noted'[k] = status' \/ (noted'[k] = 0 /\ status' = 200)
<1>1. Regular
  BY RegularStays
<1>2. CASE Moves \/ Panic
  <2>1. UNCHANGED <<noted, status>>
    BY <1>2, MoveFrame
  <2>2. CASE Around(k)
    BY <1>1, <2>1, <2>2 DEF CountInv
  <2>3. CASE pc = "in"
    BY <1>1, <2>1, <2>3 DEF NotedInv, Regular
  <2> QED BY <1>2, <2>2, <2>3, AroundFrame
<1>3. CASE SendHeader \/ WriteBody \/ FlushBody \/ AnswerDefault
  BY <1>1, <1>3, OperateFrame, AnswerFrame, NotesWhatIsSent
<1>4. CASE SendEarly
  BY <1>4 DEF SendEarly, Operate, Regular
<1>5. CASE TakeOver
  <2>1. UNCHANGED <<noted, status>>
    BY <1>5 DEF TakeOver, Hijack, wrapVars, wireVars, Regular
  <2> QED BY <1>1, <1>5, <2>1, OperateFrame DEF CountInv
<1>6. CASE Record
  <2>1. UNCHANGED <<noted, status>> /\ pc = "back" /\ pc' = "back" /\ d' = d - 1
    BY <1>6 DEF Record, wrapVars, wireVars
  <2>2. Around(k)
    BY <2>1, ChainType DEF Around, TypeOK
  <2> QED BY <1>1, <2>1, <2>2 DEF CountInv
<1>7. CASE Finish
  BY <1>7, ChainType DEF Finish, Around, TypeOK
<1> QED BY <1>2, <1>3, <1>4, <1>5, <1>6, <1>7 DEF Next, Moves

\* The count is taken when the middleware is through, and with no user middleware
\* further out nothing is sent after it.
LEMMA RecordedStep ==
    ASSUME TypeOK, PlaceInv, NotedInv, CountInv, Next, NEW k \in DOMAIN chain,
           recorded'[k] # 0, Shielded(k)
    PROVE  /\ pc' \in {"back", "done"} /\ k > d'
           /\ Regular' => recorded'[k] = Sent'
<1>1. k \in Nat /\ d \in Nat /\ k >= 1
  BY ChainType DEF TypeOK, Core
<1>2. CASE Record /\ d = k
  <2>1. /\ recorded'[k] = IF noted[k] = 0 THEN 200 ELSE noted[k]
        /\ pc' = "back" /\ d' = d - 1 /\ status' = status /\ chain[k] = "metrics"
    BY <1>2 DEF Record, wireVars, TypeOK
  <2>2. Around(k)
    BY <1>2 DEF Record, Around
  <2>3. Regular' => noted[k] = status \/ (noted[k] = 0 /\ status = 200)
    BY <2>1, <2>2, RegularStays DEF CountInv
  <2> QED BY <1>1, <1>2, <2>1, <2>3 DEF Sent
<1>3. CASE ~(Record /\ d = k)
  <2>1. recorded'[k] = recorded[k]
    BY <1>3, MoveFrame, OperateFrame, AnswerFrame DEF Next, Moves, Record, Finish, TypeOK
  <2>2. pc \in {"back", "done"} /\ k > d /\ (Regular => recorded[k] = Sent)
    BY <2>1 DEF CountInv
  <2>3. Record \/ PassBack \/ Finish
    BY <2>2, OperateFrame, AnswerFrame
       DEF Next, UserRuns, Panic, CallNext, Return, EnterMiddleware, EnterDispatcher, Claim,
           Decline, Unwind, Recover, AbortConn
  <2>4. CASE Record
    <3>1. pc' = "back" /\ d' = d - 1 /\ status' = status
      BY <2>4 DEF Record, wireVars
    <3> QED BY <1>1, <2>1, <2>2, <3>1, RegularStays DEF Sent
  <2>5. CASE PassBack
    <3>1. d \in 1..k
      BY <1>1, <2>2, <2>5 DEF PassBack
    <3>2. chain[d] # "user"
      BY <3>1 DEF Shielded
    <3>3. pc' = "back" /\ d' = d - 1 /\ status' = status
      BY <2>5, <3>2 DEF PassBack, Move, Goto, wireVars
    <3> QED BY <1>1, <2>1, <2>2, <3>3, RegularStays DEF Sent
  <2>6. CASE Finish
    <3>1. /\ pc' = "done" /\ d' = d
          /\ status' = IF status = 0 /\ ~taken THEN 200 ELSE status
      BY <2>6 DEF Finish
    <3>2. Sent' = Sent
      BY <3>1 DEF Sent
    <3> QED BY <2>1, <2>2, <3>1, <3>2, RegularStays
  <2> QED BY <2>3, <2>4, <2>5, <2>6
<1> QED BY <1>2, <1>3

LEMMA CountStep ==
    ASSUME TypeOK, PlaceInv, NotedInv, PanicInv, CountInv, Next PROVE CountInv'
<1>1. chain' = chain
  BY SentStays
<1>2. pc' = "done" /\ ~taken' => status' # 0
  BY OperateFrame, AnswerFrame, SentStays
     DEF Next, UserRuns, CountInv, Panic, CallNext, Return, EnterMiddleware, EnterDispatcher, Claim,
         Decline, Consult, Fallback, Record, PassBack, Unwind, Recover, WhenWritten, Finish,
         AbortConn, Move, Goto
<1>3. \A k \in DOMAIN chain : Shielded(k)' = Shielded(k)
  BY <1>1 DEF Shielded
<1>4. \A k \in DOMAIN chain : chain[k] = "metrics" /\ Around(k)' /\ Regular' =>
        noted'[k] = status' \/ (noted'[k] = 0 /\ status' = 200)
  BY NotingStep
<1>5. \A k \in DOMAIN chain : recorded'[k] # 0 /\ Shielded(k) =>
        pc' \in {"back", "done"} /\ k > d' /\ (Regular' => recorded'[k] = Sent')
  BY RecordedStep
<1>6. pc' = "answer" /\ err' \notin custom' /\ Regular' => status' = 0
  BY AnswerStep
<1> QED BY <1>1, <1>2, <1>3, <1>4, <1>5, <1>6 DEF CountInv

LEMMA NextIInv == IInv /\ [Next]_vars => IInv'
<1>1. CASE Next
  BY <1>1, TypeStep, PlaceStep, NotedStep, PanicStep, SilentStep, CountStep DEF IInv
<1>2. CASE UNCHANGED vars
  BY <1>2 DEF vars, config, control, wrapVars, wireVars, opVars, faultVars, IInv, TypeOK, PlaceInv,
              NotedInv, PanicInv, SilentInv, CountInv, Core, Around, Regular, Shielded, Sent
<1> QED BY <1>1, <1>2

LEMMA IInvAlways == Spec => []IInv
<1> QED BY InitIInv, NextIInv, PTL DEF Spec

-----------------------------------------------------------------------------
\* Every variable of Request keeps its type, for chains of any length.
THEOREM RequestTypeOK == Spec => []TypeOK
<1>1. IInv => TypeOK
  BY DEF IInv
<1> QED BY <1>1, IInvAlways, PTL

\* In any chain, an error handler only ever starts on a response of which nothing
\* has been sent, but by a Flush (binding.go, the dispatcher; middleware.go).
THEOREM RequestOneAnswer == Spec => OneAnswer
<1>1. IInv /\ [Next]_vars => [pc # "answer" /\ pc' = "answer" => status = 0 \/ "flush" \in used]_vars
  <2> SUFFICES ASSUME IInv, Next, pc # "answer", pc' = "answer"
               PROVE  status = 0 \/ "flush" \in used
    OBVIOUS
  <2>1. EnterDispatcher \/ Decline \/ Recover
    BY OperateFrame
       DEF Next, UserRuns, Panic, CallNext, Return, EnterMiddleware, Claim, AnswerDefault, Record,
           PassBack, Unwind, Finish, AbortConn, Move, Goto
  <2>2. CASE EnterDispatcher \/ Decline
    BY <2>2 DEF EnterDispatcher, Decline, IInv, NotedInv
  <2>3. CASE Recover
    <3>1. d \in DOMAIN chain /\ Around(d) /\ chain[d] = "recovery" /\ noted[d] = 0
      BY <2>3, ChainType
         DEF IInv, Recover, PlaceInv, Around, AlreadyWritten, WhenWritten, Move, Goto
    <3> QED BY <3>1 DEF IInv, NotedInv
  <2> QED BY <2>1, <2>2, <2>3
<1> QED BY <1>1, IInvAlways, PTL DEF Spec, OneAnswer

\* Without hijacks, informational statuses and panics after a Flush, every
\* HTTPMetrics with no user middleware outside it counts the status that was sent.
THEOREM RequestRecordedIsSent == Spec => []RecordedIsSent
<1>1. IInv => RecordedIsSent
  <2> SUFFICES ASSUME IInv, pc = "done", Regular, NEW k \in DOMAIN chain, recorded[k] # 0,
                      Shielded(k)
               PROVE  recorded[k] = status
    BY DEF RecordedIsSent, Regular, Shielded
  <2>1. recorded[k] = Sent /\ status # 0
    BY DEF IInv, CountInv, Regular
  <2> QED BY <2>1 DEF Sent
<1> QED BY <1>1, IInvAlways, PTL

\* A panic before anything was sent, anywhere inside a PanicRecovery of any chain,
\* is answered with the built-in 500.
THEOREM RequestPanicIsAnswered == Spec => []PanicIsAnswered
<1>1. IInv => PanicIsAnswered
  BY DEF IInv, SilentInv, PanicIsAnswered
<1> QED BY <1>1, IInvAlways, PTL

\* A panic inside a PanicRecovery never drops the connection.
THEOREM RequestPanicContained == Spec => []PanicContained
<1>1. IInv => PanicContained
  BY ChainType DEF IInv, TypeOK, PanicInv, PlaceInv, PanicContained
<1> QED BY <1>1, IInvAlways, PTL

=============================================================================
