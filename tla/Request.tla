------------------------------ MODULE Request ------------------------------
(***************************************************************************)
(* One request through a binding's handler: binding.go (buildHandler),     *)
(* middleware.go (PanicRecovery), error_handler.go, and the HTTPMetrics    *)
(* middleware of prometheus/.                                              *)
(*                                                                         *)
(* Control goes down the middleware chain to the dispatcher and comes back *)
(* up, normally or unwinding a panic.  Each middleware of scaffold wraps   *)
(* the ResponseWriter, so that what the code at depth d writes passes the  *)
(* wrappers at the depths below d on its way to the connection.  The       *)
(* connection is net/http's (external): the first status that is not       *)
(* informational counts, a body or a Flush without one sends 200, and so   *)
(* does a handler that returns without either.                             *)
(*                                                                         *)
(* User code (middleware, RPC handlers, muxes, registered error handlers)  *)
(* is polite: it sends a status only while none has been sent, and nothing *)
(* final has been sent when a middleware calls next or an RPC handler      *)
(* declines the request.                                                   *)
(***************************************************************************)
EXTENDS Naturals, Sequences, FiniteSets

CONSTANTS
    Chains,     \* middleware chains, outermost first: sequences over
                \* "metrics", "recovery" and "user"
    MaxRPC,     \* bound: RPC handlers
    Codes,      \* final status codes user code sends of its own accord
    Ops,        \* what user code does to a response: "header", "write",
                \* "flush", "early" (an informational status), "hijack"
    MaxOps      \* bound: such operations per request

\* A final status is neither 0 nor informational.
ASSUME RequestAssumption ==
    /\ Chains \subseteq Seq({"metrics", "recovery", "user"})
    /\ MaxRPC \in Nat /\ MaxOps \in Nat
    /\ Codes \subseteq Nat \ {0, 103}

VARIABLES
    chain,      \* the middleware of the binding
    rpcs,       \* the number of its RPC handlers
    mux,        \* "none", "other", or a ServeMux that has a "route" or "noroute"
    custom,     \* the statuses SetErrorHandler was called for
    pc, d, j,   \* where control is: what runs, at which depth, which RPC handler
    err,        \* the status an error handler is answering with
    noted,      \* noted[k]: the status wrapper k has seen, 0 if none
    hijacked,   \* hijacked[k]: the flag of the metrics wrapper k
    recorded,   \* recorded[k]: the status label metrics k has counted, 0 if none
    status,     \* the final status that was sent, 0 if none
    author,     \* who wrote the body
    taken,      \* the connection was hijacked
    ops,        \* operations so far
    used,       \* which operations those were
    origin,     \* the depth of the code that panicked last
    silent,     \* code panicked when no final status had been sent
    refused     \* a Hijack was refused

config     == <<chain, rpcs, mux, custom>>
wrapVars   == <<noted, hijacked>>
wireVars   == <<status, author, taken>>
control    == <<pc, d, j, err>>
faultVars  == <<origin, silent>>
opVars     == <<ops, used>>
vars == <<config, control, wrapVars, wireVars, recorded, opVars, faultVars, refused>>

Core == Len(chain) + 1
Early == 103

-----------------------------------------------------------------------------
(***************************************************************************)
(* Plausible bugs                                                          *)
(***************************************************************************)

MoreOrSame == j <= rpcs
WriteUnseen(k) == noted[k]
HeaderUnseen(k, code) == noted[k]
LogOnly(k) == TRUE
Repanic == "panic"

-----------------------------------------------------------------------------
(***************************************************************************)
(* The response writers                                                    *)
(***************************************************************************)

\* WriteHeader and Write as wrapper k sees them: responseWriter keeps the status
\* unless it is hijacked, panicTrackingWriter that there was one.
SeesHeader(k, code) == IF hijacked[k] THEN noted[k] ELSE code
SeesWrite(k) == IF noted[k] = 0 THEN 200 ELSE noted[k]

\* A call from depth d goes through every wrapper above.
Above(k) == k < d /\ chain[k] # "user"

Send(code) ==
    /\ noted' = [k \in DOMAIN chain |-> IF Above(k) THEN SeesHeader(k, code) ELSE noted[k]]
    /\ status' = IF status # 0 \/ taken \/ code = Early THEN status ELSE code
    /\ UNCHANGED <<hijacked, author, taken>>

WriteAs(who) ==
    /\ noted' = [k \in DOMAIN chain |-> IF Above(k) THEN SeesWrite(k) ELSE noted[k]]
    /\ status' = IF status # 0 \/ taken THEN status ELSE 200
    /\ author' = IF taken THEN author ELSE author \cup {who}
    /\ UNCHANGED <<hijacked, taken>>

\* writeReply, the built-in error handlers: a status and a body.
Reply(code) ==
    /\ noted' = [k \in DOMAIN chain |-> IF Above(k) THEN SeesHeader(k, code) ELSE noted[k]]
    /\ status' = IF status # 0 \/ taken THEN status ELSE code
    /\ author' = IF taken THEN author ELSE author \cup {"scaffold"}
    /\ UNCHANGED <<hijacked, taken>>

\* Both wrappers forward Flush and note nothing.
Flush ==
    /\ status' = IF status # 0 \/ taken THEN status ELSE 200
    /\ UNCHANGED <<wrapVars, author, taken>>

\* ResponseController.Hijack: it looks for a Hijacker from the inside out, and
\* Unwrap leads it past a panicTrackingWriter.  A responseWriter is one and asks
\* the writer it wraps with a type assertion, which a panicTrackingWriter fails.
Asked == {k \in DOMAIN chain : k < d /\ chain[k] = "metrics"}

Hijackable == \A k \in Asked : \A outer \in 1..(k - 1) : chain[outer] # "recovery"

Hijack ==
    IF Hijackable
    THEN /\ hijacked' = [k \in DOMAIN chain |-> hijacked[k] \/ k \in Asked]
         /\ noted' = [k \in DOMAIN chain |->
                        IF k \in Asked /\ noted[k] = 0 THEN 101 ELSE noted[k]]
         /\ taken' = TRUE
         /\ UNCHANGED <<status, author, refused>>
    ELSE /\ refused' = TRUE
         /\ UNCHANGED <<wrapVars, wireVars>>

-----------------------------------------------------------------------------
Init ==
    /\ chain \in Chains
    /\ rpcs \in 0..MaxRPC
    /\ mux \in {"none", "route", "noroute", "other"}
    /\ custom \in SUBSET {404, 500}
    /\ pc = "in" /\ d = 1 /\ j = 0 /\ err = 0
    /\ noted = [k \in DOMAIN chain |-> 0]
    /\ hijacked = [k \in DOMAIN chain |-> FALSE]
    /\ recorded = [k \in DOMAIN chain |-> 0]
    /\ status = 0 /\ author = {} /\ taken = FALSE
    /\ ops = 0 /\ used = {}
    /\ origin = 0 /\ silent = FALSE
    /\ refused = FALSE

Goto(l, depth) ==
    /\ pc' = l
    /\ d' = depth
    /\ UNCHANGED <<config, wrapVars, wireVars, recorded, opVars, refused>>

Move(l, depth) == Goto(l, depth) /\ UNCHANGED <<j, err, faultVars>>

-----------------------------------------------------------------------------
(***************************************************************************)
(* User code                                                               *)
(***************************************************************************)

\* A middleware before and after it calls next, an RPC handler, what is mounted
\* in the mux, a registered error handler.
UserRuns ==
    \/ pc \in {"before", "after", "rpc", "mux"}
    \/ pc = "answer" /\ err \in custom

Operate(op) ==
    /\ UserRuns /\ op \in Ops
    /\ ops < MaxOps /\ ops' = ops + 1
    /\ used' = used \cup {op}
    /\ UNCHANGED <<config, control, recorded, faultVars>>

SendHeader ==
    /\ Operate("header")
    /\ status = 0 /\ ~taken
    /\ \E code \in IF pc = "answer" THEN {err} ELSE Codes : Send(code)
    /\ UNCHANGED refused

SendEarly ==
    /\ Operate("early")
    /\ status = 0 /\ ~taken
    /\ Send(Early)
    /\ UNCHANGED refused

WriteBody ==
    /\ Operate("write")
    /\ ~taken
    /\ WriteAs("user")
    /\ UNCHANGED refused

FlushBody ==
    /\ Operate("flush")
    /\ Flush
    /\ UNCHANGED refused

TakeOver ==
    /\ Operate("hijack")
    /\ ~taken
    /\ Hijack

\* A panic unwinds through the middleware around the code that raised it.
Panic ==
    /\ UserRuns
    /\ Goto("panic", d - 1)
    /\ origin' = d
    /\ silent' = (silent \/ (status = 0 /\ ~taken))
    /\ UNCHANGED <<j, err>>

\* User middleware calls next, or answers in its place.
CallNext ==
    /\ pc = "before"
    /\ status = 0 /\ ~taken
    /\ Move("in", d + 1)

\* Every piece of user code but an RPC handler just returns.
Return ==
    /\ UserRuns /\ pc # "rpc"
    /\ Move("back", d - 1)

-----------------------------------------------------------------------------
(***************************************************************************)
(* The way in, and the dispatcher                                          *)
(***************************************************************************)

EnterMiddleware ==
    /\ pc = "in" /\ d < Core
    /\ IF chain[d] = "user" THEN Move("before", d) ELSE Move("in", d + 1)

MoreRPC == j < rpcs

\* No RPC handler claimed the request: the mux, or the 404 handler when there is
\* no mux or it is a ServeMux without a matching route.
Fallback ==
    /\ IF mux \in {"none", "noroute"}
       THEN Goto("answer", d) /\ err' = 404
       ELSE Goto("mux", d) /\ UNCHANGED err
    /\ UNCHANGED <<j, faultVars>>

\* The next RPC handler of the chain, if there is one.
Consult ==
    IF MoreRPC
    THEN Goto("rpc", d) /\ j' = j + 1 /\ UNCHANGED <<err, faultVars>>
    ELSE Fallback

EnterDispatcher == pc = "in" /\ d = Core /\ Consult

Claim == pc = "rpc" /\ Move("back", d - 1)

Decline ==
    /\ pc = "rpc"
    /\ status = 0 /\ ~taken
    /\ Consult

\* Scaffold's own error handler, when none is registered for the status.
AnswerDefault ==
    /\ pc = "answer" /\ err \notin custom
    /\ Reply(err)
    /\ pc' = "back"
    /\ d' = d - 1
    /\ UNCHANGED <<config, j, err, recorded, opVars, faultVars, refused>>

-----------------------------------------------------------------------------
(***************************************************************************)
(* The way back                                                            *)
(***************************************************************************)

\* HTTPMetrics counts what its wrapper noted, or 200.
Record ==
    /\ pc = "back" /\ d > 0 /\ chain[d] = "metrics"
    /\ recorded' = [recorded EXCEPT ![d] = IF noted[d] = 0 THEN 200 ELSE noted[d]]
    /\ d' = d - 1
    /\ UNCHANGED <<config, pc, j, err, wrapVars, wireVars, opVars, faultVars, refused>>

PassBack ==
    /\ pc = "back" /\ d > 0 /\ chain[d] # "metrics"
    /\ IF chain[d] = "user" THEN Move("after", d) ELSE Move("back", d - 1)

\* A panic passes HTTPMetrics and user middleware; HTTPMetrics counts nothing.
Unwind ==
    /\ pc = "panic" /\ d > 0 /\ chain[d] # "recovery"
    /\ Move("panic", d - 1)

AlreadyWritten(k) == noted[k] # 0

\* PanicRecovery leaves a response that was written alone and does not panic
\* again.
WhenWritten == "back"

Recover ==
    /\ pc = "panic" /\ d > 0 /\ chain[d] = "recovery"
    /\ IF AlreadyWritten(d)
       THEN Move(WhenWritten, d - 1)
       ELSE Goto("answer", d) /\ err' = 500 /\ UNCHANGED <<j, faultVars>>

\* net/http sends 200 if nobody sent anything.
Finish ==
    /\ pc = "back" /\ d = 0
    /\ pc' = "done"
    /\ status' = IF status = 0 /\ ~taken THEN 200 ELSE status
    /\ UNCHANGED <<config, d, j, err, wrapVars, author, taken, recorded, opVars, faultVars,
                   refused>>

\* net/http recovers the panic itself and drops the connection.
AbortConn ==
    /\ pc = "panic" /\ d = 0
    /\ Move("aborted", d)

Next ==
    \/ SendHeader
    \/ SendEarly
    \/ WriteBody
    \/ FlushBody
    \/ TakeOver
    \/ Panic
    \/ CallNext
    \/ Return
    \/ EnterMiddleware
    \/ EnterDispatcher
    \/ Claim
    \/ Decline
    \/ AnswerDefault
    \/ Record
    \/ PassBack
    \/ Unwind
    \/ Recover
    \/ Finish
    \/ AbortConn

Spec == Init /\ [][Next]_vars

-----------------------------------------------------------------------------
(***************************************************************************)
(* Properties                                                              *)
(***************************************************************************)

Statuses == Codes \cup {101, Early, 200, 404, 500}

\* Every variable keeps its type, and the dispatcher stays within its RPC chain.
TypeOK ==
    /\ chain \in Chains /\ rpcs \in 0..MaxRPC
    /\ mux \in {"none", "route", "noroute", "other"} /\ custom \subseteq {404, 500}
    /\ pc \in {"in", "before", "after", "rpc", "mux", "answer", "back", "panic", "done",
               "aborted"}
    /\ d \in 0..Core /\ j \in 0..rpcs /\ err \in {0, 404, 500}
    /\ noted \in [DOMAIN chain -> Statuses \cup {0}]
    /\ hijacked \in [DOMAIN chain -> BOOLEAN]
    /\ recorded \in [DOMAIN chain -> Statuses \cup {0}]
    /\ status \in Statuses \cup {0} /\ author \subseteq {"user", "scaffold"}
    /\ taken \in BOOLEAN /\ refused \in BOOLEAN /\ silent \in BOOLEAN
    /\ ops \in 0..MaxOps /\ used \subseteq Ops /\ origin \in 0..Core

\* Scaffold never answers a request that has an answer: whatever path leads to
\* an error handler, 404 or 500, no status has been sent when it starts, unless
\* by a Flush, of which panicTrackingWriter takes no note.
OneAnswer ==
    [][pc # "answer" /\ pc' = "answer" => status = 0 \/ "flush" \in used]_vars

\* The status a metrics middleware counts is the one the client got, whichever
\* mixture of handlers, defaults and recovered panics answered: if no user
\* middleware outside it can still answer, no informational status went before,
\* and nothing panicked after a Flush.
RecordedIsSent ==
    /\ pc = "done" /\ ~taken
    /\ "early" \notin used
    /\ "flush" \in used => origin = 0
    => \A k \in DOMAIN chain :
            /\ recorded[k] # 0
            /\ \A outer \in 1..k : chain[outer] # "user"
            => recorded[k] = status

\* A request whose code panicked before anything was sent, anywhere inside a
\* PanicRecovery, ends as a 500 and never as a 200 (middleware.go, PanicRecovery).
PanicIsAnswered ==
    pc = "done" /\ silent /\ ~taken /\ 500 \notin custom /\ "early" \notin used
        => status = 500

\* PanicRecovery "does not re-panic": a connection is dropped only by a panic
\* that no PanicRecovery surrounds.
PanicContained ==
    pc = "aborted" => \A k \in DOMAIN chain : chain[k] = "recovery" => k >= origin

-----------------------------------------------------------------------------
(***************************************************************************)
(* What comments say, and the code does otherwise                          *)
(***************************************************************************)

\* middleware.go:22: PanicRecovery "does not attempt to overwrite the
\* in-progress response", however that was begun.
NeverOverwrites == [][pc = "panic" /\ pc' = "answer" => status = 0]_vars

\* middleware.go:76: handlers that use http.NewResponseController, "and thereby
\* Flusher / Hijacker", continue to work with PanicRecovery in the chain.
HijackWorks == ~refused

=============================================================================
