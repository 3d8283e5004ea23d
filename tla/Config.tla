------------------------------- MODULE Config -------------------------------
(***************************************************************************)
(* A service asks a ConfigProvider for a key: config.go (environment),     *)
(* config_map.go (map) and config_file.go (one file per key).  Nothing is  *)
(* cached; while a call is under way somebody may call os.Setenv, or the   *)
(* directory may be rotated, rewritten or made unreadable.  The map does   *)
(* not change.                                                             *)
(*                                                                         *)
(* A content is a text and the line endings after it.  What strconv and    *)
(* time make of a text (external) is the constant Parsed, whose functions  *)
(* are defined on the texts that parse; a text with a line ending never    *)
(* does.                                                                   *)
(***************************************************************************)
EXTENDS Naturals, Sequences, FiniteSets

CONSTANTS
    Keys,       \* the keys asked for
    BadKeys,    \* those that are not one clean path component
    Contents,   \* what a key may hold: [text, ends] records
    Parsed,     \* Parsed[kind]: a function from the texts that parse
    MaxSeen     \* bound: contents of the key during one call

ASSUME ContentsAssumption == Contents \subseteq [text : STRING, ends : Seq({"lf", "crlf"})]

VARIABLES
    provider,   \* "env", "map" or "file"
    logger,     \* the provider has a logger
    held,       \* held[k]: what the source holds for k
    pc,         \* of the caller: "idle", "asked", "read" or "done"
    ask,        \* the call: key, kind, and whether it is an Or variant
    got,        \* what lookup or readKey returned
    answer,     \* what the call returned, and whether it logged a warning
    seen        \* history: what the source has held for the key since the call began

vars == <<provider, logger, held, pc, ask, got, answer, seen>>

Typed == {"int", "int64", "float64", "bool", "duration"}
Kinds == Typed \cup {"string"}

NoContent == [text |-> "", ends |-> <<>>]
Entry(is, c) == [is |-> is, content |-> c]
Absent == Entry("absent", NoContent)
Denied == Entry("denied", NoContent)
Present == {Entry("present", c) : c \in Contents}
Entries == Present \cup {Absent, Denied}

Asks == [key : Keys, kind : Kinds, orElse : BOOLEAN]

\* A read fails for another reason than a missing key in a directory only.
Holdable(p) == IF p = "file" THEN Entries ELSE Present \cup {Absent}

-----------------------------------------------------------------------------
(***************************************************************************)
(* Plausible bugs                                                          *)
(***************************************************************************)

TrimEveryEnding(c) == [c EXCEPT !.ends = <<>>]
WarnNever(is) == FALSE
AlwaysError(is) == [is |-> is, value |-> [text |-> "", ends |-> <<>>], warned |-> FALSE]

-----------------------------------------------------------------------------
NoAnswer == [is |-> "none", value |-> NoContent, warned |-> FALSE]

Init ==
    /\ provider \in {"env", "map", "file"}
    /\ logger \in BOOLEAN
    /\ held \in [Keys -> Holdable(provider)]
    /\ pc = "idle"
    /\ ask \in {[key |-> k, kind |-> "string", orElse |-> FALSE] : k \in Keys}
    /\ got = Absent /\ answer = NoAnswer /\ seen = {}

Ask(q) ==
    /\ pc = "idle"
    /\ pc' = "asked"
    /\ ask' = q
    /\ seen' = {held[q.key]}
    /\ UNCHANGED <<provider, logger, held, got, answer>>

-----------------------------------------------------------------------------
(***************************************************************************)
(* Reading                                                                 *)
(***************************************************************************)

Read(p, e) ==
    /\ pc = "asked" /\ provider = p
    /\ pc' = "read"
    /\ got' = e
    /\ UNCHANGED <<provider, logger, held, ask, answer, seen>>

\* os.LookupEnv
EnvValue(k) == held[k]
EnvLookup == Read("env", EnvValue(ask.key))

\* The map, which may be nil.
MapValue(k) == held[k]
MapLookup == Read("map", MapValue(ask.key))

ValidKey(k) == k \notin BadKeys

\* One "\n" or "\r\n" is taken off.
Trim(c) ==
    IF c.ends = <<>> THEN c ELSE [c EXCEPT !.ends = SubSeq(@, 1, Len(@) - 1)]

ReadKey ==
    Read("file", IF ValidKey(ask.key)
                 THEN [held[ask.key] EXCEPT !.content = Trim(@)]
                 ELSE Entry("invalid", NoContent))

-----------------------------------------------------------------------------
(***************************************************************************)
(* Answering                                                               *)
(***************************************************************************)

Parses(kind, c) == kind = "string" \/ (c.ends = <<>> /\ c.text \in DOMAIN Parsed[kind])

Value(kind, c) ==
    IF kind = "string" THEN c ELSE [text |-> Parsed[kind][c.text], ends |-> <<>>]

\* logParseFailure, which does nothing without a logger.
Warns(is) == is = "unparsable" /\ logger

\* There is no value: the fallback of an Or variant, the error of a plain one.
Without(is) ==
    IF ask.orElse
    THEN [is |-> "fallback", value |-> NoContent, warned |-> Warns(is)]
    ELSE [is |-> is, value |-> NoContent, warned |-> FALSE]

Parse ==
    IF Parses(ask.kind, got.content)
    THEN [is |-> "value", value |-> Value(ask.kind, got.content), warned |-> FALSE]
    ELSE Without("unparsable")

Answer(p, a) ==
    /\ pc = "read" /\ provider = p
    /\ pc' = "done"
    /\ answer' = a
    /\ UNCHANGED <<provider, logger, held, ask, got, seen>>

\* The twelve methods of each provider.
EnvReturns == Answer("env", IF got.is = "absent" THEN Without("absent") ELSE Parse)

MapReturns == Answer("map", IF got.is = "absent" THEN Without("absent") ELSE Parse)

FileReturns ==
    Answer("file", IF got.is \in {"invalid", "denied", "absent"} THEN Without(got.is) ELSE Parse)

\* The service uses the answer and will ask again.
Use ==
    /\ pc = "done"
    /\ pc' = "idle"
    /\ got' = Absent /\ answer' = NoAnswer /\ seen' = {}
    /\ UNCHANGED <<provider, logger, held, ask>>

-----------------------------------------------------------------------------
(***************************************************************************)
(* The environment: os.Setenv of one variable, a rotation of the directory *)
(* that replaces every file at once, a chmod.                              *)
(***************************************************************************)

Sees(h) ==
    /\ held' = h
    /\ seen' = IF pc \in {"asked", "read"} THEN seen \cup {h[ask.key]} ELSE seen
    /\ Cardinality(seen') <= MaxSeen
    /\ UNCHANGED <<provider, logger, pc, ask, got, answer>>

Setenv ==
    /\ provider = "env"
    /\ \E k \in Keys, e \in Holdable("env") : Sees([held EXCEPT ![k] = e])

Rotate ==
    /\ provider = "file"
    /\ \E h \in [Keys -> Holdable("file")] : Sees(h)

Next ==
    \/ \E q \in Asks : Ask(q)
    \/ EnvLookup
    \/ MapLookup
    \/ ReadKey
    \/ EnvReturns
    \/ MapReturns
    \/ FileReturns
    \/ Use
    \/ Setenv
    \/ Rotate

Spec == Init /\ [][Next]_vars

-----------------------------------------------------------------------------
(***************************************************************************)
(* Properties                                                              *)
(***************************************************************************)

Outcomes == {"value", "fallback", "unparsable", "invalid", "denied", "absent"}

\* Every variable keeps its type, and an Or variant never returns an error.
TypeOK ==
    /\ provider \in {"env", "map", "file"} /\ logger \in BOOLEAN
    /\ held \in [Keys -> Holdable(provider)]
    /\ pc \in {"idle", "asked", "read", "done"}
    /\ ask \in Asks
    /\ got.is \in {"present", "absent", "denied", "invalid"}
    /\ answer.is \in IF pc # "done" THEN {"none"}
                     ELSE IF ask.orElse THEN {"value", "fallback"} ELSE Outcomes \ {"fallback"}
    /\ answer.warned \in BOOLEAN
    /\ seen \subseteq Holdable(provider)

\* What an entry offers a call, said without the code: nothing, when there is
\* none, it cannot be read or the key leads out of the directory.  The last line
\* ending of a file does not count.
Offers(e) == e.is = "present" /\ ~(provider = "file" /\ ask.key \in BadKeys)

Counts(c) == Len(c.ends) - (IF provider = "file" /\ c.ends # <<>> THEN 1 ELSE 0)

Garbled(e) ==
    /\ Offers(e) /\ ask.kind # "string"
    /\ Counts(e.content) > 0 \/ e.content.text \notin DOMAIN Parsed[ask.kind]

\* A value is what the source held for that key at some instant of the call
\* ("{Dir}/{key} on every call so that atomically-rotated mounts are picked up",
\* config_file.go:15), read by the kind that was asked for.
ValueIsCurrent ==
    pc = "done" /\ answer.is = "value" =>
        \E e \in seen :
            /\ Offers(e) /\ ~Garbled(e)
            /\ IF ask.kind = "string"
               THEN /\ answer.value.text = e.content.text
                    /\ answer.value.ends = SubSeq(e.content.ends, 1, Counts(e.content))
               ELSE answer.value.text = Parsed[ask.kind][e.content.text]

\* A call that has no value to return has a reason in the source at some instant
\* of the call, and one that falls back from a value that is there but does not
\* parse says so in the log (config.go:13).
FailureIsExplained ==
    pc = "done" /\ answer.is # "value" =>
        IF answer.warned
        THEN logger /\ \E e \in seen : Garbled(e)
        ELSE \/ \E e \in seen : ~Offers(e)
             \/ (ask.orElse => ~logger) /\ \E e \in seen : Garbled(e)

=============================================================================
