---------------------------- MODULE ConfigProofs ----------------------------
(***************************************************************************)
(* What a ConfigProvider answers, for every set of keys and contents,      *)
(* every parser, and any number of rotations during a call.                *)
(***************************************************************************)
EXTENDS Config, SequenceTheorems, TLAPS

\* What lookup or readKey makes of an entry.
ReadOf(e) ==
    IF provider # "file" THEN e
    ELSE IF ask.key \in BadKeys THEN Entry("invalid", NoContent)
    ELSE [e EXCEPT !.content = Trim(@)]

Typing ==
    /\ provider \in {"env", "map", "file"}
    /\ logger \in BOOLEAN
    /\ held \in [Keys -> Holdable(provider)]
    /\ ask \in Asks
    /\ seen \subseteq Holdable(provider)

\* The inductive invariant: the content that is current while a call waits to
\* read is among those it has seen, and so is what it has read when it answers.
Inv ==
    /\ Typing
    /\ pc = "asked" => held[ask.key] \in seen
    /\ pc = "read" => \E e \in seen : got = ReadOf(e)
    /\ ValueIsCurrent
    /\ FailureIsExplained

\* Trimming keeps the text and, in a file, exactly the endings that count.
LEMMA TrimCounts ==
    ASSUME NEW c \in Contents
    PROVE  /\ Trim(c).text = c.text
           /\ c.ends = <<>> => Trim(c).ends = <<>>
           /\ c.ends # <<>> => Trim(c).ends = SubSeq(c.ends, 1, Len(c.ends) - 1)
           /\ Len(Trim(c).ends) = Len(c.ends) - (IF c.ends # <<>> THEN 1 ELSE 0)
           /\ Trim(c) \in [text : STRING, ends : Seq({"lf", "crlf"})]
<1>1. c \in [text : STRING, ends : Seq({"lf", "crlf"})]
  BY ContentsAssumption
<1>2. CASE c.ends = <<>>
  BY <1>1, <1>2 DEF Trim
<1>3. CASE c.ends # <<>>
  <2>1. Len(c.ends) - 1 \in Nat /\ Len(c.ends) - 1 < Len(c.ends)
    BY <1>1, <1>3
  <2>2. SubSeq(c.ends, 1, Len(c.ends) - 1) \in Seq({"lf", "crlf"})
    BY <1>1, <2>1
  <2>3. Len(SubSeq(c.ends, 1, Len(c.ends) - 1)) = Len(c.ends) - 1
    <3>1. \A i \in 1..(Len(c.ends) - 1) : c.ends[i] \in {"lf", "crlf"}
      BY <1>1, <2>1
    <3> QED BY <2>1, <3>1, SubSeqProperties
  <2> QED BY <1>1, <1>3, <2>2, <2>3 DEF Trim
<1> QED BY <1>2, <1>3

\* lookup and readKey return a content exactly when the entry offers one, and then
\* the very content that counts: it parses unless the entry is garbled.
LEMMA ReadingIsRight ==
    ASSUME Typing, NEW e \in Holdable(provider)
    PROVE  /\ ReadOf(e).is \in {"present", "absent", "denied", "invalid"}
           /\ provider # "file" => ReadOf(e).is \in {"present", "absent"}
           /\ ReadOf(e).is = "present" <=> Offers(e)
           /\ Offers(e) =>
                /\ Parses(ask.kind, ReadOf(e).content) <=> ~Garbled(e)
                /\ ReadOf(e).content.text = e.content.text
                /\ ReadOf(e).content.ends = SubSeq(e.content.ends, 1, Counts(e.content))
<1>1. e \in Entries
  BY DEF Holdable, Entries
<1>2. /\ e.is \in {"present", "absent", "denied"}
      /\ provider # "file" => e.is \in {"present", "absent"}
      /\ e.is = "present" => e.content \in Contents
      /\ e = Entry(e.is, e.content)
  BY <1>1 DEF Holdable, Entries, Present, Absent, Denied, Entry
<1>3. CASE provider # "file"
  <2>1. ReadOf(e) = e
    BY <1>3 DEF ReadOf
  <2>2. SUFFICES ASSUME Offers(e)
                 PROVE  /\ Parses(ask.kind, e.content) <=> ~Garbled(e)
                        /\ e.content.ends = SubSeq(e.content.ends, 1, Counts(e.content))
    BY <1>2, <1>3, <2>1 DEF Offers
  <2>3. e.content.ends \in Seq({"lf", "crlf"})
    BY <1>2, <2>2, ContentsAssumption DEF Offers
  <2>4. Counts(e.content) = Len(e.content.ends)
    BY <1>3, <2>3 DEF Counts
  <2>5. e.content.ends = SubSeq(e.content.ends, 1, Counts(e.content))
    BY <2>3, <2>4, SubSeqFull
  <2>6. Counts(e.content) > 0 <=> e.content.ends # <<>>
    BY <2>3, <2>4
  <2> QED BY <2>2, <2>5, <2>6 DEF Parses, Garbled
<1>4. CASE provider = "file" /\ ask.key \in BadKeys
  BY <1>4 DEF ReadOf, Entry, Offers
<1>5. CASE provider = "file" /\ ask.key \notin BadKeys
  <2>1. /\ ReadOf(e) = [e EXCEPT !.content = Trim(@)]
        /\ ReadOf(e).is = e.is
        /\ ReadOf(e).content = Trim(e.content)
    BY <1>2, <1>5 DEF ReadOf, Entry
  <2>2. SUFFICES ASSUME Offers(e)
                 PROVE  /\ Parses(ask.kind, Trim(e.content)) <=> ~Garbled(e)
                        /\ Trim(e.content).text = e.content.text
                        /\ Trim(e.content).ends
                            = SubSeq(e.content.ends, 1, Counts(e.content))
    BY <1>2, <1>5, <2>1 DEF Offers
  <2>3. e.content \in Contents /\ e.content.ends \in Seq({"lf", "crlf"})
    BY <1>2, <2>2, ContentsAssumption DEF Offers
  <2>4. Counts(e.content) = Len(Trim(e.content).ends)
    BY <1>5, <2>3, TrimCounts DEF Counts
  <2>5. Trim(e.content).ends = SubSeq(e.content.ends, 1, Counts(e.content))
    <3>1. CASE e.content.ends = <<>>
      <4>1. Trim(e.content).ends = <<>> /\ Counts(e.content) = 0
        BY <1>5, <2>3, <2>4, <3>1, TrimCounts DEF Counts
      <4> QED BY <3>1, <4>1, SubSeqEmpty
    <3>2. CASE e.content.ends # <<>>
      BY <1>5, <2>3, <3>2, TrimCounts DEF Counts
    <3> QED BY <3>1, <3>2
  <2>6. Trim(e.content).ends \in Seq({"lf", "crlf"})
    BY <2>3, TrimCounts
  <2>7. Counts(e.content) > 0 <=> Trim(e.content).ends # <<>>
    BY <2>4, <2>6
  <2>8. Trim(e.content).text = e.content.text
    BY <2>3, TrimCounts
  <2> QED BY <2>2, <2>5, <2>7, <2>8 DEF Parses, Garbled
<1> QED BY <1>3, <1>4, <1>5 DEF Typing

-----------------------------------------------------------------------------
\* The answer to an entry the call has seen is the one the properties ask for.
LEMMA AnswerIsRight ==
    ASSUME Inv, pc = "read", pc' = "done", UNCHANGED <<provider, logger, held, ask, got, seen>>,
           answer' = IF got.is = "present" THEN Parse ELSE Without(got.is)
    PROVE  ValueIsCurrent' /\ FailureIsExplained'
<1>1. Typing
  BY DEF Inv
<1>2. PICK e \in seen : got = ReadOf(e)
  BY DEF Inv
<1>3. e \in Holdable(provider)
  BY <1>1, <1>2 DEF Typing
<1>4. /\ Offers(e)' = Offers(e) /\ Garbled(e)' = Garbled(e)
      /\ Counts(e.content)' = Counts(e.content)
  BY DEF Offers, Garbled, Counts
<1>5. CASE ~Offers(e)
  <2>1. got.is # "present" /\ got.is # "unparsable" /\ got.is # "value"
    BY <1>1, <1>2, <1>3, <1>5, ReadingIsRight
  <2>2. answer'.is # "value" /\ answer'.warned = FALSE
    BY <2>1 DEF Without, Warns
  <2> QED BY <1>2, <1>4, <1>5, <2>2 DEF ValueIsCurrent, FailureIsExplained
<1>6. CASE Offers(e) /\ Garbled(e)
  <2>1. got.is = "present" /\ ~Parses(ask.kind, got.content)
    BY <1>1, <1>2, <1>3, <1>6, ReadingIsRight
  <2>2. answer' = Without("unparsable")
    BY <2>1 DEF Parse
  <2>3. /\ answer'.is # "value"
        /\ answer'.warned <=> (ask.orElse /\ logger)
    BY <2>2, <1>1 DEF Without, Warns, Typing, Asks
  <2> QED BY <1>2, <1>4, <1>6, <2>3 DEF ValueIsCurrent, FailureIsExplained
<1>7. CASE Offers(e) /\ ~Garbled(e)
  <2>1. /\ got.is = "present" /\ Parses(ask.kind, got.content)
        /\ got.content.text = e.content.text
        /\ got.content.ends = SubSeq(e.content.ends, 1, Counts(e.content))
    BY <1>1, <1>2, <1>3, <1>7, ReadingIsRight
  <2>2. answer' = [is |-> "value", value |-> Value(ask.kind, got.content), warned |-> FALSE]
    BY <2>1 DEF Parse
  <2>3. /\ answer'.is = "value"
        /\ answer'.value = Value(ask.kind, got.content)
    BY <2>2
  <2>4. ask' = ask /\ seen' = seen
    OBVIOUS
  <2>5. IF ask.kind = "string"
        THEN /\ answer'.value.text = e.content.text
             /\ answer'.value.ends = SubSeq(e.content.ends, 1, Counts(e.content))
        ELSE answer'.value.text = Parsed[ask.kind][e.content.text]
    BY <2>1, <2>3 DEF Value
  <2>6. ValueIsCurrent'
    <3>1. /\ Offers(e)' /\ ~Garbled(e)'
          /\ IF ask'.kind = "string"
             THEN /\ answer'.value.text = e.content.text
                  /\ answer'.value.ends = SubSeq(e.content.ends, 1, Counts(e.content)')
             ELSE answer'.value.text = Parsed[ask'.kind][e.content.text]
      BY <1>4, <1>7, <2>4, <2>5
    <3> QED BY <1>2, <2>4, <3>1 DEF ValueIsCurrent
  <2> QED BY <2>3, <2>6 DEF FailureIsExplained
<1> QED BY <1>5, <1>6, <1>7

-----------------------------------------------------------------------------
LEMMA InitInv == Init => Inv
<1> SUFFICES ASSUME Init PROVE Inv
  OBVIOUS
<1>1. Typing
  <2>1. PICK k \in Keys : ask = [key |-> k, kind |-> "string", orElse |-> FALSE]
    BY DEF Init
  <2>2. ask \in Asks
    BY <2>1 DEF Asks, Kinds
  <2> QED BY <2>2 DEF Init, Typing
<1> QED BY <1>1 DEF Init, Inv, ValueIsCurrent, FailureIsExplained

LEMMA NextInv == Inv /\ [Next]_vars => Inv'
<1> SUFFICES ASSUME Inv, [Next]_vars PROVE Inv'
  OBVIOUS
<1> USE DEF Inv
<1>1. ASSUME NEW q \in Asks, Ask(q) PROVE Inv'
  <2>1. held[q.key] \in Holdable(provider)
    BY DEF Typing, Asks
  <2>2. Typing'
    BY <1>1, <2>1 DEF Ask, Typing, Holdable
  <2> QED BY <1>1, <2>2 DEF Ask, ValueIsCurrent, FailureIsExplained
<1>2. ASSUME EnvLookup \/ MapLookup \/ ReadKey PROVE Inv'
  <2>1. pc = "asked" /\ pc' = "read" /\ UNCHANGED <<provider, logger, held, ask, answer, seen>>
    BY <1>2 DEF EnvLookup, MapLookup, ReadKey, Read
  <2>2. got' = ReadOf(held[ask.key])
    BY <1>2 DEF EnvLookup, MapLookup, ReadKey, Read, EnvValue, MapValue, ReadOf, ValidKey
  <2>3. \A e : ReadOf(e)' = ReadOf(e)
    BY <2>1 DEF ReadOf
  <2>4. Typing'
    BY <2>1 DEF Typing, Holdable
  <2> QED BY <2>1, <2>2, <2>3, <2>4 DEF ValueIsCurrent, FailureIsExplained
<1>3. ASSUME EnvReturns \/ MapReturns \/ FileReturns PROVE Inv'
  <2>1. pc = "read" /\ pc' = "done" /\ UNCHANGED <<provider, logger, held, ask, got, seen>>
    BY <1>3 DEF EnvReturns, MapReturns, FileReturns, Answer
  <2>2. /\ got.is \in {"present", "absent", "denied", "invalid"}
        /\ provider # "file" => got.is \in {"present", "absent"}
    BY <2>1, ReadingIsRight DEF Typing
  <2>3. answer' = IF got.is = "present" THEN Parse ELSE Without(got.is)
    BY <1>3, <2>2 DEF EnvReturns, MapReturns, FileReturns, Answer
  <2>4. ValueIsCurrent' /\ FailureIsExplained'
    BY <2>1, <2>3, AnswerIsRight
  <2>5. Typing'
    BY <2>1 DEF Typing, Holdable
  <2> QED BY <2>1, <2>4, <2>5
<1>4. ASSUME Use PROVE Inv'
  BY <1>4 DEF Use, Typing, Holdable, ValueIsCurrent, FailureIsExplained
<1>5. ASSUME NEW h \in [Keys -> Holdable(provider)], Sees(h) PROVE Inv'
  <2>1. h[ask.key] \in Holdable(provider)
    BY DEF Typing, Asks
  <2>2. /\ held' = h /\ UNCHANGED <<provider, logger, pc, ask, got, answer>>
        /\ seen \subseteq seen' /\ seen' \subseteq Holdable(provider)
        /\ pc = "asked" => h[ask.key] \in seen'
        /\ pc = "done" => seen' = seen
    BY <1>5, <2>1 DEF Sees, Typing
  <2>3. Typing'
    BY <2>2 DEF Typing, Holdable
  <2>4. \A e : ReadOf(e)' = ReadOf(e)
    BY <2>2 DEF ReadOf
  <2>5. ValueIsCurrent' /\ FailureIsExplained'
    BY <2>2 DEF ValueIsCurrent, FailureIsExplained, Offers, Garbled, Counts
  <2> QED BY <2>2, <2>3, <2>4, <2>5
<1>6. ASSUME Setenv PROVE Inv'
  <2>1. PICK k \in Keys, x \in Holdable("env") : Sees([held EXCEPT ![k] = x])
    BY <1>6 DEF Setenv
  <2>2. [held EXCEPT ![k] = x] \in [Keys -> Holdable(provider)]
    BY <1>6, <2>1 DEF Setenv, Typing
  <2> QED BY <1>5, <2>1, <2>2
<1>7. ASSUME Rotate PROVE Inv'
  BY <1>5, <1>7 DEF Rotate
<1>8. ASSUME UNCHANGED vars PROVE Inv'
  BY <1>8 DEF vars, Typing, Holdable, ReadOf, ValueIsCurrent, FailureIsExplained,
             Offers, Garbled, Counts
<1> QED BY <1>1, <1>2, <1>3, <1>4, <1>6, <1>7, <1>8 DEF Next

LEMMA InvAlways == Spec => []Inv
<1> QED BY InitInv, NextInv, PTL DEF Spec

\* Whatever the parsers make of a text, however often the source changes during a
\* call and whichever provider is asked: a value was there at some instant of it.
THEOREM ValuesAreCurrent == Spec => []ValueIsCurrent
<1>1. Inv => ValueIsCurrent
  BY DEF Inv
<1> QED BY <1>1, InvAlways, PTL

\* And a fallback or an error has its reason in the source, logged when the value
\* is there and does not parse.
THEOREM FailuresAreExplained == Spec => []FailureIsExplained
<1>1. Inv => FailureIsExplained
  BY DEF Inv
<1> QED BY <1>1, InvAlways, PTL

-----------------------------------------------------------------------------
\* What the caller of a provider has in hand at each step: an Or variant is never
\* left with an error.
Handed ==
    /\ pc \in {"idle", "asked", "read", "done"}
    /\ got.is \in {"present", "absent", "denied", "invalid"}
    /\ answer.is \in IF pc # "done" THEN {"none"}
                     ELSE IF ask.orElse THEN {"value", "fallback"} ELSE Outcomes \ {"fallback"}
    /\ answer.warned \in BOOLEAN

LEMMA InitHanded == Init => Handed
  BY DEF Init, Handed, Absent, Entry, NoAnswer

LEMMA NextHanded == Inv /\ Handed /\ [Next]_vars => Handed'
<1> SUFFICES ASSUME Inv, Handed, [Next]_vars PROVE Handed'
  OBVIOUS
<1>1. ASSUME NEW q \in Asks, Ask(q) PROVE Handed'
  BY <1>1 DEF Ask, Handed
<1>2. ASSUME EnvLookup \/ MapLookup \/ ReadKey PROVE Handed'
  <2>1. /\ pc = "asked" /\ pc' = "read" /\ UNCHANGED <<provider, ask, answer>>
        /\ got' = ReadOf(held[ask.key])
    BY <1>2 DEF EnvLookup, MapLookup, ReadKey, Read, EnvValue, MapValue, ReadOf, ValidKey
  <2>2. held[ask.key] \in Holdable(provider)
    BY DEF Inv, Typing, Asks
  <2>3. got'.is \in {"present", "absent", "denied", "invalid"}
    BY <2>1, <2>2, ReadingIsRight DEF Inv
  <2> QED BY <2>1, <2>3 DEF Handed
<1>3. ASSUME EnvReturns \/ MapReturns \/ FileReturns PROVE Handed'
  <2>1. /\ pc = "read" /\ pc' = "done" /\ UNCHANGED <<provider, logger, held, ask, got, seen>>
        /\ \/ answer' = Parse
           \/ got.is \in {"absent", "denied", "invalid"} /\ answer' = Without(got.is)
    BY <1>3 DEF EnvReturns, MapReturns, FileReturns, Answer, Handed
  <2>2. logger \in BOOLEAN /\ ask.orElse \in BOOLEAN
    BY DEF Inv, Typing, Asks
  <2>3. \A is \in {"absent", "denied", "invalid", "unparsable"} :
            /\ Without(is).is = IF ask.orElse THEN "fallback" ELSE is
            /\ Without(is).warned \in BOOLEAN
    BY <2>2 DEF Without, Warns
  <2>4. \/ Parse.is = "value" /\ Parse.warned = FALSE
        \/ Parse = Without("unparsable")
    BY DEF Parse
  <2>5. /\ answer'.is \in IF ask.orElse THEN {"value", "fallback"} ELSE Outcomes \ {"fallback"}
        /\ answer'.warned \in BOOLEAN
    <3>1. CASE answer' = Parse /\ Parse.is = "value" /\ Parse.warned = FALSE
      BY <2>2, <3>1 DEF Outcomes
    <3>2. ASSUME NEW is \in {"absent", "denied", "invalid", "unparsable"},
                 answer' = Without(is)
          PROVE  /\ answer'.is = IF ask.orElse THEN "fallback" ELSE is
                 /\ answer'.warned \in BOOLEAN
      BY <2>3, <3>2, Zenon
    <3> QED BY <2>1, <2>4, <3>1, <3>2 DEF Outcomes
  <2> QED BY <2>1, <2>5 DEF Handed
<1>4. ASSUME Use PROVE Handed'
  BY <1>4 DEF Use, Handed, Absent, Entry, NoAnswer
<1>5. ASSUME NEW h, Sees(h) PROVE Handed'
  BY <1>5 DEF Sees, Handed
<1>6. ASSUME Setenv \/ Rotate PROVE Handed'
  BY <1>5, <1>6 DEF Setenv, Rotate
<1>7. ASSUME UNCHANGED vars PROVE Handed'
  BY <1>7 DEF vars, Handed
<1> QED BY <1>1, <1>2, <1>3, <1>4, <1>6, <1>7 DEF Next

\* Every provider, kind and content: variables keep their types, a call answers once
\* it has read and not before, and an Or variant never returns an error.
THEOREM ConfigTypeOK == Spec => []TypeOK
<1>1. Init => Inv /\ Handed
  BY InitInv, InitHanded
<1>2. Inv /\ Handed /\ [Next]_vars => (Inv /\ Handed)'
  BY NextInv, NextHanded
<1>3. Inv /\ Handed => TypeOK
  BY DEF Inv, Handed, Typing, TypeOK
<1> QED BY <1>1, <1>2, <1>3, PTL DEF Spec

=============================================================================
