------------------------------ MODULE MCConfig ------------------------------
(***************************************************************************)
(* One good key and one that leads out of the directory.  The texts are    *)
(* one that every kind reads, one that none does, the empty one, one that  *)
(* fits a float64 and no int64, and one for durations only; the endings    *)
(* none, one of either sort, and two.                                      *)
(***************************************************************************)
EXTENDS Config

Text(t, e) == [text |-> t, ends |-> e]

SomeContents ==
    {Text("0", <<>>), Text("0", <<"lf">>), Text("0", <<"crlf", "lf">>),
     Text("", <<>>), Text("x", <<"crlf">>), Text("9e18", <<>>), Text("2s", <<"lf">>)}

\* strconv.Atoi, ParseInt, ParseFloat, ParseBool and time.ParseDuration.
Read0(v) == [t \in {"0"} |-> v]

SomeParsed ==
    [int |-> Read0("0"), int64 |-> Read0("0"), bool |-> Read0("false"),
     float64 |-> [t \in {"0", "9e18"} |-> IF t = "0" THEN "0.0" ELSE "9e18"],
     duration |-> [t \in {"0", "2s"} |-> IF t = "0" THEN "0s" ELSE "2s"]]

=============================================================================
