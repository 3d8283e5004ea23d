----------------------------- MODULE MCRequest -----------------------------
(***************************************************************************)
(* Every chain of at most three middlewares in which scaffold's two occur  *)
(* around and inside each other and user middleware: every pair of         *)
(* neighbours, and a middleware with one on either side.                   *)
(***************************************************************************)
EXTENDS Request

Kinds == {"metrics", "recovery", "user"}

\* Every chain of up to two.
ShortChains == UNION {[1..n -> Kinds] : n \in 0..2}

\* The longer ones that differ from those: PanicRecovery twice, and one of each.
AllChains == ShortChains \cup
    {<<"recovery", "metrics", "recovery">>, <<"metrics", "user", "recovery">>,
     <<"recovery", "user", "metrics">>, <<"user", "recovery", "metrics">>,
     <<"metrics", "recovery", "user">>}

\* The chain README.md:480 recommends.
Recommended == {<<"recovery", "metrics">>}
=============================================================================
