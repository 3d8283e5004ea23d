------------------------------ MODULE MCSetup ------------------------------
(***************************************************************************)
(* One run alone with every sort of address and machine, and two runs with *)
(* the same Bindings.  One name has a port, the other leaves it to the     *)
(* kernel.                                                                 *)
(***************************************************************************)
EXTENDS Setup, TLC

CONSTANTS r1, r2

At(ip, usable) == [ip |-> ip, usable |-> usable]

\* Loopback or down, public, private of either family; and nothing private.
Machine == <<At("10.0.0.2", FALSE), At("8.8.8.8", TRUE), At("fd00::1", TRUE),
             At("10.0.0.1", TRUE)>>
Bare == <<At("127.0.0.1", FALSE), At("8.8.8.8", TRUE)>>

Case(g, b, a, m, who, e) ==
    [given |-> g, bind |-> b, adv |-> a, machine |-> m, runs |-> who,
     entry |-> [r \in Runs |-> e]]

SomeCases ==
    {Case("none", b, a, m, {r}, e) :
        b \in {"", "0.0.0.0", "::", "::0", "127.0.0.1", "fd00::1", "x"},
        a \in {"", "8.8.8.8", "x"}, m \in {Machine, Bare}, r \in Runs,
        e \in {"start", "serve"}}
    \cup {Case(g, "", "", Machine, Runs, "serve") : g \in {"none", "default", "test"}}
    \cup {Case(g, "10.0.0.1", "", Machine, {r}, "start") :
            g \in {"none", "default", "test"}, r \in Runs}

RunsAreAlike == Permutations(Runs)

AllIPs == {"0.0.0.0", "::", "::0", "127.0.0.1", "10.0.0.1", "10.0.0.2", "fd00::1", "8.8.8.8"}
SixIPs == {"::", "::0", "fd00::1"}
ZeroIPs == {"0.0.0.0", "::", "::0"}
PrivateIPs == {"10.0.0.1", "10.0.0.2", "fd00::1"}
Ports == [n \in Names |-> IF n = "admin" THEN 0 ELSE 8080]

=============================================================================
