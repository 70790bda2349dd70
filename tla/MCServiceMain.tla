---------------------------- MODULE MCServiceMain ----------------------------
(***************************************************************************)
(* The environments TLC starts ServiceMain in.                             *)
(***************************************************************************)
EXTENDS ServiceMain

Unset == [kind |-> "unset", value |-> 0]
Garbage == [kind |-> "garbage", value |-> 0]
Given(n) == [kind |-> "given", value |-> n]

\* One that serves, one without an interval, two that Validate refuses.
FourEnvironments ==
    {[port |-> Unset, interval |-> Garbage, placeholder |-> FALSE],
     [port |-> Unset, interval |-> Given(0), placeholder |-> FALSE],
     [port |-> Given(70000), interval |-> Unset, placeholder |-> FALSE],
     [port |-> Unset, interval |-> Unset, placeholder |-> TRUE]}
=============================================================================
