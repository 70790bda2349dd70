----------------------------- MODULE MCSimulation -----------------------------
(***************************************************************************)
(* The instance of Simulation for TLC.                                     *)
(***************************************************************************)
EXTENDS Simulation

TwoSessions == 1 .. 2
EventOfTwo == [s \in TwoSessions |-> "e1"]
NoMessages == {}
=============================================================================
