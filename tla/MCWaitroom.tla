------------------------------ MODULE MCWaitroom ------------------------------
(***************************************************************************)
(* Instances of Waitroom for TLC.  The cfg files name these definitions.   *)
(***************************************************************************)
EXTENDS Waitroom

OneEvent(S) == [s \in S |-> "e1"]

TwoSessions == 1 .. 2
ThreeSessions == 1 .. 3
EventOfTwo == OneEvent(TwoSessions)
EventOfThree == OneEvent(ThreeSessions)

\* Checkout outcomes: none; two of one session, which its record and its place race.
NoMessages == {}
TwoOutcomes == {<<1, "completed">>, <<1, "expired">>}
=============================================================================
