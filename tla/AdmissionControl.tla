--------------------------- MODULE AdmissionControl ---------------------------
(***************************************************************************)
(* What the waiting room promises, without its handlers: a session waits   *)
(* in its event's queue from its request on until it gets a place or is    *)
(* lost, and never waits again once the request was answered; places are   *)
(* given to those who came in the earliest second first; and an event      *)
(* never has more than MaxConcurrent sessions that hold a place or have    *)
(* one set aside for them.                                                 *)
(***************************************************************************)
EXTENDS Integers, FiniteSets

CONSTANTS Sessions, Events, EventOf, MaxConcurrent

VARIABLES arrived,  \* the sessions that came in
          stamp,    \* the second each of them came in; 0 before
          asking,   \* those whose request may not be answered yet
          waiting,  \* the sessions in the queues
          holding   \* those that hold a place or have one set aside

acVars == <<arrived, stamp, asking, waiting, holding>>

Of(S, e) == {s \in S : EventOf[s] = e}

Earlier(s, t) == stamp[s] < stamp[t] \/ (stamp[s] = stamp[t] /\ s < t)

Init == /\ arrived = {} /\ stamp = [s \in Sessions |-> 0]
        /\ asking = {} /\ waiting = {} /\ holding = {}

\* A request puts its session into the queue.
Arrive(s) ==
    /\ s \notin arrived
    /\ arrived' = arrived \cup {s} /\ waiting' = waiting \cup {s}
    /\ stamp'[s] \in Nat /\ stamp' = [stamp EXCEPT ![s] = stamp'[s]]
    /\ asking' \subseteq asking \cup {s}
    /\ UNCHANGED holding

\* The request, still unanswered, puts a session that left the queue back into it.
Again(s) ==
    /\ s \in asking \ waiting
    /\ waiting' = waiting \cup {s}
    /\ asking' \subseteq asking
    /\ UNCHANGED <<arrived, stamp, holding>>

\* Places are set aside for the sessions S at the head of an event's queue,
\* while others, L, may be lost from it.
Admit(e, S, L) ==
    /\ \A s \in S, t \in Of(waiting, e) \ (S \cup L) : Earlier(s, t)
    /\ Cardinality(S \cup Of(holding, e)) <= MaxConcurrent
    /\ waiting' = waiting \ (S \cup L) /\ holding' = holding \cup S
    /\ asking' \subseteq asking
    /\ UNCHANGED <<arrived, stamp>>

\* Sessions leave the queue without a place ...
Leave(S) ==
    /\ waiting' = waiting \ S
    /\ asking' \subseteq asking
    /\ UNCHANGED <<arrived, stamp, holding>>

\* ... or give their places back; also when only a request is answered.
Release(S) ==
    /\ holding' = holding \ S
    /\ asking' \subseteq asking
    /\ UNCHANGED <<arrived, stamp, waiting>>

Next ==
    \/ \E s \in Sessions : Arrive(s) \/ Again(s)
    \/ \E e \in Events :
           \/ \E S \in SUBSET Of(waiting, e) :
                  Leave(S) \/ \E L \in SUBSET (Of(waiting, e) \ S) : Admit(e, S, L)
           \/ \E S \in SUBSET Of(holding, e) : Release(S)

Spec == Init /\ [][Next]_acVars
=============================================================================
