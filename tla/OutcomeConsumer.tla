--------------------------- MODULE OutcomeConsumer ---------------------------
(***************************************************************************)
(* The consumer of the checkout outcomes: what Consumer.ConsumeClaim and   *)
(* the sarama consumer group do with one partition.  Of the members of the *)
(* group at most one owns the partition; it hands the messages one by one  *)
(* to processMessage and marks those whose handler succeeded; the offset   *)
(* marked last is committed now and then, and the next owner goes on from  *)
(* the committed offset.  What a handler does is left to the module that   *)
(* extends this one.                                                       *)
(***************************************************************************)
EXTENDS Integers, Sequences, FiniteSets

CONSTANTS Members,   \* the processes of the group
          Readers,   \* those the partition is assigned to
          Sessions,  \* the sessions whose outcomes the messages report
          None       \* no owner, no offset

ASSUME ReadersAssumption == Readers \subseteq Members /\ None \notin Members \cup Nat

VARIABLES
    log,        \* the messages of the partition, by offset
    committed,  \* the offset a new owner starts from, None when none was committed
    owner,      \* the member that owns the partition, or None
    position,   \* the offset the owner's ConsumeClaim reads next
    marked,     \* the offset after the last marked message, None in a new session
    hstep,      \* "idle", or where the handler of the message at position stands
    tried       \* the offsets whose handler has returned

consumerVars == <<log, committed, owner, position, marked, hstep, tried>>

ConsumerInit ==
    /\ log = <<>> /\ owner = None /\ position = 1 /\ marked = None
    /\ hstep = "idle" /\ tried = {}
    /\ committed \in {None, 1}

\* A checkout outcome is written to the partition.
Publish(m) ==
    /\ log' = Append(log, m)
    /\ UNCHANGED <<committed, owner, position, marked, hstep, tried>>

\* A mutated form: every new owner starts after the newest message.
JoinNewest(c) ==
    /\ owner = None /\ c \in Readers
    /\ owner' = c /\ position' = Len(log) + 1 /\ marked' = None
    /\ UNCHANGED <<log, committed, hstep, tried>>

\* Consumer.Start's loop calls Consume: a member joins and is given the
\* partition.  With no offset committed it starts after the newest message.
JoinGroup(c) ==
    /\ owner = None /\ c \in Readers
    /\ owner' = c
    /\ position' = IF committed = None THEN Len(log) + 1 ELSE committed
    /\ marked' = None
    /\ UNCHANGED <<log, committed, hstep, tried>>

\* A mutated form: the message is marked before its handler runs.
TakeMarked ==
    /\ owner # None /\ hstep = "idle" /\ position <= Len(log)
    /\ hstep' = "get" /\ marked' = position + 1
    /\ UNCHANGED <<log, committed, owner, position, tried>>

\* ConsumeClaim receives a message and calls processMessage.
TakeMessage ==
    /\ owner # None /\ hstep = "idle" /\ position <= Len(log)
    /\ hstep' = "get"
    /\ UNCHANGED <<log, committed, owner, position, marked, tried>>

HandlerReturns(mark) ==
    /\ hstep' = "idle" /\ tried' = tried \cup {position}
    /\ position' = position + 1
    /\ marked' = mark
    /\ UNCHANGED <<log, committed, owner>>

\* The handler succeeded: MarkMessage, which marks every earlier one as well.
MarkMessage == HandlerReturns(position + 1)

\* The handler returned an error: it is logged, and the loop goes on.
LeaveUnmarked == HandlerReturns(marked)

\* The group commits what is marked.
CommitOffset ==
    /\ owner # None /\ marked # None /\ committed # marked
    /\ committed' = marked
    /\ UNCHANGED <<log, owner, position, marked, hstep, tried>>

\* What is committed when a session of the group ends: the mark, or nothing new.
FlushedAt == IF marked = None THEN committed ELSE marked

\* The group rebalances: ConsumeClaim finds its channel closed or its context
\* done and returns, what is marked is flushed (or the flush fails and the
\* committed offset is as before), and Consume returns to the loop of Start.
SessionEnds(flushed) ==
    /\ owner # None /\ hstep = "idle"
    /\ owner' = None /\ marked' = None
    /\ committed' = flushed
    /\ UNCHANGED <<log, position, hstep, tried>>

\* The owner's process dies, at any point of a handler.
OwnerDies ==
    /\ owner' = None /\ marked' = None /\ hstep' = "idle"
    /\ UNCHANGED <<log, committed, position, tried>>

-----------------------------------------------------------------------------

ConsumerType ==
    /\ log \in Seq(Sessions)
    /\ owner \in Members \cup {None} /\ position \in Nat /\ tried \subseteq Nat
    /\ committed \in Nat \cup {None} /\ marked \in Nat \cup {None}

\* A committed offset never goes back, and it only passes messages whose handler
\* has returned: whatever rebalances and restarts there are, an outcome may be
\* handled twice but, once the group has committed an offset, never not at all
\* (ConsumeClaim marks after processMessage).
CommitsFollowTries ==
    [][committed # None =>
          /\ committed' >= committed
          /\ committed .. (committed' - 1) \subseteq tried']_committed

\* The inductive invariant behind CommitsFollowTries (PlacesProofs): the owner has tried
\* everything from the committed offset on, and from the mark on, up to its position.
TriesFollow ==
    IF owner = None THEN marked = None
    ELSE /\ committed # None => /\ committed <= position
                                /\ committed .. (position - 1) \subseteq tried
         /\ marked # None => /\ marked <= position
                             /\ marked .. (position - 1) \subseteq tried
                             /\ committed # None => committed <= marked

\* Once the group has committed an offset every outcome after it is handled in
\* the end, also when its owner restarts and when handlers before it fail.
OutcomeIsTried ==
    \A i \in 1 .. Cardinality(Sessions) :
        committed # None /\ i \in committed .. Len(log) ~> i \in tried
=============================================================================
