---------------------------- MODULE WaitroomState ----------------------------
(***************************************************************************)
(* The state the waiting room's handlers share, and the operators over it. *)
(*                                                                         *)
(* The durable state lives in Redis (src/internal/repository/redis): one   *)
(* JSON record per session, one sorted set per event (the queue), one set  *)
(* per event (the sessions in checkout), the set of active events and the  *)
(* blacklist of checkout tokens.  Everything else is the local state of a  *)
(* request handler, of the queue processor or of a Kafka handler: where it *)
(* stands and the copy of the session record it read.  A step of a handler *)
(* is one Redis or Kafka call, so two handlers interleave between any two  *)
(* calls.  The modules JoinLeave, Processor, Checkout and Environment hold *)
(* the steps; Waitroom composes them.                                      *)
(***************************************************************************)
EXTENDS Integers, FiniteSets

CONSTANTS
    Sessions,       \* session ids; `<' is the lexicographic order of the UUIDs
    Events,         \* event ids
    EventOf,        \* the event each session joins
    MaxConcurrent,  \* cfg.MaxConcurrentPerEvent
    BatchSize,      \* cfg.BatchSize, read from the environment and not checked
    RetryAttempts,  \* cfg.RetryAttempts
    Messages,       \* the checkout outcomes <<session, outcome>> that may occur
    Pollers,        \* sessions whose client may start checkout from a polled token
    Leavers,        \* sessions whose user may call LeaveQueue, once each
    MayLapse,       \* sessions whose two hours may run out
    MaxClock,       \* bound on the clock, in seconds
    MaxFaults,      \* bound on failed Redis or Kafka calls and lapsed contexts
    MaxCrashes,     \* bound on restarts of the service
    None            \* no session record, no event or no session

Outcomes == {"completed", "failed", "expired"}

ASSUME SessionsAssumption ==
    Sessions \subseteq Nat /\ IsFiniteSet(Sessions) /\ EventOf \in [Sessions -> Events]
ASSUME LimitsAssumption ==
    MaxConcurrent \in Nat /\ BatchSize \in Int /\ RetryAttempts \in Nat \ {0}
ASSUME MessagesAssumption == Messages \subseteq Sessions \X Outcomes
ASSUME NoneAssumption == None \notin Sessions /\ None \notin Events
ASSUME BoundsAssumption ==
    /\ Leavers \subseteq Sessions /\ MayLapse \subseteq Sessions
    /\ MaxClock \in Nat /\ MaxFaults \in Nat /\ MaxCrashes \in Nat
    /\ Pollers \subseteq Sessions

VARIABLES
    session,     \* waitroom:session:<id>, or None when the key does not exist
    queuedAt,    \* QueuedAt.Unix() of each session: its score in the queue
    queue,       \* waitroom:<event>:queue, the members of the sorted set
    processing,  \* waitroom:<event>:processing
    active,      \* waitroom:active_events
    blacklist,   \* waitroom:token:blacklist:*, as pairs <<session, token>>
    ready,       \* every QUEUE_READY written to Kafka, as <<session, token>>
    now,         \* the clock, in whole seconds
    lapsed,      \* sessions whose ExpiresAt has passed
    faults,      \* failed calls so far
    crashes,     \* restarts so far
    jpc,         \* where JoinQueue stands for each session
    entries,     \* how often a ZADD put each session into the queue (history)
    lpc,         \* where LeaveQueue stands for each session
    lcopy,       \* the record UpdateStatus read for LeaveQueue
    ppc,         \* where the processor's goroutine stands
    todo,        \* events of this tick not yet processed
    event,       \* the event being processed
    quota,       \* the batch size computed from SCARD
    batch,       \* sessions popped and not yet dealt with
    user,        \* the session of the batch being admitted
    attempt,     \* the withRetry attempt
    signed,      \* how many tokens were signed for each session
    ucopy,       \* the record UpdateCheckoutToken or UpdateStatus read
    hpc,         \* where the handler of each checkout message stands
    hcopy,       \* the record the handler read first and writes back last
    hinv         \* the record InvalidateToken read

redisVars == <<session, queue, processing, active, blacklist>>
envVars   == <<ready, now, lapsed, faults, crashes>>
joinVars  == <<jpc, queuedAt, entries>>
leaveVars == <<lpc, lcopy>>
procVars  == <<ppc, todo, event, quota, batch, user, attempt, signed, ucopy>>
hdlVars   == <<hpc, hcopy, hinv>>
vars == <<redisVars, envVars, joinVars, leaveVars, procVars, hdlVars>>

-----------------------------------------------------------------------------
(* Sessions, models/session.go. *)

Statuses == {"queued", "admitted", "abandoned"} \cup Outcomes

\* Token 0 is the empty CheckoutToken and token n the n-th JWT signed for the
\* session.  withRetry waits at least a second between attempts, as the ticker
\* does by default between batches, so their JWTs differ (iat is in seconds).
Tokens == Nat

SessionRecord == [status : Statuses, token : Tokens, inval : BOOLEAN]

ASSUME RecordAssumption == None \notin SessionRecord

\* The record CreateSession builds, and the copy JoinQueue keeps of it.
NewSession == [status |-> "queued", token |-> 0, inval |-> FALSE]

CanAdmit(s) ==
    /\ session[s] # None
    /\ session[s].status = "queued"
    /\ s \notin lapsed

\* IsTokenInvalidated, of the t-th token signed for s.
TokenInvalidated(s, t) == <<s, t>> \in blacklist

\* ValidateCheckoutToken on the t-th token signed for s, within its 15 minutes.
TokenValid(s, t) ==
    /\ ~TokenInvalidated(s, t)
    /\ session[s] # None
    /\ session[s].status = "admitted"
    /\ ~session[s].inval

\* A mutated form: the score is not heeded.
BeforeById(s, t) == s < t

\* Members of a sorted set with equal scores are ordered by member name.
Before(s, t) ==
    \/ queuedAt[s] < queuedAt[t]
    \/ queuedAt[s] = queuedAt[t] /\ s < t

Rank(s, Q) == Cardinality({t \in Q : Before(t, s)})

\* ZRANGE key 0 stop: a negative stop counts from the end of the set.
ZRangeTo(Q, stop) ==
    LET last == IF stop < 0 THEN Cardinality(Q) + stop ELSE stop
    IN  {s \in Q : Rank(s, Q) <= last}

\* The session a loop over a popped batch takes next.
Heads(B) == {s \in B : \A t \in B \ {s} : Before(s, t)}

Notified == {m[1] : m \in ready}

-----------------------------------------------------------------------------
(* A call that fails: the client sees an error, whether or not the server  *)
(* applied the command.                                                    *)

Fault == faults < MaxFaults /\ faults' = faults + 1

Stored(s, record) == session' = [session EXCEPT ![s] = record]
Enqueued(s) == [queue EXCEPT ![EventOf[s]] = @ \cup {s}]
InQueue(s) == IF s \in queue[EventOf[s]] THEN 1 ELSE 0

\* ZADD with the score s had before: it adds s only when the queue has no s.
ZAdd(s) ==
    /\ queue' = Enqueued(s)
    /\ entries' = [entries EXCEPT ![s] = @ + 1 - InQueue(s)]

Dequeued(s) == [queue EXCEPT ![EventOf[s]] = @ \ {s}]
=============================================================================
