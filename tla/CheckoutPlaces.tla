---------------------------- MODULE CheckoutPlaces ----------------------------
(***************************************************************************)
(* The places of one event against time: how long a session may use its    *)
(* token, how long the processing set keeps its place, and who gives it    *)
(* back.  The key of the set has one TTL, which every AddToProcessing sets *)
(* anew in a pipeline that may be applied in part; several replicas of the *)
(* service run a processor on the same Redis; the outcomes come through    *)
(* the Kafka consumer.  Time is counted down, in parts of the 15 minutes.  *)
(*                                                                         *)
(* Sessions are numbered in the order of the queue, where they are from    *)
(* the start; the interleaving within a read and write of a record and the *)
(* driver's own retry are in Waitroom.                                     *)
(***************************************************************************)
EXTENDS OutcomeConsumer

CONSTANTS
    MaxConcurrent,  \* cfg.MaxConcurrentPerEvent
    BatchSize,      \* cfg.BatchSize
    RetryAttempts,  \* cfg.RetryAttempts
    Life,           \* the 15 minutes of a token and of the processing key, in ticks
    MayLapse,       \* sessions whose record may reach its TTL
    MaxTroubles     \* bound on failed calls and restarts

ASSUME PlacesAssumption ==
    /\ Sessions \subseteq Nat /\ IsFiniteSet(Sessions) /\ MayLapse \subseteq Sessions
    /\ MaxConcurrent \in Nat /\ BatchSize \in Nat \ {0} /\ RetryAttempts \in Nat \ {0}
    /\ Life \in Nat \ {0} /\ MaxTroubles \in Nat

VARIABLES
    waiting,    \* the queue of the event
    held,       \* the processing set of the event
    ttl,        \* ticks until its key expires, None when the key has no TTL
    status,     \* the status in each session's record, "gone" without a record
    left,       \* ticks until the CheckoutExpiresAt in the record
    spent,      \* sessions whose token is invalidated
    announced,  \* sessions QUEUE_READY was published for
    reported,   \* sessions whose outcome the checkout service has published
    pc,         \* where the processor of each replica stands
    quota,      \* its batch size
    batch,      \* the sessions it has popped and not yet dealt with
    user,       \* the one it is admitting
    attempt,    \* its withRetry attempt
    takenBy,    \* the replica that popped each session
    exposed,    \* sessions whose admission or invalidation met a failure
    troubles    \* failed calls and restarts so far

storeVars == <<waiting, held, ttl>>
recordVars == <<status, left, spent>>
procVars == <<pc, quota, batch, user, attempt>>
ghostVars == <<takenBy, exposed>>
vars == <<consumerVars, storeVars, recordVars, announced, reported, procVars, ghostVars,
          troubles>>

Init ==
    /\ ConsumerInit
    /\ waiting = Sessions /\ held = {} /\ ttl = None
    /\ status = [s \in Sessions |-> "queued"]
    /\ left = [s \in Sessions |-> 0] /\ spent = {} /\ announced = {} /\ reported = {}
    /\ pc = [r \in Members |-> "idle"] /\ quota = [r \in Members |-> 0]
    /\ batch = [r \in Members |-> {}] /\ user = [r \in Members |-> None]
    /\ attempt = [r \in Members |-> 0]
    /\ takenBy = [s \in Sessions |-> None] /\ exposed = {} /\ troubles = 0

Trouble == troubles < MaxTroubles /\ troubles' = troubles + 1

\* A token is accepted while its record is admitted, in time and not invalidated.
Usable(s) == status[s] = "admitted" /\ left[s] > 0 /\ s \notin spent

-----------------------------------------------------------------------------
(* The processor of replica r. *)

\* The loop over the batch goes on with the sessions B.
GoOn(r, B) ==
    /\ batch' = [batch EXCEPT ![r] = B]
    /\ quota' = [quota EXCEPT ![r] = 0]
    /\ \/ /\ B = {}
          /\ user' = [user EXCEPT ![r] = None]
          /\ attempt' = [attempt EXCEPT ![r] = 0]
          /\ pc' = [pc EXCEPT ![r] = "idle"]
       \/ /\ \E s \in B : (\A t \in B : s <= t) /\ user' = [user EXCEPT ![r] = s]
          /\ attempt' = [attempt EXCEPT ![r] = 1]
          /\ pc' = [pc EXCEPT ![r] = "token"]

At(r, from) == pc[r] = from
Goto(r, to) == pc' = [pc EXCEPT ![r] = to] /\ UNCHANGED <<quota, batch, user, attempt>>

\* A mutated form: one attempt too many.
HasRetryOneMore(r) == attempt[r] <= RetryAttempts

HasRetry(r) == attempt[r] < RetryAttempts

\* withRetry: the whole admission again, or the next session.
TryAgain(r) ==
    \/ /\ HasRetry(r)
       /\ attempt' = [attempt EXCEPT ![r] = @ + 1]
       /\ pc' = [pc EXCEPT ![r] = "token"]
       /\ UNCHANGED <<quota, batch, user>>
    \/ ~HasRetry(r) /\ GoOn(r, batch[r] \ {user[r]})

\* A mutated form: the free places are not heeded.
FreeUnheeded == MaxConcurrent

Free == MaxConcurrent - Cardinality(held)

\* SCARD; without free places, or when the call fails, the tick is over.
Count(r) ==
    /\ At(r, "idle") /\ Free > 0
    /\ quota' = [quota EXCEPT ![r] = IF Free < BatchSize THEN Free ELSE BatchSize]
    /\ pc' = [pc EXCEPT ![r] = "pop"]
    /\ UNCHANGED <<consumerVars, storeVars, recordVars, announced, reported>>
    /\ UNCHANGED <<batch, user, attempt, ghostVars, troubles>>

\* A mutated form: ZRANGE without the ZREM.
WaitingStays(S) == waiting

WaitingWithout(S) == waiting \ S

\* The script takes up to quota sessions out of the queue, at once; when its
\* reply is lost they are lost with it.
Pop(r) ==
    /\ At(r, "pop")
    /\ \E S \in SUBSET waiting :
           /\ \A s \in S, t \in waiting \ S : s < t
           /\ Cardinality(S) <= quota[r]
           /\ Cardinality(S) < quota[r] => S = waiting
           /\ waiting' = WaitingWithout(S)
           /\ \/ /\ GoOn(r, S)
                 /\ takenBy' = [s \in Sessions |-> IF s \in S THEN r ELSE takenBy[s]]
                 /\ UNCHANGED troubles
              \/ GoOn(r, {}) /\ Trouble /\ UNCHANGED takenBy
    /\ UNCHANGED <<consumerVars, held, ttl, recordVars, announced, reported, exposed>>

\* GetSession, CanAdmit and UpdateCheckoutToken: the record gets a token that
\* ends 15 minutes after it was signed, some ticks of which may have passed.
WriteToken(r) ==
    LET s == user[r]
        Written(n) == /\ status' = [status EXCEPT ![s] = "admitted"]
                      /\ left' = [left EXCEPT ![s] = n]
    IN  /\ At(r, "token")
        /\ \/ /\ status[s] = "queued" /\ Goto(r, "slot") /\ UNCHANGED <<exposed, troubles>>
              /\ \E n \in 1 .. Life : Written(n)
           \/ /\ status[s] # "queued" /\ TryAgain(r)
              /\ UNCHANGED <<status, left, exposed, troubles>>
           \/ /\ Trouble /\ TryAgain(r) /\ UNCHANGED <<status, left, exposed>>
           \/ /\ status[s] = "queued" /\ Trouble /\ TryAgain(r)
              /\ Written(Life) /\ exposed' = exposed \cup {s}
        /\ UNCHANGED <<consumerVars, storeVars, spent, announced, reported, takenBy>>

\* Mutated forms: the key is given a TTL only when it has none, or never.
RenewedOnce == IF ttl = None THEN Life ELSE ttl
RenewedNever == None

\* EXPIRE of the whole set.
Renewed == Life

\* AddToProcessing: SADD and EXPIRE in one pipeline, which may be applied whole
\* with its reply lost, not at all, or in its first half.  A key that SADD has
\* created has no TTL.
TakePlace(r) ==
    LET s == user[r]
    IN  /\ At(r, "slot")
        /\ \/ /\ held' = held \cup {s} /\ ttl' = Renewed
              /\ Goto(r, "ready") /\ exposed' = exposed \ {s} /\ UNCHANGED troubles
           \/ /\ Trouble /\ Goto(r, "rollback") /\ exposed' = exposed \cup {s}
              /\ \/ UNCHANGED <<held, ttl>>
                 \/ held' = held \cup {s} /\ ttl' \in {ttl, Renewed}
        /\ UNCHANGED <<consumerVars, waiting, recordVars, announced, reported, takenBy>>

\* The rollback makes the record queued again, if it can.
RollBack(r) ==
    /\ At(r, "rollback") /\ TryAgain(r)
    /\ \/ /\ status' = [status EXCEPT ![user[r]] = IF @ = "gone" THEN @ ELSE "queued"]
          /\ UNCHANGED troubles
       \/ Trouble /\ UNCHANGED status
    /\ UNCHANGED <<consumerVars, storeVars, left, spent, announced, reported, ghostVars>>

\* PublishQueueReady, whose failure is only logged.
Announce(r) ==
    /\ At(r, "ready") /\ GoOn(r, batch[r] \ {user[r]})
    /\ \/ announced' = announced \cup {user[r]} /\ UNCHANGED troubles
       \/ Trouble /\ announced' \in {announced, announced \cup {user[r]}}
    /\ UNCHANGED <<consumerVars, storeVars, recordVars, reported, ghostVars>>

\* The context of the batch runs out, or the replica dies, while it admits: the
\* sessions it popped are dropped.
DropBatch(r) ==
    /\ user[r] # None /\ Trouble /\ GoOn(r, {})
    /\ exposed' = exposed \cup (IF At(r, "slot") THEN {user[r]} ELSE {})
    /\ UNCHANGED <<consumerVars, storeVars, recordVars, announced, reported, takenBy>>

ProcessorStep(r) ==
    Count(r) \/ Pop(r) \/ WriteToken(r) \/ TakePlace(r) \/ RollBack(r) \/ Announce(r)

-----------------------------------------------------------------------------
(* The outcomes. *)

\* The checkout service ends a checkout it was told of, once.
ReportOutcome(s) ==
    /\ s \in announced \ reported
    /\ Publish(s) /\ reported' = reported \cup {s}
    /\ UNCHANGED <<storeVars, recordVars, announced, procVars, ghostVars, troubles>>

GroupStep ==
    /\ \/ /\ UNCHANGED troubles
          /\ \/ \E r \in Members : JoinGroup(r)
             \/ TakeMessage \/ CommitOffset \/ SessionEnds(FlushedAt)
       \/ Trouble /\ SessionEnds(committed)
    /\ UNCHANGED <<storeVars, recordVars, announced, reported, procVars, ghostVars>>

\* The session whose outcome the handler has at hand.
Handled == log[position]

HandlerGoes(from, to) ==
    /\ hstep = from /\ hstep' = to
    /\ UNCHANGED <<log, committed, owner, position, marked, tried>>

\* GetSession: when the record has reached its TTL by now there is nothing to do
\* and the message is marked.
GetRecord ==
    /\ hstep = "get"
    /\ \/ /\ status[Handled] # "gone" /\ HandlerGoes("get", "token")
          /\ UNCHANGED <<status, troubles>>
       \/ /\ Handled \in MayLapse \/ status[Handled] = "gone"
          /\ status' = [status EXCEPT ![Handled] = "gone"]
          /\ MarkMessage /\ UNCHANGED troubles
       \/ Trouble /\ LeaveUnmarked /\ UNCHANGED status
    /\ UNCHANGED <<storeVars, left, spent, announced, reported, procVars, ghostVars>>

\* InvalidateCheckoutToken; an error, or no token in the record, is passed over.
Invalidate ==
    /\ HandlerGoes("token", "place")
    /\ \/ spent' = spent \cup {Handled} /\ UNCHANGED <<exposed, troubles>>
       \/ /\ Trouble /\ spent' \in {spent, spent \cup {Handled}}
          /\ exposed' = exposed \cup {Handled}
    /\ UNCHANGED <<storeVars, status, left, announced, reported, procVars, takenBy>>

\* RemoveFromProcessing; an error is passed over.  Redis deletes an empty set.
Release ==
    /\ HandlerGoes("place", "record")
    /\ \/ held' = held \ {Handled} /\ UNCHANGED troubles
       \/ Trouble /\ held' \in {held, held \ {Handled}}
    /\ ttl' = IF held' = {} THEN None ELSE ttl
    /\ UNCHANGED <<waiting, recordVars, announced, reported, procVars, ghostVars>>

\* UpdateSession with the outcome as status; with an error the message stays
\* unmarked.
EndRecord ==
    /\ hstep = "record"
    /\ LET ended == [status EXCEPT ![Handled] = "ended"]
       IN  \/ MarkMessage /\ status' = ended /\ UNCHANGED troubles
           \/ Trouble /\ LeaveUnmarked /\ status' \in {status, ended}
    /\ UNCHANGED <<storeVars, left, spent, announced, reported, procVars, ghostVars>>

HandlerStep == GetRecord \/ Invalidate \/ Release \/ EndRecord

-----------------------------------------------------------------------------
(* Time and restarts. *)

LessOne(n) == IF n = 0 THEN 0 ELSE n - 1

\* Time passes for every token, and for the key when it has a TTL.
Tick ==
    /\ ttl # None \/ \E s \in Sessions : left[s] > 0
    /\ left' = [s \in Sessions |-> LessOne(left[s])]
    /\ IF ttl = None THEN UNCHANGED <<held, ttl>>
       ELSE IF ttl = 1 THEN held' = {} /\ ttl' = None
       ELSE UNCHANGED held /\ ttl' = ttl - 1
    /\ UNCHANGED <<consumerVars, waiting, status, spent, announced, reported, procVars>>
    /\ UNCHANGED <<ghostVars, troubles>>

\* The process of a replica dies and starts again: its processor begins anew and
\* the partition, if it had it, has no owner.
Restart(r) ==
    /\ Trouble
    /\ GoOn(r, {})
    /\ exposed' = exposed \cup (IF At(r, "slot") THEN {user[r]} ELSE {})
    /\ IF owner = r THEN OwnerDies ELSE UNCHANGED consumerVars
    /\ UNCHANGED <<storeVars, recordVars, announced, reported, takenBy>>

Next ==
    \/ \E r \in Members : ProcessorStep(r) \/ DropBatch(r) \/ Restart(r)
    \/ \E s \in Sessions : ReportOutcome(s)
    \/ GroupStep \/ HandlerStep \/ Tick

Spec == Init /\ [][Next]_vars

\* The processors and handlers that started run on, a member joins the group and
\* reads what is there, time passes.  Nothing makes a rebalance, a checkout's end
\* or a failure happen.
Fairness ==
    /\ \A r \in Members : WF_vars(pc[r] # "idle" /\ ProcessorStep(r))
    /\ WF_vars((\E r \in Members : JoinGroup(r)) /\ GroupStep)
    /\ SF_vars(TakeMessage /\ GroupStep)
    /\ WF_vars(HandlerStep) /\ WF_vars(Tick)

FairSpec == Spec /\ Fairness

-----------------------------------------------------------------------------

ConsumerPart ==
    /\ ConsumerType
    /\ hstep \in {"idle", "get", "token", "place", "record"}
    /\ hstep # "idle" => owner # None /\ position \in 1 .. Len(log)

StorePart ==
    /\ waiting \subseteq Sessions /\ held \subseteq Sessions
    /\ ttl \in 1 .. Life \cup {None}
    /\ held = {} => ttl = None

RecordPart ==
    /\ status \in [Sessions -> {"queued", "admitted", "ended", "gone"}]
    /\ left \in [Sessions -> 0 .. Life] /\ spent \subseteq Sessions
    /\ announced \subseteq Sessions /\ reported \subseteq Sessions
    /\ takenBy \in [Sessions -> Members \cup {None}] /\ exposed \subseteq Sessions
    /\ troubles \in Nat

ProcPart ==
    /\ pc \in [Members -> {"idle", "pop", "token", "slot", "rollback", "ready"}]
    /\ quota \in [Members -> Nat] /\ batch \in [Members -> SUBSET Sessions]
    /\ user \in [Members -> Sessions \cup {None}]
    /\ attempt \in [Members -> 0 .. RetryAttempts]
    /\ \A r \in Members : IF pc[r] \in {"idle", "pop"} THEN user[r] = None /\ batch[r] = {}
                                                       ELSE user[r] \in batch[r]

\* Every variable has a value of its type; a replica admits one of its batch, a
\* handler has a message of the log, and Redis keeps no empty set.
TypeOK == ConsumerPart /\ StorePart /\ RecordPart /\ ProcPart

BeingPlaced(s) == \E r \in Members : pc[r] = "slot" /\ user[r] = s

\* Whoever has a token that is still accepted has a place, or is about to get it:
\* one TTL for the whole set never runs out before a member's token does, and an
\* outcome takes the place back only from a token that is refused.  The exception
\* are the sessions for whom a call failed just there.
PlaceOutlivesToken ==
    \A s \in Sessions \ exposed : Usable(s) => s \in held \/ BeingPlaced(s)

\* Two replicas never admit the same session, nor one that still waits.
AdmittedByOne ==
    \A r \in Members :
        /\ batch[r] \cap waiting = {}
        /\ \A q \in Members \ {r} : batch[r] \cap batch[q] = {}

\* The places replica r has given, and those it has set aside.
GivenBy(r) == {s \in held \cup batch[r] : takenBy[s] = r}

\* Each replica alone keeps "max users in checkout per event"
\* (queue_processor.go:56), and so n of them keep n times as many, although each
\* counts a set that the others fill between its SCARD and its SADD.
EachKeepsBound == \A r \in Members : Cardinality(GivenBy(r)) <= MaxConcurrent

\* An event whose places are all taken gets free ones, also when no user ends a
\* checkout, an SREM fails, an outcome is lost or finds no session, or the
\* pipeline sets no TTL: one such trouble never blocks the event for good.
FullFreesUp == (Free <= 0 /\ troubles <= 1) ~> (Free > 0 \/ troubles > 1)
=============================================================================
