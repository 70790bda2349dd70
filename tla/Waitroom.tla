------------------------------- MODULE Waitroom -------------------------------
(***************************************************************************)
(* The waiting room as a whole: every handler, the processor, the checkout *)
(* service and time, interleaved at each Redis and Kafka call.             *)
(***************************************************************************)
EXTENDS JoinLeave, Processor, Checkout, Environment

Init ==
    /\ session = [s \in Sessions |-> None]
    /\ queuedAt = [s \in Sessions |-> 0]
    /\ queue = [e \in Events |-> {}]
    /\ processing = [e \in Events |-> {}]
    /\ active = {} /\ blacklist = {} /\ ready = {}
    /\ now = 0 /\ lapsed = {} /\ faults = 0 /\ crashes = 0
    /\ jpc = [s \in Sessions |-> "idle"]
    /\ entries = [s \in Sessions |-> 0] /\ signed = [s \in Sessions |-> 0]
    /\ lpc = [s \in Sessions |-> "idle"]
    /\ lcopy = [s \in Sessions |-> None]
    /\ ppc = "idle" /\ todo = {} /\ event = None /\ quota = 0
    /\ batch = {} /\ user = None /\ attempt = 0 /\ ucopy = None
    /\ hpc = [m \in Messages |-> "none"]
    /\ hcopy = [m \in Messages |-> None]
    /\ hinv = [m \in Messages |-> None]

RequestStep == \E s \in Sessions : JoinQueue(s) \/ LeaveQueue(s)
CheckoutStep == \E m \in Messages : CheckoutPublish(m) \/ HandleCheckout(m)
EnvironmentStep ==
    \/ ClockTick \/ Crash
    \/ \E s \in Sessions : SessionLapse(s) \/ SessionEvict(s)
    \/ \E e \in Events : ProcessingExpire(e)

Next == RequestStep \/ ProcessorStep \/ CheckoutStep \/ EnvironmentStep

Spec == Init /\ [][Next]_vars

-----------------------------------------------------------------------------

Record == SessionRecord \cup {None}

\* What Redis and Kafka hold, and the environment.
StoreType ==
    /\ session \in [Sessions -> Record]
    /\ queue \in [Events -> SUBSET Sessions]
    /\ processing \in [Events -> SUBSET Sessions]
    /\ active \subseteq Events
    /\ blacklist \subseteq Sessions \X Tokens
    /\ ready \subseteq Sessions \X Tokens
    /\ now \in Nat /\ lapsed \subseteq Sessions /\ faults \in Nat /\ crashes \in Nat

\* The processor's goroutine.
ProcType ==
    /\ ppc \in {"idle", "pick", "pop", "admit", "token", "write", "slot", "ready",
                "rollback", "restore"}
    /\ todo \subseteq Events /\ event \in Events \cup {None}
    /\ quota \in Int /\ batch \subseteq Sessions
    /\ user \in Sessions \cup {None} /\ attempt \in 0 .. RetryAttempts
    /\ ucopy \in Record
    /\ ppc \in {"write", "restore"} => ucopy # None
    /\ ppc \notin {"idle", "pick"} => event # None
    /\ ppc \in {"idle", "pick", "pop"} <=> user = None
    /\ ppc \in {"idle", "pick", "pop"} => batch = {}
    /\ ppc \notin {"idle", "pick", "pop"} => user \in batch /\ attempt # 0
    /\ signed \in [Sessions -> Nat]
    /\ ppc \notin {"idle", "pick", "pop", "admit"} => signed[user] # 0

\* The handlers of JoinQueue, of LeaveQueue and of the checkout messages.
JoinType ==
    /\ jpc \in [Sessions -> {"idle", "enqueue", "resend", "piped", "activate", "update",
                             "done", "failed", "refused"}]
    /\ queuedAt \in [Sessions -> Nat] /\ entries \in [Sessions -> Nat]

LeaveType ==
    /\ lpc \in [Sessions -> {"idle", "remove", "count", "deactivate", "mark", "write",
                             "done", "failed"}]
    /\ lcopy \in [Sessions -> Record]
    /\ \A s \in Sessions : lpc[s] = "write" => lcopy[s] # None

OutcomeType ==
    /\ hpc \in [Messages -> {"none", "sent", "token", "blacklist", "release", "write",
                             "done", "skipped"}]
    /\ hcopy \in [Messages -> Record] /\ hinv \in [Messages -> Record]
    /\ \A m \in Messages :
           /\ hpc[m] \in {"token", "blacklist", "release", "write"} => hcopy[m] # None
           /\ hpc[m] = "blacklist" => hinv[m] # None

HandlerType == JoinType /\ LeaveType /\ OutcomeType

\* Every variable has a value of its type, and each handler holds the copies that
\* its next step writes back.
TypeOK == StoreType /\ ProcType /\ HandlerType

\* The sessions of e the processor has popped and not yet dealt with.
InFlight(e) == IF event = e THEN batch ELSE {}

\* ZADD was applied for s.
Entered(s) == jpc[s] \notin {"idle", "enqueue", "refused"}

\* "MaxConcurrentPerEvent: max users in checkout per event" (queue_processor.go:56),
\* although the count is read, the batch popped and the places taken one call at a
\* time, with retries, rollbacks and restarts in between.
SlotBound == \A e \in Events : Cardinality(processing[e]) <= MaxConcurrent

\* A session is waiting and in checkout at once only when its ZADD was applied again
\* after it had left the queue, by the driver's sending again a ZADD whose reply was
\* lost: no retry, rollback, second run of the pop or restart puts it back.
BothOnlyIfResent ==
    \A e \in Events : \A s \in queue[e] \cap (processing[e] \cup InFlight(e)) :
        entries[s] > 1

Announced(s) == {m \in ready : m[1] = s}

\* The checkout service hears of a session at most once for each time the session was
\* put into the queue, so once and with one token unless its ZADD was applied again,
\* however often the admission was retried (doAdmitUserToCheckout publishes last).
NotifiedOncePerEntry == \A s \in Sessions : Cardinality(Announced(s)) <= entries[s]

-----------------------------------------------------------------------------
(* Why these hold: invariants that every step preserves and from which     *)
(* SlotBound, BothOnlyIfResent and NotifiedOncePerEntry follow             *)
(* (WaitroomProofs).                                                       *)

\* The places taken and the places set aside for the batch stay within the bound,
\* and so will those of the batch about to be popped, because between SCARD and
\* the end of the batch nobody but the processor adds to the processing set.
PlacesInv ==
    /\ \A e \in Events : Cardinality(processing[e] \cup InFlight(e)) <= MaxConcurrent
    /\ ppc = "pop" =>
           quota > 0 /\ Cardinality(processing[event]) + quota <= MaxConcurrent

\* How often s left the queue: no step lowers it, since a ZADD that counts as an
\* entry puts s into the queue.
TakenOut(s) == entries[s] - InQueue(s)

\* A session is only found where its own event's sessions are, and only once its
\* ZADD was applied; and when it is in checkout it has left the queue before.
WhereInv ==
    /\ \A e \in Events :
           /\ \A s \in queue[e] \cup processing[e] \cup InFlight(e) : EventOf[s] = e
           /\ \A s \in processing[e] \cup InFlight(e) : TakenOut(s) > 0
    /\ \A s \in Sessions :
           TakenOut(s) >= 0 /\ (~Entered(s) => entries[s] = 0)

\* The announcements of a session, the one being prepared included, are as many as
\* the times it left the queue or fewer.
NotifyInv ==
    \A s \in Sessions :
        /\ IsFiniteSet(Announced(s))
        /\ Cardinality(Announced(s)) + (IF s \in batch THEN 1 ELSE 0) <= TakenOut(s)

\* Every entry of a session into the queue but its first cost a lost reply of its
\* ZADD, and so does one that is still to be sent again.
EntriesInv ==
    \A s \in Sessions :
        entries[s] + (IF jpc[s] = "resend" THEN 1 ELSE 0) <= faults + 1

IInv == TypeOK /\ PlacesInv /\ WhereInv /\ NotifyInv /\ EntriesInv

-----------------------------------------------------------------------------

\* No call failed and nothing restarted so far.
Untroubled == faults = 0 /\ crashes = 0

\* JoinQueue for s is past its ZADD and has not failed.
Joined(s) == jpc[s] \in {"activate", "update", "done"}

\* As long as no call fails and nothing restarts, a session that joined, has not
\* lapsed and did not ask to leave is in the queue, in the batch being admitted,
\* or has been announced to the checkout service.
NoneLost ==
    Untroubled =>
        \A s \in Sessions :
            Joined(s) /\ s \notin lapsed /\ lpc[s] = "idle" =>
                s \in queue[EventOf[s]] \cup InFlight(EventOf[s]) \cup Notified

\* As long as no call fails and nothing restarts, a session whose checkout waits
\* for QUEUE_READY holds a place only when it was just admitted or announced and
\* its checkout has not ended: the handler of an outcome frees the place for good.
HeldPlaceIsLive ==
    Untroubled =>
        \A e \in Events : \A s \in processing[e] \ (lapsed \cup Pollers) :
            /\ s \in Notified \/ (ppc = "ready" /\ user = s)
            /\ \A m \in Messages : m[1] = s => hpc[m] \notin {"write", "done"}

\* As long as no call fails, a token is never accepted again once one handler of
\* an outcome of its session has run to its end, although the handlers, JoinQueue
\* and LeaveQueue write back records they read earlier.
SpentTokenStaysInvalid ==
    Untroubled =>
        \A m \in Messages : hpc[m] = "done" /\ m[1] \notin lapsed =>
            \A t \in 1 .. signed[m[1]] : ~TokenValid(m[1], t)

-----------------------------------------------------------------------------
(* Why these hold: what every step preserves about the records, and from   *)
(* which NoneLost, HeldPlaceIsLive and SpentTokenStaysInvalid follow, and  *)
(* AnswersMoveForward of GrpcService (RecordProofs, GrpcProofs).           *)

\* The processor wrote the record of s as admitted and is about to take its place
\* or to announce it, or it announced s.
PastWrite(s) == s \in Notified \/ (user = s /\ ppc \in {"slot", "ready"})

\* A record is there until its session lapses, and a session whose user does not
\* poll has no outcome before QUEUE_READY: this holds whatever fails.
RecordKept ==
    /\ \A s \in Sessions :
           jpc[s] \notin {"idle", "refused"} /\ s \notin lapsed => session[s] # None
    /\ \A m \in Messages : hpc[m] # "none" /\ m[1] \notin Pollers => m[1] \in Notified

\* Before the processor's write no outcome of the session exists, no copy of its
\* record has a token, and only a LeaveQueue changes its status.
BeforeWrite ==
    \A s \in Sessions : ~PastWrite(s) =>
        /\ \A m \in Messages : m[1] = s => hpc[m] = "none"
        /\ session[s] # None => session[s].token = 0
        /\ lcopy[s] # None => lcopy[s].token = 0
        /\ jpc[s] \notin {"idle", "refused"} /\ s \notin lapsed /\ lpc[s] = "idle" =>
               session[s].status = "queued"

\* After a handler's last write the record is never both admitted and unmarked.
AfterOutcome ==
    \A m \in Messages : hpc[m] = "done" /\ m[1] \notin lapsed =>
        session[m[1]].status # "admitted" \/ session[m[1]].inval

\* A queued record has no token, and the record InvalidateToken read had one.
QueuedHasNoToken ==
    /\ \A s \in Sessions :
           session[s] # None /\ session[s].status = "queued" => session[s].token = 0
    /\ \A m \in Messages : hpc[m] = "blacklist" => hinv[m].status # "queued"

RecordInv ==
    /\ RecordKept /\ NoneLost /\ HeldPlaceIsLive
    /\ Untroubled =>
           /\ BeforeWrite /\ AfterOutcome /\ QueuedHasNoToken
           /\ ppc \notin {"rollback", "restore"}

-----------------------------------------------------------------------------

\* Some user asked to leave; JoinedEventIsActive tells what may then happen.
SomeoneLeft == \E s \in Sessions : lpc[s] # "idle"

\* With the processor running, every session in the queue is announced to the
\* checkout service, unless its time runs out, also when no user ever ends a
\* checkout: the places then free themselves by their TTL.  Nobody leaves.
QueuedIsNotified ==
    \A s \in Sessions :
        s \in queue[EventOf[s]] ~> s \in Notified \cup lapsed \/ SomeoneLeft

-----------------------------------------------------------------------------
(* Statements of the documents that the code does not keep. *)

\* SYSTEM_FLOW_README.md:353 says that after the processor ran, the status of a
\* session is admitted and its checkout token populated.
AnnouncedIsAdmitted ==
    Untroubled =>
        \A m \in ready :
            jpc[m[1]] = "done" /\ lpc[m[1]] = "idle" /\ m[1] \notin lapsed
            /\ (\A n \in Messages : n[1] = m[1] => hpc[n] = "none") =>
                session[m[1]].status = "admitted" /\ session[m[1]].token = m[2]

\* QUEUE_PROCESSOR_GUIDE.md:192 says that an event is not in the active set when
\* the user did not join successfully: a session whose request succeeded waits in
\* the queue of an active event, once no LeaveQueue is running.
JoinedEventIsActive ==
    Untroubled /\ (\A s \in Sessions : lpc[s] \in {"idle", "done"}) =>
        \A s \in Sessions :
            jpc[s] = "done" /\ s \in queue[EventOf[s]] => EventOf[s] \in active

-----------------------------------------------------------------------------
(* The promise of AdmissionControl. *)

arrivedBar == {s \in Sessions : Entered(s)}

stampBar == [s \in Sessions |-> IF ~Entered(s) THEN 0 ELSE queuedAt[s]]

\* Requests whose ZADD was applied and may be sent again.
askingBar == {s \in Sessions : jpc[s] \in {"resend", "piped"}}

waitingBar == {s \in Sessions : s \in queue[EventOf[s]]}

holdingBar ==
    {s \in Sessions : s \in processing[EventOf[s]] \cup InFlight(EventOf[s])}

AC == INSTANCE AdmissionControl
      WITH arrived <- arrivedBar, stamp <- stampBar, asking <- askingBar,
           waiting <- waitingBar, holding <- holdingBar

\* The handlers implement AdmissionControl, whatever call fails or is sent again and
\* whenever the service restarts: only a ZADD the driver repeats lets a session wait
\* a second time.
Promise == AC!Spec
=============================================================================
