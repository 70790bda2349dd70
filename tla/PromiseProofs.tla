---------------------------- MODULE PromiseProofs ----------------------------
(***************************************************************************)
(* Waitroom implements AdmissionControl, for every value of the constants  *)
(* with a positive batch size: places are set aside for those who came in  *)
(* the earliest second, within the bound, and only a request that was not  *)
(* answered yet puts a session that left its queue back into it.  A step   *)
(* of a handler is one of these to AdmissionControl: nothing, an arrival   *)
(* or its repetition, a departure from the queue or the places of one      *)
(* event, or the admission of a batch.                                     *)
(***************************************************************************)
EXTENDS WaitroomProofs

\* The sessions that hold a place of e or for whom one is set aside.
Holds(e) == processing[e] \cup InFlight(e)

\* The sessions that have entered the queue, and when, are as before, and no request
\* is newly left without its answer.
SameEntries ==
    /\ \A s \in Sessions : /\ Entered(s)' <=> Entered(s)
                           /\ Entered(s) => queuedAt'[s] = queuedAt[s]
    /\ askingBar' \subseteq askingBar

ACStep == [AC!Next]_(AC!acVars)

\* A session in a queue is in its event's, and its ZADD was applied.
LEMMA QueuedEntered ==
    ASSUME TypeOK, WhereInv, NEW e \in Events, NEW s \in queue[e]
    PROVE  s \in Sessions /\ EventOf[s] = e /\ Entered(s)
<1>1. s \in Sessions /\ EventOf[s] = e
    BY DEF TypeOK, StoreType, WhereInv
<1>2. InQueue(s) = 1 /\ TakenOut(s) >= 0
    BY <1>1 DEF InQueue, WhereInv
<1>3. entries[s] # 0
    BY <1>1, <1>2 DEF TakenOut
<1> QED BY <1>1, <1>3 DEF WhereInv

\* What the refinement mapping makes of the queues and the places.
LEMMA MappedSets ==
    ASSUME TypeOK, WhereInv, NEW e \in Events
    PROVE  AC!Of(waitingBar, e) = queue[e] /\ AC!Of(holdingBar, e) = Holds(e)
<1>1. queue[e] \in SUBSET Sessions /\ Holds(e) \in SUBSET Sessions
    BY DEF TypeOK, StoreType, ProcType, InFlight, Holds
<1>2. \A s \in queue[e] \cup Holds(e) : EventOf[s] = e
    BY DEF WhereInv, Holds
<1> QED BY <1>1, <1>2 DEF AC!Of, waitingBar, holdingBar, Holds

\* The arrivals and their stamps only depend on the entries.
LEMMA SameArrivals == SameEntries => UNCHANGED <<arrivedBar, stampBar>>
BY DEF SameEntries, arrivedBar, stampBar

\* What is waiting, or holding, is as before where the queues, or the places, are.
LEMMA SameSets ==
    /\ (\A e \in Events : queue'[e] = queue[e]) => waitingBar' = waitingBar
    /\ (\A e \in Events : Holds(e)' = Holds(e)) => holdingBar' = holdingBar
<1>1. \A s \in Sessions : EventOf[s] \in Events
    BY SessionsAssumption
<1>2. ASSUME \A e \in Events : queue'[e] = queue[e]
      PROVE  waitingBar' = waitingBar
    BY <1>1, <1>2 DEF waitingBar
<1>3. ASSUME \A e \in Events : Holds(e)' = Holds(e)
      PROVE  holdingBar' = holdingBar
    <2>1. \A s \in Sessions : s \in Holds(EventOf[s])' <=> s \in Holds(EventOf[s])
        BY <1>1, <1>3
    <2> QED BY <2>1 DEF holdingBar, Holds
<1> QED BY <1>2, <1>3

\* Nothing happens where the queues and places are as before, or a request is answered.
LEMMA Stutters ==
    ASSUME SameEntries,
           \A e \in Events : queue'[e] = queue[e] /\ Holds(e)' = Holds(e)
    PROVE  ACStep
<1>1. UNCHANGED <<arrivedBar, stampBar, waitingBar, holdingBar>>
    BY SameArrivals, SameSets
<1>2. CASE askingBar' = askingBar
    BY <1>1, <1>2 DEF ACStep, AC!acVars
<1>3. CASE askingBar' # askingBar
    <2>1. PICK s \in Sessions : s \in askingBar
        BY <1>3 DEF SameEntries, askingBar
    <2>2. EventOf[s] \in Events
        BY SessionsAssumption
    <2>3. AC!Release({})
        BY <1>1 DEF AC!Release, SameEntries
    <2> QED BY <2>2, <2>3 DEF ACStep, AC!Next
<1> QED BY <1>2, <1>3

\* Sessions go from the queue of one event.
LEMMA WaitingLeave ==
    ASSUME TypeOK, WhereInv, SameEntries, NEW e \in Events,
           \A f \in Events : /\ queue'[f] \subseteq queue[f] /\ Holds(f)' = Holds(f)
                             /\ f # e => queue'[f] = queue[f]
    PROVE  AC!Next
<1> DEFINE S == queue[e] \ queue'[e]
<1>1. S \in SUBSET AC!Of(waitingBar, e)
    BY MappedSets
<1>2. \A s \in S : EventOf[s] = e
    BY DEF WhereInv
<1>3. waitingBar' = waitingBar \ S
    BY <1>2, SessionsAssumption DEF waitingBar
<1>4. AC!Leave(S)
    BY <1>3, SameArrivals, SameSets DEF AC!Leave, SameEntries
<1> QED BY <1>1, <1>4 DEF AC!Next

\* Sessions give back the places of one event, or those set aside for them.
LEMMA HoldersLeave ==
    ASSUME TypeOK, WhereInv, SameEntries, NEW e \in Events,
           \A f \in Events : /\ queue'[f] = queue[f] /\ Holds(f)' \subseteq Holds(f)
                             /\ f # e => Holds(f)' = Holds(f)
    PROVE  AC!Next
<1> DEFINE S == Holds(e) \ Holds(e)'
<1>1. S \in SUBSET AC!Of(holdingBar, e)
    BY MappedSets
<1>2. \A s \in S : EventOf[s] = e
    BY DEF WhereInv, Holds
<1>3. \A s \in Sessions :
          s \in Holds(EventOf[s])' <=> s \in Holds(EventOf[s]) /\ s \notin S
    BY <1>2, SessionsAssumption
<1>4. holdingBar' = holdingBar \ S
    BY <1>3 DEF holdingBar, Holds
<1>5. AC!Release(S)
    BY <1>4, SameArrivals, SameSets DEF AC!Release, SameEntries
<1> QED BY <1>1, <1>5 DEF AC!Next

\* s is put into the queue of its event, and nothing else changes place.
PutIn(s) ==
    \A e \in Events :
        /\ queue'[e] = IF e = EventOf[s] THEN queue[e] \cup {s} ELSE queue[e]
        /\ Holds(e)' = Holds(e)

\* What putting s in makes of the mapped sets.
LEMMA PutInSets ==
    ASSUME NEW s \in Sessions, PutIn(s)
    PROVE  waitingBar' = waitingBar \cup {s} /\ holdingBar' = holdingBar
<1>1. waitingBar' = waitingBar \cup {s}
    BY SessionsAssumption DEF PutIn, waitingBar
<1>2. holdingBar' = holdingBar
    BY SameSets DEF PutIn
<1> QED BY <1>1, <1>2

\* Nothing but s enters, for the first time.
OnlyEnters(s) ==
    /\ ~Entered(s) /\ Entered(s)' /\ PutIn(s)
    /\ \A t \in Sessions \ {s} : /\ Entered(t)' <=> Entered(t)
                                 /\ Entered(t) => queuedAt'[t] = queuedAt[t]
    /\ askingBar' \subseteq askingBar \cup {s}

\* A session enters the queue.
LEMMA Arrives ==
    ASSUME TypeOK, TypeOK', NEW s \in Sessions, OnlyEnters(s)
    PROVE  AC!Next
<1>1. s \notin arrivedBar /\ arrivedBar' = arrivedBar \cup {s}
    BY DEF OnlyEnters, arrivedBar
<1>2. waitingBar' = waitingBar \cup {s} /\ holdingBar' = holdingBar
    BY PutInSets DEF OnlyEnters
<1>3. /\ stampBar'[s] \in Nat
      /\ \A t \in Sessions \ {s} : stampBar'[t] = stampBar[t]
    BY DEF OnlyEnters, stampBar, TypeOK, HandlerType, JoinType
<1>4. stampBar' = [stampBar EXCEPT ![s] = stampBar'[s]]
    BY <1>3 DEF stampBar
<1>5. AC!Arrive(s)
    BY <1>1, <1>2, <1>3, <1>4 DEF AC!Arrive, OnlyEnters
<1> QED BY <1>5 DEF AC!Next

\* A ZADD that is sent again finds its session in the queue, or puts it back.
LEMMA EntersAgain ==
    ASSUME SameEntries, NEW s \in Sessions, s \in askingBar, PutIn(s)
    PROVE  ACStep
<1>1. CASE s \in queue[EventOf[s]]
    <2>1. \A e \in Events : queue'[e] = queue[e] /\ Holds(e)' = Holds(e)
        BY <1>1 DEF PutIn
    <2> QED BY <2>1, Stutters
<1>2. CASE s \notin queue[EventOf[s]]
    <2>1. s \in askingBar \ waitingBar
        BY <1>2 DEF waitingBar
    <2>2. AC!Again(s)
        BY <2>1, PutInSets, SameArrivals DEF AC!Again, SameEntries
    <2> QED BY <2>2 DEF ACStep, AC!Next
<1> QED BY <1>1, <1>2

\* What a pop of n leaves of a queue comes after what it takes.
LEMMA PoppedFirst ==
    ASSUME queuedAt \in [Sessions -> Nat], NEW Q \in SUBSET Sessions, NEW n \in Nat \ {0},
           NEW s \in ZRangeTo(Q, n - 1), NEW t \in Q \ ZRangeTo(Q, n - 1)
    PROVE  Before(s, t)
<1>1. Rank(s, Q) <= n - 1 /\ ~(Rank(t, Q) <= n - 1) /\ s \in Q /\ t \in Q /\ s # t
    BY DEF ZRangeTo
<1>2. Rank(s, Q) \in Nat /\ Rank(t, Q) \in Nat
    BY SessionSets DEF Rank
<1>3. CASE Before(t, s)
    <2>1. Rank(t, Q) < Rank(s, Q)
        BY <1>1, <1>3, RankOrder
    <2> QED BY <1>1, <1>2, <2>1
<1>4. Before(s, t) \/ Before(t, s)
    BY <1>1, BeforeOrder
<1> QED BY <1>3, <1>4

\* AdmissionControl counts as this module does.
LEMMA SameCardinality == \A S : AC!Cardinality(S) = Cardinality(S)
BY DEF AC!Cardinality, Cardinality

\* Places are set aside for S at the head of the queue, and L are lost from it.
LEMMA SetsAside ==
    ASSUME TypeOK, WhereInv, PlacesInv', SameEntries, NEW e \in Events,
           NEW S \in SUBSET queue[e], NEW L \in SUBSET (queue[e] \ S),
           \A s \in S, t \in queue[e] \ (S \cup L) : Before(s, t),
           \A f \in Events :
               /\ queue'[f] = IF f = e THEN queue[e] \ (S \cup L) ELSE queue[f]
               /\ Holds(f)' = IF f = e THEN Holds(e) \cup S ELSE Holds(f)
    PROVE  AC!Next
<1>1. \A s \in Sessions : EventOf[s] \in Events
    BY SessionsAssumption
<1>2. /\ S \in SUBSET AC!Of(waitingBar, e) /\ L \in SUBSET (AC!Of(waitingBar, e) \ S)
      /\ AC!Of(waitingBar, e) = queue[e] /\ AC!Of(holdingBar, e) = Holds(e)
    BY MappedSets
<1>3. \A s \in queue[e] : EventOf[s] = e /\ Entered(s) /\ s \in Sessions
    BY QueuedEntered
<1>4. \A s \in S, t \in AC!Of(waitingBar, e) \ (S \cup L) : AC!Earlier(s, t)
    <2> SUFFICES ASSUME NEW s \in S, NEW t \in queue[e] \ (S \cup L)
                 PROVE  AC!Earlier(s, t)
        BY <1>2
    <2>1. stampBar[s] = queuedAt[s] /\ stampBar[t] = queuedAt[t] /\ Before(s, t)
        BY <1>3 DEF stampBar
    <2> QED BY <2>1 DEF AC!Earlier, Before
<1>5. AC!Cardinality(S \cup AC!Of(holdingBar, e)) <= MaxConcurrent
    <2>1. Holds(e)' = S \cup Holds(e)
        OBVIOUS
    <2>2. Cardinality(Holds(e)') <= MaxConcurrent
        BY DEF PlacesInv, Holds
    <2> QED BY <1>2, <2>1, <2>2, SameCardinality
<1>6. waitingBar' = waitingBar \ (S \cup L)
    <2>1. \A s \in Sessions :
              s \in queue'[EventOf[s]] <=> s \in queue[EventOf[s]] /\ s \notin S \cup L
        BY <1>1, <1>3
    <2> QED BY <2>1 DEF waitingBar
<1>7. holdingBar' = holdingBar \cup S
    <2>1. \A s \in Sessions :
              s \in Holds(EventOf[s])' <=> s \in Holds(EventOf[s]) \/ s \in S
        BY <1>1, <1>3
    <2>2. S \subseteq Sessions
        BY <1>3
    <2> QED BY <2>1, <2>2 DEF holdingBar, Holds
<1>8. AC!Admit(e, S, L)
    BY <1>4, <1>5, <1>6, <1>7, SameArrivals DEF AC!Admit, SameEntries
<1>9. \E T \in SUBSET AC!Of(waitingBar, e) :
          \E M \in SUBSET (AC!Of(waitingBar, e) \ T) : AC!Admit(e, T, M)
    BY <1>2, <1>8
<1> QED BY <1>9 DEF AC!Next

-----------------------------------------------------------------------------
(* The steps of the service. *)

\* The ZADD of a request is an arrival, or its repetition.
LEMMA EnqueuePromises ==
    ASSUME TypeOK, TypeOK', WhereInv, NEW s \in Sessions, JoinEnqueue(s), ZAdd(s)
    PROVE  ACStep
<1>1. UNCHANGED <<processing, batch, event, queuedAt>>
    BY DEF JoinEnqueue, procVars
<1>2. PutIn(s)
    BY <1>1, SessionsAssumption DEF PutIn, Holds, InFlight, ZAdd, Enqueued, TypeOK, StoreType
<1>3. \E to \in {"activate", "resend", "failed", "refused"} : jpc' = [jpc EXCEPT ![s] = to]
    BY DEF JoinEnqueue, JoinAt
<1>4. CASE jpc[s] = "enqueue"
    <2>1. ~Entered(s) /\ entries[s] = 0
        BY <1>4 DEF Entered, WhereInv
    <2>2. InQueue(s) = 0 /\ s \in queue'[EventOf[s]]
        <3>1. TakenOut(s) >= 0 /\ InQueue(s) \in {0, 1}
            BY DEF WhereInv, InQueue
        <3>2. InQueue(s) = 0
            BY <2>1, <3>1 DEF TakenOut
        <3> QED BY <1>2, <3>2, SessionsAssumption DEF PutIn
    <2>3. Entered(s)'
        BY <1>4, <2>2 DEF JoinEnqueue, JoinAt, Entered, InQueue, TypeOK, HandlerType, JoinType
    <2>4. \A t \in Sessions \ {s} : /\ Entered(t)' <=> Entered(t)
                                    /\ Entered(t) => queuedAt'[t] = queuedAt[t]
        BY <1>1, <1>3 DEF Entered, TypeOK, HandlerType, JoinType
    <2>5. askingBar' \subseteq askingBar \cup {s}
        BY <1>3 DEF askingBar, TypeOK, HandlerType, JoinType
    <2>6. OnlyEnters(s)
        BY <1>2, <2>1, <2>3, <2>4, <2>5 DEF OnlyEnters
    <2> QED BY <2>6, Arrives DEF ACStep
<1>5. CASE jpc[s] = "resend"
    <2>1. s \in askingBar
        BY <1>5 DEF askingBar
    <2>2. \E to \in {"activate", "resend", "failed"} : jpc' = [jpc EXCEPT ![s] = to]
        BY <1>5 DEF JoinEnqueue, JoinAt
    <2>3. SameEntries
        BY <1>1, <1>5, <2>2 DEF SameEntries, Entered, askingBar, TypeOK, HandlerType, JoinType
    <2> QED BY <1>2, <2>1, <2>3, EntersAgain
<1> QED BY <1>4, <1>5 DEF JoinEnqueue, JoinAt

\* The other calls of the requests: the ZREM is a departure.
LEMMA RequestPromises ==
    ASSUME TypeOK, TypeOK', WhereInv, NEW s \in Sessions, JoinQueue(s) \/ LeaveQueue(s)
    PROVE  ACStep
<1>1. CASE JoinEnqueue(s) /\ ZAdd(s)
    BY <1>1, EnqueuePromises
<1>2. CASE ~(JoinEnqueue(s) /\ ZAdd(s))
    <2>1. UNCHANGED <<processing, batch, event>>
        BY DEF JoinQueue, JoinCreate, JoinEnqueue, JoinActivate, JoinUpdate, LeaveQueue,
               LeaveGet, LeaveRemove, LeaveCount, LeaveDeactivate, LeaveMark, LeaveWrite,
               redisVars, procVars
    <2>2. EventOf[s] \in Events /\ \A e \in Events : Holds(e)' = Holds(e)
        BY <2>1, SessionsAssumption DEF Holds, InFlight
    <2>3. SameEntries
        <3>1. CASE JoinCreate(s)
            BY <3>1 DEF JoinCreate, JoinAt, SameEntries, Entered, askingBar,
                        TypeOK, HandlerType, JoinType
        <3>2. CASE JoinEnqueue(s)
            <4>1. /\ UNCHANGED queuedAt
                  /\ \/ /\ jpc[s] = "enqueue" /\ jpc' = [jpc EXCEPT ![s] = "refused"]
                     \/ /\ jpc[s] = "resend"
                        /\ \E to \in {"resend", "failed"} : jpc' = [jpc EXCEPT ![s] = to]
                BY <1>2, <3>2 DEF JoinEnqueue, JoinAt
            <4> QED BY <4>1 DEF SameEntries, Entered, askingBar, TypeOK, HandlerType, JoinType
        <3>3. CASE JoinActivate(s) \/ JoinUpdate(s)
            BY <3>3 DEF JoinActivate, JoinUpdate, JoinAt, SameEntries, Entered, askingBar,
                        TypeOK, HandlerType, JoinType
        <3>4. CASE LeaveQueue(s)
            BY <3>4 DEF LeaveQueue, LeaveGet, LeaveRemove, LeaveCount, LeaveDeactivate,
                        LeaveMark, LeaveWrite, joinVars, SameEntries, Entered, askingBar
        <3> QED BY <3>1, <3>2, <3>3, <3>4 DEF JoinQueue
    <2>4. queue' = queue \/ queue' = Dequeued(s)
        BY <1>2 DEF JoinQueue, JoinCreate, JoinEnqueue, JoinActivate, JoinUpdate, LeaveQueue,
                    LeaveGet, LeaveRemove, LeaveCount, LeaveDeactivate, LeaveMark, LeaveWrite,
                    redisVars
    <2>5. \A f \in Events : /\ queue'[f] \subseteq queue[f]
                            /\ f # EventOf[s] => queue'[f] = queue[f]
        BY <2>2, <2>4 DEF Dequeued, TypeOK, StoreType
    <2> QED BY <2>2, <2>3, <2>5, WaitingLeave DEF ACStep
<1> QED BY <1>1, <1>2

\* The outcomes and the environment: the SREM, the TTL of a processing set and a
\* restart are departures.
LEMMA OthersPromise ==
    ASSUME TypeOK, WhereInv, CheckoutStep \/ EnvironmentStep \/ UNCHANGED vars
    PROVE  ACStep
<1>1. SameEntries
    <2>1. CASE CheckoutStep
        BY <2>1 DEF CheckoutStep, CheckoutPublish, HandleCheckout, HandlerGet, HandlerToken,
               HandlerBlacklist, HandlerRelease, HandlerWrite, joinVars, SameEntries, Entered, askingBar
    <2>2. CASE Crash
        BY <2>2 DEF Crash, SameEntries, Entered, askingBar, TypeOK, HandlerType, JoinType
    <2>3. CASE EnvironmentStep /\ ~Crash
        BY <2>3 DEF EnvironmentStep, ClockTick, SessionLapse, SessionEvict, ProcessingExpire,
               joinVars, SameEntries, Entered, askingBar
    <2>4. CASE UNCHANGED vars
        BY <2>4 DEF vars, joinVars, SameEntries, Entered, askingBar
    <2> QED BY <2>1, <2>2, <2>3, <2>4
<1>2. queue' = queue
    BY DEF CheckoutStep, CheckoutPublish, HandleCheckout, HandlerGet, HandlerToken,
           HandlerBlacklist, HandlerRelease, HandlerWrite, EnvironmentStep, ClockTick, Crash,
           SessionLapse, SessionEvict, ProcessingExpire, vars, redisVars
<1>3. ASSUME NEW e \in Events, UNCHANGED <<batch, event>>,
             processing'[e] \subseteq processing[e],
             \A f \in Events \ {e} : processing'[f] = processing[f]
      PROVE  ACStep
    <2>1. \A f \in Events : /\ Holds(f)' \subseteq Holds(f)
                            /\ f # e => Holds(f)' = Holds(f)
        BY <1>3 DEF Holds, InFlight
    <2> QED BY <1>1, <1>2, <2>1, HoldersLeave DEF ACStep
<1>4. CASE UNCHANGED <<processing, batch, event>>
    <2>1. \A f \in Events : Holds(f)' = Holds(f)
        BY <1>4 DEF Holds, InFlight
    <2> QED BY <1>1, <1>2, <2>1, Stutters
<1>5. ASSUME NEW m \in Messages, HandlerRelease(m)
      PROVE  ACStep
    <2>1. EventOf[m[1]] \in Events
        BY SessionsAssumption, MessagesAssumption
    <2>2. /\ UNCHANGED <<batch, event>>
          /\ processing' = processing \/ processing' = Freed(m)
        BY <1>5 DEF HandlerRelease, procVars
    <2>3. /\ processing'[EventOf[m[1]]] \subseteq processing[EventOf[m[1]]]
          /\ \A f \in Events \ {EventOf[m[1]]} : processing'[f] = processing[f]
        BY <2>1, <2>2 DEF Freed, TypeOK, StoreType
    <2> QED BY <1>3, <2>1, <2>2, <2>3
<1>6. ASSUME NEW e \in Events, ProcessingExpire(e)
      PROVE  ACStep
    <2>1. UNCHANGED <<batch, event>> /\ processing' = [processing EXCEPT ![e] = {}]
        BY <1>6 DEF ProcessingExpire, procVars
    <2>2. /\ processing'[e] \subseteq processing[e]
          /\ \A f \in Events \ {e} : processing'[f] = processing[f]
        BY <2>1 DEF TypeOK, StoreType
    <2> QED BY <1>3, <2>1, <2>2
<1>7. CASE Crash
    <2>1. batch' = {} /\ event' = None /\ processing' = processing
        BY <1>7 DEF Crash, redisVars
    <2>2. CASE event \in Events
        <3>1. \A f \in Events : /\ Holds(f)' \subseteq Holds(f)
                                /\ f # event => Holds(f)' = Holds(f)
            BY <2>1 DEF Holds, InFlight
        <3> QED BY <1>1, <1>2, <2>2, <3>1, HoldersLeave DEF ACStep
    <2>3. CASE event \notin Events
        <3>1. \A f \in Events : Holds(f)' = Holds(f)
            BY <2>1, <2>3 DEF Holds, InFlight
        <3> QED BY <1>1, <1>2, <3>1, Stutters
    <2> QED BY <2>2, <2>3
<1>8. \/ UNCHANGED <<processing, batch, event>> \/ Crash
      \/ \E m \in Messages : HandlerRelease(m)
      \/ \E e \in Events : ProcessingExpire(e)
    BY DEF CheckoutStep, CheckoutPublish, HandleCheckout, HandlerGet, HandlerToken,
           HandlerBlacklist, HandlerWrite, EnvironmentStep, ClockTick, SessionLapse,
           SessionEvict, vars, redisVars, procVars
<1> QED BY <1>4, <1>5, <1>6, <1>7, <1>8

\* The calls of an admission take the place that is set aside, or leave it.
LEMMA AdmissionPromises ==
    ASSUME TypeOK, WhereInv,
           AdmitCheck \/ AdmitToken \/ AdmitWrite \/ AdmitSlot \/ AdmitRollback
           \/ AdmitRestore \/ AdmitReady \/ AdmitTimeout
    PROVE  ACStep
<1>1. PlacesShrink
    BY AdmissionShrinks
<1>2. event \in Events /\ event # None /\ queue' = queue /\ SameEntries
    BY DEF AdmitCheck, AdmitToken, AdmitWrite, AdmitSlot, AdmitRollback, AdmitRestore,
           AdmitReady, AdmitTimeout, redisVars, joinVars, SameEntries, Entered, askingBar,
           TypeOK, ProcType
<1>3. event' \in {event, None}
    <2>1. \/ NextEvent(todo) \/ Retry \/ Admit(batch \ {user})
          \/ \E to \in {"token", "write", "slot", "ready", "rollback", "restore"} : Advance(to)
        BY DEF AdmitCheck, AdmitToken, AdmitWrite, AdmitSlot, AdmitRollback, AdmitRestore,
               AdmitReady, AdmitTimeout
    <2> QED BY <2>1 DEF NextEvent, Retry, Admit, Advance
<1>4. \A f \in Events \ {event} : processing'[f] = processing[f]
    BY <1>2 DEF AdmitCheck, AdmitToken, AdmitWrite, AdmitSlot, AdmitRollback, AdmitRestore,
           AdmitReady, AdmitTimeout, redisVars, TypeOK, StoreType
<1>5. \A f \in Events : /\ Holds(f)' \subseteq Holds(f)
                        /\ f # event => Holds(f)' = Holds(f)
    BY <1>1, <1>2, <1>3, <1>4, NoneAssumption DEF PlacesShrink, Holds, InFlight
<1> QED BY <1>2, <1>5, HoldersLeave DEF ACStep

\* The pop sets places aside for the sessions it returns; those whose reply is lost
\* are lost from the queue.
LEMMA PopPromises ==
    ASSUME TypeOK, WhereInv, PlacesInv, PlacesInv', ProcessPop
    PROVE  ACStep
<1> DEFINE waiting == queue[event]
<1> DEFINE rest == Left(waiting)
<1> DEFINE Leaving(Q) == queue' = [queue EXCEPT ![event] = Q]
<1>1. /\ event \in Events /\ event # None /\ batch = {} /\ UNCHANGED processing
      /\ queuedAt \in [Sessions -> Nat] /\ quota \in Nat \ {0}
      /\ waiting \in SUBSET Sessions
    BY DEF ProcessPop, TypeOK, StoreType, ProcType, HandlerType, JoinType, PlacesInv
<1>2. SameEntries
    BY DEF ProcessPop, joinVars, SameEntries, Entered, askingBar
<1>3. /\ Popped(waiting) \in SUBSET waiting /\ Popped(rest) \in SUBSET rest
      /\ rest = waiting \ Popped(waiting) /\ rest \in SUBSET Sessions
      /\ Left(rest) = rest \ Popped(rest)
    BY <1>1 DEF Popped, Left, ZRangeTo
<1>4. ASSUME NEW S \in SUBSET Sessions, Admit(S)
      PROVE  \A f \in Events : Holds(f)' = IF f = event THEN Holds(event) \cup S ELSE Holds(f)
    BY <1>1, <1>4, NoneAssumption DEF Admit, NextEvent, Holds, InFlight
<1>5. CASE Leaving(rest) /\ Admit(Popped(waiting))
    <2> DEFINE S == Popped(waiting)
    <2>1. \A s \in S, t \in waiting \ (S \cup {}) : Before(s, t)
        BY <1>1, PoppedFirst DEF Popped
    <2>2. \A f \in Events :
              /\ queue'[f] = IF f = event THEN queue[event] \ (S \cup {}) ELSE queue[f]
              /\ Holds(f)' = IF f = event THEN Holds(event) \cup S ELSE Holds(f)
        BY <1>1, <1>3, <1>4, <1>5 DEF TypeOK, StoreType
    <2>3. S \in SUBSET queue[event] /\ {} \in SUBSET (queue[event] \ S)
        BY <1>3
    <2>4. AC!Next
        BY <1>1, <1>2, <2>1, <2>2, <2>3, SetsAside
    <2> QED BY <2>4 DEF ACStep
<1>6. CASE NextEvent(todo) /\ (UNCHANGED queue \/ Leaving(rest))
    <2>1. \A f \in Events : Holds(f)' = Holds(f)
        BY <1>1, <1>6 DEF NextEvent, Holds, InFlight
    <2>2. \A f \in Events : /\ queue'[f] \subseteq queue[f]
                            /\ f # event => queue'[f] = queue[f]
        BY <1>1, <1>3, <1>6 DEF TypeOK, StoreType
    <2> QED BY <1>1, <1>2, <2>1, <2>2, WaitingLeave DEF ACStep
<1>7. CASE Leaving(Left(rest)) /\ Admit(Popped(rest))
    <2> DEFINE S == Popped(rest)
    <2> DEFINE L == Popped(waiting)
    <2>1. waiting \ (S \cup L) = rest \ S /\ Left(rest) = waiting \ (S \cup L)
        BY <1>3
    <2>2. \A s \in S, t \in waiting \ (S \cup L) : Before(s, t)
        BY <1>1, <1>3, <2>1, PoppedFirst DEF Popped
    <2>3. \A f \in Events :
              /\ queue'[f] = IF f = event THEN queue[event] \ (S \cup L) ELSE queue[f]
              /\ Holds(f)' = IF f = event THEN Holds(event) \cup S ELSE Holds(f)
        BY <1>1, <1>3, <1>4, <1>7, <2>1 DEF TypeOK, StoreType
    <2>4. S \in SUBSET queue[event] /\ L \in SUBSET (queue[event] \ S)
        BY <1>3
    <2>5. AC!Next
        BY <1>1, <1>2, <2>2, <2>3, <2>4, SetsAside
    <2> QED BY <2>5 DEF ACStep
<1> QED BY <1>5, <1>6, <1>7 DEF ProcessPop

\* Every step of the service is a step of AdmissionControl or none.
LEMMA ServicePromises ==
    ASSUME BatchSize > 0, TypeOK, TypeOK', WhereInv, PlacesInv, [Next]_vars
    PROVE  ACStep
<1>1. CASE RequestStep
    BY <1>1, RequestPromises DEF RequestStep
<1>2. CASE CheckoutStep \/ EnvironmentStep \/ UNCHANGED vars
    BY <1>2, OthersPromise
<1>3. CASE ProcessTick \/ \E e \in Events : ProcessCount(e)
    <2>1. /\ batch = {} /\ batch' = {} /\ UNCHANGED <<queue, processing>>
          /\ SameEntries
        BY <1>3 DEF ProcessTick, ProcessCount, NextEvent, TypeOK, ProcType, redisVars, joinVars,
                    SameEntries, Entered, askingBar
    <2>2. \A e \in Events : queue'[e] = queue[e] /\ Holds(e)' = Holds(e)
        BY <2>1 DEF Holds, InFlight
    <2> QED BY <2>1, <2>2, Stutters
<1>4. CASE ProcessPop
    BY <1>4, PlacesStep, PopPromises
<1>5. CASE AdmitCheck \/ AdmitToken \/ AdmitWrite \/ AdmitSlot \/ AdmitRollback
           \/ AdmitRestore \/ AdmitReady \/ AdmitTimeout
    BY <1>5, AdmissionPromises
<1> QED BY <1>1, <1>2, <1>3, <1>4, <1>5 DEF Next, ProcessorStep

\* At the start everybody is outside.
LEMMA PromiseInit == Init => AC!Init
<1> SUFFICES ASSUME Init
             PROVE  AC!Init
    OBVIOUS
<1>1. arrivedBar = {} /\ askingBar = {} /\ stampBar = [s \in Sessions |-> 0]
    BY DEF Init, arrivedBar, askingBar, stampBar, Entered
<1>2. waitingBar = {} /\ holdingBar = {}
    BY SessionsAssumption DEF Init, waitingBar, holdingBar, InFlight
<1> QED BY <1>1, <1>2 DEF AC!Init

\* Whatever fails, times out and restarts, and however the calls interleave: places are
\* given in the order of the seconds in which the sessions came, never beyond
\* MaxConcurrentPerEvent, and a session that left the queue, admitted or lost, waits
\* again only when the driver repeats the ZADD of its unanswered request.
THEOREM PromiseHolds ==
    ASSUME BatchSize > 0
    PROVE  Spec => Promise
<1>1. TypeOK /\ TypeOK' /\ WhereInv /\ PlacesInv /\ [Next]_vars
      => [AC!Next]_(AC!acVars)
    BY ServicePromises DEF ACStep
<1>2. IInv => TypeOK /\ WhereInv /\ PlacesInv
    BY DEF IInv
<1> QED BY <1>1, <1>2, PromiseInit, IInvHolds, PTL DEF Spec, Promise, AC!Spec
=============================================================================
