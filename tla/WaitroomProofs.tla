---------------------------- MODULE WaitroomProofs ----------------------------
(***************************************************************************)
(* Proofs about Waitroom for every value of its constants.                 *)
(***************************************************************************)
EXTENDS Waitroom, TLAPS, FiniteSetTheorems

-----------------------------------------------------------------------------
(* Session records keep their type under the updates the handlers make. *)

\* The record CreateSession builds is a session record.
LEMMA NewSessionType == NewSession \in SessionRecord
BY DEF NewSession, SessionRecord, Statuses, Tokens

\* UpdateStatus and the outcome handlers write back a session record.
LEMMA StatusUpdateType ==
    ASSUME NEW r \in SessionRecord, NEW st \in Statuses
    PROVE  [r EXCEPT !.status = st] \in SessionRecord
BY DEF SessionRecord

\* UpdateCheckoutToken writes back a session record.
LEMMA AdmittedType ==
    ASSUME NEW r \in SessionRecord, NEW t \in Tokens
    PROVE  [r EXCEPT !.status = "admitted", !.token = t] \in SessionRecord
BY DEF SessionRecord, Statuses

\* InvalidateToken writes back a session record.
LEMMA InvalidatedType ==
    ASSUME NEW r \in SessionRecord
    PROVE  [r EXCEPT !.inval = TRUE] \in SessionRecord
BY DEF SessionRecord

\* A write of a record to one session's key keeps the type of the store.
LEMMA StoredType ==
    ASSUME NEW s \in Sessions, NEW r \in Record,
           session \in [Sessions -> Record], Stored(s, r)
    PROVE  session' \in [Sessions -> Record]
BY DEF Stored

\* The statuses the handlers write are statuses of models/session.go.
LEMMA StatusNames ==
    /\ "queued" \in Statuses /\ "abandoned" \in Statuses
    /\ \A m \in Messages : m[1] \in Sessions /\ m[2] \in Statuses
BY MessagesAssumption DEF Statuses, Outcomes

\* A failed call keeps the count of faults a natural number.
LEMMA FaultType == ASSUME faults \in Nat, Fault PROVE faults' \in Nat
BY DEF Fault

-----------------------------------------------------------------------------
(* Type correctness. *)

\* The service starts with every variable in its type.
THEOREM TypeInit == Init => TypeOK
BY LimitsAssumption, SessionsAssumption, NoneAssumption
   DEF Init, TypeOK, StoreType, ProcType, HandlerType, JoinType, LeaveType, OutcomeType,
       Record, Tokens

\* A step that touches only some of the variables keeps the types of the others.
LEMMA KeptTypes ==
    /\ ProcType /\ UNCHANGED procVars => ProcType'
    /\ JoinType /\ UNCHANGED joinVars => JoinType'
    /\ LeaveType /\ UNCHANGED leaveVars => LeaveType'
    /\ OutcomeType /\ UNCHANGED hdlVars => OutcomeType'
<1>1. ProcType /\ UNCHANGED procVars => ProcType'
    BY DEF ProcType, procVars
<1>2. JoinType /\ UNCHANGED joinVars => JoinType'
    BY DEF JoinType, joinVars
<1>3. LeaveType /\ UNCHANGED leaveVars => LeaveType'
    BY DEF LeaveType, leaveVars
<1>4. OutcomeType /\ UNCHANGED hdlVars => OutcomeType'
    BY DEF OutcomeType, hdlVars
<1> QED BY <1>1, <1>2, <1>3, <1>4

\* The calls of JoinQueue keep the types.
LEMMA TypeJoin ==
    ASSUME TypeOK, NEW s \in Sessions, JoinQueue(s)
    PROVE  TypeOK'
<1>1. StoreType /\ ProcType /\ JoinType /\ LeaveType /\ OutcomeType
    BY DEF TypeOK, HandlerType
<1>2. UNCHANGED <<procVars, leaveVars, hdlVars>>
    BY DEF JoinQueue, JoinCreate, JoinEnqueue, JoinActivate, JoinUpdate
<1>3. JoinType'
    <2>1. queuedAt' = queuedAt \/ queuedAt' = [queuedAt EXCEPT ![s] = now]
        BY DEF JoinQueue, JoinCreate, JoinEnqueue, JoinActivate, JoinUpdate
    <2>2. \E at \in {"enqueue", "resend", "activate", "update", "done", "failed", "refused"} :
              jpc' = [jpc EXCEPT ![s] = at]
        BY DEF JoinQueue, JoinCreate, JoinEnqueue, JoinActivate, JoinUpdate, JoinAt
    <2>3. now \in Nat
        BY <1>1 DEF StoreType
    <2>4. entries' = entries \/ entries' = [entries EXCEPT ![s] = @ + 1 - InQueue(s)]
        BY DEF JoinQueue, JoinCreate, JoinEnqueue, JoinActivate, JoinUpdate, ZAdd
    <2>5. entries' \in [Sessions -> Nat]
        BY <1>1, <2>4 DEF JoinType, InQueue
    <2>6. queuedAt' \in [Sessions -> Nat]
        BY <1>1, <2>1, <2>3 DEF JoinType
    <2> QED BY <1>1, <2>2, <2>5, <2>6 DEF JoinType
<1>4. session' \in [Sessions -> Record] /\ faults' \in Nat
    <2>1. UNCHANGED session \/ Stored(s, NewSession)
        BY DEF JoinQueue, JoinCreate, JoinEnqueue, JoinActivate, JoinUpdate
    <2>2. UNCHANGED faults \/ Fault
        BY DEF JoinQueue, JoinCreate, JoinEnqueue, JoinActivate, JoinUpdate
    <2>3. NewSession \in Record
        BY NewSessionType DEF Record
    <2> QED BY <1>1, <2>1, <2>2, <2>3, StoredType, FaultType DEF StoreType
<1>5. queue' \in [Events -> SUBSET Sessions] /\ active' \subseteq Events
    <2>1. queue' = queue \/ queue' = Enqueued(s)
        BY DEF JoinQueue, JoinCreate, JoinEnqueue, JoinActivate, JoinUpdate, ZAdd
    <2>2. active' = active \/ active' = active \cup {EventOf[s]}
        BY DEF JoinQueue, JoinCreate, JoinEnqueue, JoinActivate, JoinUpdate
    <2> QED BY <1>1, <2>1, <2>2, SessionsAssumption DEF StoreType, Enqueued
<1>6. UNCHANGED <<processing, blacklist, ready, now, lapsed, crashes>>
    BY DEF JoinQueue, JoinCreate, JoinEnqueue, JoinActivate, JoinUpdate
<1>7. StoreType'
    BY <1>1, <1>4, <1>5, <1>6 DEF StoreType
<1> QED BY <1>1, <1>2, <1>3, <1>7, KeptTypes DEF TypeOK, HandlerType

\* The calls of LeaveQueue keep the types.
LEMMA TypeLeave ==
    ASSUME TypeOK, NEW s \in Sessions, LeaveQueue(s)
    PROVE  TypeOK'
<1>1. StoreType /\ ProcType /\ JoinType /\ LeaveType /\ OutcomeType
    BY DEF TypeOK, HandlerType
<1>2. UNCHANGED <<procVars, joinVars, hdlVars>>
    BY DEF LeaveQueue, LeaveGet, LeaveRemove, LeaveCount, LeaveDeactivate, LeaveMark,
           LeaveWrite, Abandoned
<1>3. /\ UNCHANGED <<processing, blacklist, ready, now, lapsed, crashes>>
      /\ faults' \in Nat
    <2>1. UNCHANGED faults \/ Fault
        BY DEF LeaveQueue, LeaveGet, LeaveRemove, LeaveCount, LeaveDeactivate, LeaveMark,
               LeaveWrite, Abandoned, LeaveFault
    <2>2. UNCHANGED <<processing, blacklist, ready, now, lapsed, crashes>>
        BY DEF LeaveQueue, LeaveGet, LeaveRemove, LeaveCount, LeaveDeactivate, LeaveMark,
               LeaveWrite, Abandoned, redisVars
    <2> QED BY <1>1, <2>1, <2>2, FaultType DEF StoreType
<1>4. queue' \in [Events -> SUBSET Sessions] /\ active' \subseteq Events
    <2>1. queue' = queue \/ queue' = Dequeued(s)
        BY DEF LeaveQueue, LeaveGet, LeaveRemove, LeaveCount, LeaveDeactivate, LeaveMark,
               LeaveWrite, Abandoned, redisVars
    <2>2. active' = active \/ active' = active \ {EventOf[s]}
        BY DEF LeaveQueue, LeaveGet, LeaveRemove, LeaveCount, LeaveDeactivate, LeaveMark,
               LeaveWrite, Abandoned, redisVars
    <2> QED BY <1>1, <2>1, <2>2, SessionsAssumption DEF StoreType, Dequeued
<1>5. session' \in [Sessions -> Record] /\ LeaveType'
    <2>1. CASE LeaveWrite(s)
        <3>1. lpc[s] = "write"
            BY <2>1 DEF LeaveWrite, Abandoned, LeaveAt, LeaveFault
        <3>2. lcopy[s] \in SessionRecord
            BY <1>1, <3>1 DEF LeaveType, Record
        <3>3. [lcopy[s] EXCEPT !.status = "abandoned"] \in Record
            BY <3>2, StatusUpdateType, StatusNames DEF Record
        <3>4. UNCHANGED session \/ Stored(s, [lcopy[s] EXCEPT !.status = "abandoned"])
            BY <2>1 DEF LeaveWrite, Abandoned
        <3>5. session' \in [Sessions -> Record]
            BY <1>1, <3>3, <3>4, StoredType DEF StoreType
        <3>6. lpc' = [lpc EXCEPT ![s] = "done"] \/ lpc' = [lpc EXCEPT ![s] = "failed"]
            BY <2>1 DEF LeaveWrite, Abandoned, LeaveAt, LeaveFault
        <3>7. lcopy' = [lcopy EXCEPT ![s] = None]
            BY <2>1 DEF LeaveWrite, Abandoned
        <3> QED BY <1>1, <3>5, <3>6, <3>7 DEF LeaveType, Record
    <2>2. CASE LeaveMark(s)
        <3>1. UNCHANGED session
            BY <2>2 DEF LeaveMark, redisVars
        <3>2. \/ /\ session[s] # None /\ lcopy' = [lcopy EXCEPT ![s] = session[s]]
                 /\ lpc' = [lpc EXCEPT ![s] = "write"]
              \/ lpc' = [lpc EXCEPT ![s] = "failed"] /\ UNCHANGED lcopy
            BY <2>2 DEF LeaveMark, LeaveAt, LeaveFault
        <3> QED BY <1>1, <3>1, <3>2 DEF StoreType, LeaveType
    <2>3. CASE ~LeaveWrite(s) /\ ~LeaveMark(s)
        <3>1. UNCHANGED <<session, lcopy>>
            BY <2>3 DEF LeaveQueue, LeaveGet, LeaveRemove, LeaveCount, LeaveDeactivate, redisVars
        <3>2. \E at \in {"remove", "count", "deactivate", "mark", "failed"} :
                  lpc' = [lpc EXCEPT ![s] = at]
            BY <2>3 DEF LeaveQueue, LeaveGet, LeaveRemove, LeaveCount, LeaveDeactivate,
                   LeaveAt, LeaveFault
        <3> QED BY <1>1, <3>1, <3>2 DEF StoreType, LeaveType
    <2> QED BY <2>1, <2>2, <2>3
<1>6. StoreType'
    BY <1>1, <1>3, <1>4, <1>5 DEF StoreType
<1> QED BY <1>1, <1>2, <1>5, <1>6, KeptTypes DEF TypeOK, HandlerType

\* The calls of the outcome handlers keep the types.
LEMMA TypeCheckout ==
    ASSUME TypeOK, NEW m \in Messages, CheckoutPublish(m) \/ HandleCheckout(m)
    PROVE  TypeOK'
<1>1. StoreType /\ ProcType /\ JoinType /\ LeaveType /\ OutcomeType
    BY DEF TypeOK, HandlerType
<1>2. UNCHANGED <<procVars, joinVars, leaveVars>>
    BY DEF CheckoutPublish, HandleCheckout, HandlerGet, HandlerToken, HandlerBlacklist,
           HandlerRelease, HandlerWrite
<1>3. /\ UNCHANGED <<queue, active, ready, now, lapsed, crashes>>
      /\ faults' \in Nat
    <2>1. UNCHANGED faults \/ Fault
        BY DEF CheckoutPublish, HandleCheckout, HandlerGet, HandlerToken, HandlerBlacklist,
               HandlerRelease, HandlerWrite, Unmarked, envVars
    <2>2. UNCHANGED <<queue, active, ready, now, lapsed, crashes>>
        BY DEF CheckoutPublish, HandleCheckout, HandlerGet, HandlerToken, HandlerBlacklist,
               HandlerRelease, HandlerWrite, redisVars, envVars
    <2> QED BY <1>1, <2>1, <2>2, FaultType DEF StoreType
<1>4. processing' \in [Events -> SUBSET Sessions]
    <2>1. processing' = processing \/ processing' = Freed(m)
        BY DEF CheckoutPublish, HandleCheckout, HandlerGet, HandlerToken, HandlerBlacklist,
               HandlerRelease, HandlerWrite, redisVars
    <2> QED BY <1>1, <2>1 DEF StoreType, Freed
<1> DEFINE Rest == /\ session' \in [Sessions -> Record]
                   /\ blacklist' \subseteq Sessions \X Tokens
                   /\ OutcomeType'
<1>5. CASE CheckoutPublish(m)
    <2>1. UNCHANGED <<session, blacklist, hcopy, hinv>> /\ hpc' = [hpc EXCEPT ![m] = "sent"]
        BY <1>5 DEF CheckoutPublish, redisVars
    <2>2. Rest
        BY <1>1, <2>1 DEF StoreType, OutcomeType
    <2> QED BY <1>1, <1>2, <1>3, <1>4, <2>2, KeptTypes DEF TypeOK, HandlerType, StoreType
<1>6. CASE HandlerGet(m)
    <2>1. UNCHANGED <<session, blacklist, hinv>>
        BY <1>6 DEF HandlerGet, redisVars
    <2>2. \/ /\ session[m[1]] # None /\ hpc' = [hpc EXCEPT ![m] = "token"]
             /\ hcopy' = [hcopy EXCEPT ![m] = session[m[1]]]
          \/ /\ UNCHANGED hcopy
             /\ \E at \in {"done", "sent", "skipped"} : hpc' = [hpc EXCEPT ![m] = at]
        BY <1>6 DEF HandlerGet, HandlerAt, Unmarked
    <2>3. session[m[1]] \in Record
        BY <1>1, StatusNames DEF StoreType
    <2>4. Rest
        BY <1>1, <2>1, <2>2, <2>3 DEF StoreType, OutcomeType
    <2> QED BY <1>1, <1>2, <1>3, <1>4, <2>4, KeptTypes DEF TypeOK, HandlerType, StoreType
<1>7. CASE HandlerToken(m)
    <2>1. UNCHANGED <<session, blacklist, hcopy>> /\ hpc[m] = "token"
        BY <1>7 DEF HandlerToken, HandlerAt, redisVars
    <2>2. \/ /\ session[m[1]] # None /\ hpc' = [hpc EXCEPT ![m] = "blacklist"]
             /\ hinv' = [hinv EXCEPT ![m] = session[m[1]]]
          \/ UNCHANGED hinv /\ hpc' = [hpc EXCEPT ![m] = "release"]
        BY <1>7 DEF HandlerToken, HandlerAt, HasToken
    <2>3. session[m[1]] \in Record
        BY <1>1, StatusNames DEF StoreType
    <2>4. Rest
        BY <1>1, <2>1, <2>2, <2>3 DEF StoreType, OutcomeType
    <2> QED BY <1>1, <1>2, <1>3, <1>4, <2>4, KeptTypes DEF TypeOK, HandlerType, StoreType
<1>8. CASE HandlerBlacklist(m)
    <2>1. UNCHANGED hcopy /\ hpc[m] = "blacklist" /\ hpc' = [hpc EXCEPT ![m] = "release"]
          /\ hinv' = [hinv EXCEPT ![m] = None]
        BY <1>8 DEF HandlerBlacklist, HandlerAt
    <2>2. hinv[m] \in SessionRecord
        BY <1>1, <2>1 DEF OutcomeType, Record
    <2>3. /\ [hinv[m] EXCEPT !.inval = TRUE] \in Record
          /\ hinv[m].token \in Tokens
        BY <2>2, InvalidatedType DEF SessionRecord, Record
    <2>4. /\ UNCHANGED session \/ Stored(m[1], [hinv[m] EXCEPT !.inval = TRUE])
          /\ blacklist' = blacklist \/ blacklist' = blacklist \cup {<<m[1], hinv[m].token>>}
        BY <1>8 DEF HandlerBlacklist
    <2>5. session' \in [Sessions -> Record]
        BY <1>1, <2>3, <2>4, StatusNames, StoredType DEF StoreType
    <2>6. blacklist' \subseteq Sessions \X Tokens
        BY <1>1, <2>3, <2>4, StatusNames DEF StoreType
    <2>7. OutcomeType'
        BY <1>1, <2>1 DEF OutcomeType, Record
    <2> QED BY <1>1, <1>2, <1>3, <1>4, <2>5, <2>6, <2>7, KeptTypes
            DEF TypeOK, HandlerType, StoreType
<1>9. CASE HandlerRelease(m)
    <2>1. UNCHANGED <<session, blacklist, hcopy, hinv>> /\ hpc[m] = "release"
          /\ hpc' = [hpc EXCEPT ![m] = "write"]
        BY <1>9 DEF HandlerRelease, HandlerAt
    <2>2. Rest
        BY <1>1, <2>1 DEF StoreType, OutcomeType
    <2> QED BY <1>1, <1>2, <1>3, <1>4, <2>2, KeptTypes DEF TypeOK, HandlerType, StoreType
<1>10. CASE HandlerWrite(m)
    <2>1. /\ UNCHANGED <<blacklist, hinv>> /\ hpc[m] = "write"
          /\ hcopy' = [hcopy EXCEPT ![m] = None]
          /\ \E at \in {"done", "sent", "skipped"} : hpc' = [hpc EXCEPT ![m] = at]
        BY <1>10 DEF HandlerWrite, HandlerAt, Unmarked
    <2>2. hcopy[m] \in SessionRecord
        BY <1>1, <2>1 DEF OutcomeType, Record
    <2>3. [hcopy[m] EXCEPT !.status = m[2]] \in Record
        BY <2>2, StatusUpdateType, StatusNames DEF Record
    <2>4. UNCHANGED session \/ Stored(m[1], [hcopy[m] EXCEPT !.status = m[2]])
        BY <1>10 DEF HandlerWrite, Ended
    <2>5. session' \in [Sessions -> Record]
        BY <1>1, <2>3, <2>4, StatusNames, StoredType DEF StoreType
    <2>6. OutcomeType' /\ blacklist' \subseteq Sessions \X Tokens
        BY <1>1, <2>1 DEF OutcomeType, StoreType, Record
    <2> QED BY <1>1, <1>2, <1>3, <1>4, <2>5, <2>6, KeptTypes DEF TypeOK, HandlerType, StoreType
<1> QED BY <1>5, <1>6, <1>7, <1>8, <1>9, <1>10 DEF HandleCheckout

\* Time, the TTLs and a restart keep the types.
LEMMA TypeEnvironment ==
    ASSUME TypeOK, EnvironmentStep
    PROVE  TypeOK'
<1>1. StoreType /\ ProcType /\ JoinType /\ LeaveType /\ OutcomeType
    BY DEF TypeOK, HandlerType
<1>2. CASE Crash
    <2>1. UNCHANGED <<session, queue, processing, active, blacklist, ready, now, lapsed, faults>>
          /\ crashes' = crashes + 1
        BY <1>2 DEF Crash, redisVars
    <2>2. StoreType'
        BY <1>1, <2>1 DEF StoreType
    <2>3. ProcType'
        BY <1>1, <1>2, LimitsAssumption, NoneAssumption DEF Crash, ProcType, Record
    <2>4. JoinType'
        BY <1>1, <1>2 DEF Crash, JoinType
    <2>5. LeaveType'
        BY <1>1, <1>2 DEF Crash, LeaveType, Record
    <2>6. OutcomeType'
        BY <1>1, <1>2 DEF Crash, OutcomeType, Record
    <2> QED BY <2>2, <2>3, <2>4, <2>5, <2>6 DEF TypeOK, HandlerType
<1>3. CASE ~Crash
    <2>1. UNCHANGED <<procVars, joinVars, leaveVars, hdlVars>>
        BY <1>3 DEF EnvironmentStep, ClockTick, SessionLapse, SessionEvict, ProcessingExpire
    <2>2. ClockTick => StoreType'
        BY <1>1 DEF ClockTick, StoreType, redisVars
    <2>3. ASSUME NEW s \in Sessions, SessionLapse(s) PROVE StoreType'
        BY <1>1, <2>3 DEF SessionLapse, StoreType, redisVars
    <2>4. ASSUME NEW s \in Sessions, SessionEvict(s) PROVE StoreType'
        BY <1>1, <2>4 DEF SessionEvict, StoreType, Stored, envVars, Record
    <2>5. ASSUME NEW e \in Events, ProcessingExpire(e) PROVE StoreType'
        BY <1>1, <2>5 DEF ProcessingExpire, StoreType, envVars
    <2>6. StoreType'
        BY <1>3, <2>2, <2>3, <2>4, <2>5 DEF EnvironmentStep
    <2> QED BY <1>1, <2>1, <2>6, KeptTypes DEF TypeOK, HandlerType
<1> QED BY <1>2, <1>3

(* The three ways the goroutine moves on keep its variables well typed. *)

\* ... when it leaves an event,
LEMMA NextEventType ==
    ASSUME ProcType, NEW left \in SUBSET Events, NextEvent(left), UNCHANGED signed
    PROVE  ProcType'
BY LimitsAssumption DEF NextEvent, ProcType, Record

\* ... when it takes the next session of the batch,
LEMMA AdmitType ==
    ASSUME ProcType, event # None, NEW left \in SUBSET Sessions, Admit(left),
           UNCHANGED signed
    PROVE  ProcType'
<1>1. CASE left = {}
    BY <1>1, NextEventType DEF Admit, ProcType
<1>2. CASE left # {}
    <2>1. user' \in left
        BY <1>2 DEF Admit, Heads
    <2> QED
        BY <1>2, <2>1, NoneAssumption, LimitsAssumption DEF Admit, ProcType, Record
<1> QED BY <1>1, <1>2

\* ... when withRetry starts again or gives up,
LEMMA RetryType ==
    ASSUME ProcType, ppc \notin {"idle", "pick", "pop"}, Retry, UNCHANGED signed
    PROVE  ProcType'
<1>1. CASE attempt < RetryAttempts
    BY <1>1, LimitsAssumption DEF Retry, HasRetry, ProcType, Record
<1>2. CASE ~(attempt < RetryAttempts)
    BY <1>2, AdmitType DEF Retry, HasRetry, ProcType
<1> QED BY <1>1, <1>2

\* ... and when an admission goes on to its next call.
LEMMA AdvanceType ==
    ASSUME ProcType, ppc \notin {"idle", "pick", "pop"},
           NEW to \in {"token", "write", "slot", "ready", "rollback", "restore"},
           Advance(to), ucopy' \in Record, to \in {"write", "restore"} => ucopy' # None,
           signed' \in [Sessions -> Nat], signed'[user] # 0
    PROVE  ProcType'
BY DEF Advance, ProcType

\* The calls of the processor keep the types.
LEMMA TypeProcessor ==
    ASSUME TypeOK, ProcessorStep
    PROVE  TypeOK'
<1>0. ProcType /\ StoreType
    BY DEF TypeOK
<1> DEFINE Rest == UNCHANGED <<joinVars, leaveVars, hdlVars>>
<1> SUFFICES ProcType' /\ StoreType' /\ Rest
    BY KeptTypes DEF TypeOK, HandlerType
<1>1. CASE ProcessTick
    BY <1>0, <1>1 DEF ProcessTick, ProcType, StoreType, redisVars, envVars
<1>2. ASSUME NEW e \in Events, ProcessCount(e)
      PROVE  ProcType' /\ StoreType' /\ Rest
    <2>1. StoreType' /\ Rest
        BY <1>0, <1>2, FaultType DEF ProcessCount, StoreType, redisVars
    <2>2. CASE NextEvent(todo \ {e})
        BY <1>0, <1>2, <2>1, <2>2, NextEventType DEF ProcessCount, ProcType
    <2>3. CASE ~NextEvent(todo \ {e})
        <3>1. Cardinality(processing[e]) \in Nat
            BY <1>0, SessionsAssumption, FS_Subset, FS_CardinalityType DEF StoreType
        <3> QED BY <1>0, <1>2, <2>1, <2>3, <3>1, LimitsAssumption, NoneAssumption
                DEF ProcessCount, Available, BatchQuota, ProcType
    <2> QED BY <2>2, <2>3
<1>3. CASE ProcessPop
    <2> DEFINE rest == Left(queue[event])
    <2>1. /\ event \in Events /\ event # None /\ queue[event] \subseteq Sessions
          /\ Popped(queue[event]) \subseteq Sessions /\ Popped(rest) \subseteq Sessions
        BY <1>0, <1>3 DEF ProcessPop, ProcType, StoreType, ZRangeTo, Popped, Left
    <2>2. StoreType' /\ Rest
        BY <1>0, <1>3, <2>1, FaultType DEF ProcessPop, StoreType, Left
    <2>3. Admit(Popped(queue[event])) \/ NextEvent(todo) \/ Admit(Popped(rest))
        BY <1>3 DEF ProcessPop
    <2>4. ProcType'
        BY <1>0, <1>3, <2>1, <2>3, AdmitType, NextEventType DEF ProcessPop, ProcType
    <2> QED BY <2>2, <2>4
<1>4. CASE AdmitCheck
    <2>1. StoreType' /\ Rest
        BY <1>0, <1>4, FaultType DEF AdmitCheck, StoreType, redisVars
    <2>2. \/ Advance("token") /\ ucopy' = ucopy /\ signed' = [signed EXCEPT ![user] = @ + 1]
          \/ Retry /\ UNCHANGED signed
        BY <1>4 DEF AdmitCheck
    <2>3. user \in Sessions /\ signed \in [Sessions -> Nat]
        BY <1>0, <1>4 DEF AdmitCheck, ProcType
    <2>4. ProcType'
        BY <1>0, <1>4, <2>2, <2>3, AdvanceType, RetryType DEF AdmitCheck, ProcType
    <2> QED BY <2>1, <2>4
<1>5. CASE AdmitToken
    <2>1. StoreType' /\ Rest
        BY <1>0, <1>5, FaultType DEF AdmitToken, StoreType, redisVars
    <2>2. (Advance("write") /\ ucopy' = session[user] /\ session[user] # None) \/ Retry
        BY <1>5 DEF AdmitToken
    <2>3. user \in Sessions /\ session[user] \in Record
        BY <1>0, <1>5 DEF AdmitToken, ProcType, StoreType
    <2>4. UNCHANGED signed /\ signed \in [Sessions -> Nat] /\ signed[user] # 0
        BY <1>0, <1>5 DEF AdmitToken, ProcType
    <2>5. ProcType'
        BY <1>0, <1>5, <2>2, <2>3, <2>4, AdvanceType, RetryType DEF AdmitToken
    <2> QED BY <2>1, <2>5
<1>6. CASE AdmitWrite
    <2>1. /\ user \in Sessions /\ signed[user] \in Tokens
          /\ ucopy \in SessionRecord
        BY <1>0, <1>6 DEF AdmitWrite, ProcType, Tokens, Record
    <2>2. [ucopy EXCEPT !.status = "admitted", !.token = signed[user]] \in Record
        BY <2>1, AdmittedType DEF Record
    <2>3. StoreType' /\ Rest
        BY <1>0, <1>6, <2>1, <2>2, FaultType, StoredType DEF AdmitWrite, StoreType
    <2>4. (Advance("slot") /\ ucopy' = None) \/ Retry
        BY <1>6 DEF AdmitWrite
    <2>5. UNCHANGED signed /\ signed \in [Sessions -> Nat] /\ signed[user] # 0
        BY <1>0, <1>6 DEF AdmitWrite, ProcType
    <2>6. ProcType'
        BY <1>0, <1>6, <2>4, <2>5, AdvanceType, RetryType DEF AdmitWrite, Record
    <2> QED BY <2>3, <2>6
<1>7. CASE AdmitSlot
    <2>1. user \in Sessions /\ event \in Events
        BY <1>0, <1>7 DEF AdmitSlot, ProcType
    <2>2. StoreType' /\ Rest
        BY <1>0, <1>7, <2>1, FaultType DEF AdmitSlot, StoreType
    <2>3. ProcType'
        BY <1>0, <1>7, AdvanceType DEF AdmitSlot, ProcType
    <2> QED BY <2>2, <2>3
<1>8. CASE AdmitRollback
    <2>1. StoreType' /\ Rest
        BY <1>0, <1>8, FaultType DEF AdmitRollback, StoreType, redisVars
    <2>2. (Advance("restore") /\ ucopy' = session[user] /\ session[user] # None) \/ Retry
        BY <1>8 DEF AdmitRollback
    <2>3. user \in Sessions /\ session[user] \in Record
        BY <1>0, <1>8 DEF AdmitRollback, ProcType, StoreType
    <2>4. UNCHANGED signed /\ signed \in [Sessions -> Nat] /\ signed[user] # 0
        BY <1>0, <1>8 DEF AdmitRollback, ProcType
    <2>5. ProcType'
        BY <1>0, <1>8, <2>2, <2>3, <2>4, AdvanceType, RetryType DEF AdmitRollback
    <2> QED BY <2>1, <2>5
<1>9. CASE AdmitRestore
    <2>1. user \in Sessions /\ ucopy \in SessionRecord
        BY <1>0, <1>9 DEF AdmitRestore, ProcType, Record
    <2>2. [ucopy EXCEPT !.status = "queued"] \in Record
        BY <2>1, StatusUpdateType, StatusNames DEF Record
    <2>3. StoreType' /\ Rest
        BY <1>0, <1>9, <2>1, <2>2, FaultType, StoredType DEF AdmitRestore, StoreType
    <2>4. ProcType'
        BY <1>0, <1>9, RetryType DEF AdmitRestore
    <2> QED BY <2>3, <2>4
<1>10. CASE AdmitReady
    <2>1. user \in Sessions /\ signed[user] \in Tokens /\ event # None
        BY <1>0, <1>10 DEF AdmitReady, ProcType, Tokens
    <2>2. StoreType' /\ Rest
        BY <1>0, <1>10, <2>1, FaultType DEF AdmitReady, StoreType, redisVars
    <2>3. ProcType'
        BY <1>0, <1>10, <2>1, AdmitType DEF AdmitReady, ProcType
    <2> QED BY <2>2, <2>3
<1>11. CASE AdmitTimeout
    BY <1>0, <1>11, FaultType, NextEventType
       DEF AdmitTimeout, StoreType, ProcType, redisVars
<1> QED BY <1>1, <1>2, <1>3, <1>4, <1>5, <1>6, <1>7, <1>8, <1>9, <1>10, <1>11
       DEF ProcessorStep

\* A step that changes nothing keeps the types.
LEMMA TypeStutter == TypeOK /\ UNCHANGED vars => TypeOK'
BY KeptTypes DEF TypeOK, StoreType, HandlerType, vars, redisVars, envVars

\* Every step keeps the types.
LEMMA TypeStep == TypeOK /\ [Next]_vars => TypeOK'
BY TypeJoin, TypeLeave, TypeProcessor, TypeCheckout, TypeEnvironment, TypeStutter
   DEF Next, RequestStep, CheckoutStep

\* Every variable keeps its type, and the control state of each handler agrees with
\* what the handler has read (TypeOK), in every run of the service.
THEOREM TypeCorrect == Spec => []TypeOK
BY TypeInit, TypeStep, PTL DEF Spec

-----------------------------------------------------------------------------
(* A pop of n members takes at most n: in a set ordered by Before, members *)
(* have different ranks.                                                   *)

\* A set of sessions is finite and has a cardinality.
LEMMA SessionSets ==
    ASSUME NEW S \in SUBSET Sessions
    PROVE  IsFiniteSet(S) /\ Cardinality(S) \in Nat
BY SessionsAssumption, FS_Subset, FS_CardinalityType

\* The order of a sorted set, by score and then by name, is a strict total order.
LEMMA BeforeOrder ==
    ASSUME queuedAt \in [Sessions -> Nat],
           NEW s \in Sessions, NEW t \in Sessions, NEW u \in Sessions
    PROVE  /\ ~Before(s, s)
           /\ s # t => Before(s, t) \/ Before(t, s)
           /\ Before(s, t) /\ Before(t, u) => Before(s, u)
BY SessionsAssumption DEF Before

\* So a member that comes before another has a smaller rank.
LEMMA RankOrder ==
    ASSUME queuedAt \in [Sessions -> Nat], NEW Q \in SUBSET Sessions,
           NEW s \in Q, NEW t \in Q, Before(t, s)
    PROVE  Rank(t, Q) < Rank(s, Q)
<1> DEFINE below(x) == {u \in Q : Before(u, x)}
<1>1. below(t) \subseteq below(s) /\ t \in below(s) /\ t \notin below(t)
    BY BeforeOrder
<1>2. /\ IsFiniteSet(below(s))
      /\ Cardinality(below(s)) \in Nat /\ Cardinality(below(t)) \in Nat
    BY SessionSets
<1>3. Cardinality(below(t)) <= Cardinality(below(s))
      /\ Cardinality(below(t)) # Cardinality(below(s))
    BY <1>1, <1>2, FS_Subset
<1> QED BY <1>2, <1>3 DEF Rank

\* The script of PopFromQueue (ZRANGE 0 n-1, ZREM) takes at most n sessions.
LEMMA PopBound ==
    ASSUME queuedAt \in [Sessions -> Nat], NEW Q \in SUBSET Sessions,
           NEW n \in Nat \ {0}
    PROVE  /\ ZRangeTo(Q, n - 1) \subseteq Q
           /\ Cardinality(ZRangeTo(Q, n - 1)) <= n
<1> DEFINE S == ZRangeTo(Q, n - 1)
<1> DEFINE rank == [s \in S |-> Rank(s, Q)]
<1>1. \A s \in Q : Rank(s, Q) \in Nat
    BY SessionSets DEF Rank
<1>2. S = {s \in Q : Rank(s, Q) <= n - 1}
    BY DEF ZRangeTo
<1>3. rank \in [S -> 0 .. (n - 1)]
    BY <1>1, <1>2
<1>4. \A s, t \in S : rank[s] = rank[t] => s = t
    <2> SUFFICES ASSUME NEW s \in S, NEW t \in S, s # t
                 PROVE  Rank(s, Q) # Rank(t, Q)
        OBVIOUS
    <2>1. Before(s, t) \/ Before(t, s)
        BY <1>2, BeforeOrder
    <2>2. Rank(s, Q) < Rank(t, Q) \/ Rank(t, Q) < Rank(s, Q)
        BY <2>1, <1>2, RankOrder
    <2> QED BY <1>1, <1>2, <2>2
<1>5. rank \in Injection(S, 0 .. (n - 1))
    BY <1>3, <1>4 DEF Injection, IsInjective
<1>6. IsFiniteSet(0 .. (n - 1)) /\ Cardinality(0 .. (n - 1)) = n
    BY FS_Interval
<1>7. Cardinality(S) <= n
    BY <1>5, <1>6, FS_Injection
<1> QED BY <1>2, <1>7

-----------------------------------------------------------------------------
(* The bound on the places of an event. *)

\* The places taken or set aside, and that no pop is about to happen.
PlacesShrink ==
    /\ ppc' # "pop"
    /\ \A e \in Events :
           processing'[e] \cup InFlight(e)' \subseteq processing[e] \cup InFlight(e)

\* A step that takes no place keeps the places within the bound.
LEMMA ShrinkKeepsPlaces ==
    ASSUME TypeOK, PlacesInv, PlacesShrink
    PROVE  PlacesInv'
<1>1. ASSUME NEW e \in Events
      PROVE  Cardinality(processing'[e] \cup InFlight(e)') <= MaxConcurrent
    <2> DEFINE P == processing[e] \cup InFlight(e)
    <2> DEFINE R == processing'[e] \cup InFlight(e)'
    <2>1. P \subseteq Sessions
        BY DEF TypeOK, StoreType, ProcType, InFlight
    <2>2. R \subseteq P
        BY DEF PlacesShrink
    <2>3. /\ IsFiniteSet(P) /\ Cardinality(P) \in Nat /\ Cardinality(R) \in Nat
          /\ Cardinality(P) <= MaxConcurrent
        BY <2>1, <2>2, SessionSets DEF PlacesInv
    <2>4. Cardinality(R) <= Cardinality(P)
        BY <2>2, <2>3, FS_Subset
    <2> QED BY <2>3, <2>4, LimitsAssumption
<1> QED BY <1>1 DEF PlacesInv, PlacesShrink

\* Leaving an event, a session or an attempt sets no place aside.
LEMMA MovingOn ==
    ASSUME TypeOK, NEW S \in SUBSET batch, NEW left \in SUBSET Events,
           NextEvent(left) \/ Retry \/ Admit(S)
    PROVE  /\ ppc' # "pop" /\ batch' \subseteq batch
           /\ \A e \in Events : InFlight(e)' \subseteq InFlight(e)
<1>1. CASE NextEvent(left)
    BY <1>1 DEF NextEvent, InFlight
<1>2. CASE Admit(S)
    BY <1>2 DEF Admit, NextEvent, InFlight
<1>3. CASE Retry
    BY <1>3 DEF Retry, Admit, NextEvent, InFlight
<1> QED BY <1>1, <1>2, <1>3

\* An admission's calls take only the place set aside for its session.
LEMMA AdmissionShrinks ==
    ASSUME TypeOK,
           AdmitCheck \/ AdmitToken \/ AdmitWrite \/ AdmitSlot \/ AdmitRollback
           \/ AdmitRestore \/ AdmitReady \/ AdmitTimeout
    PROVE  PlacesShrink
<1> USE DEF PlacesShrink, redisVars
<1>1. todo \in SUBSET Events /\ (batch \ {user}) \in SUBSET batch
    BY DEF TypeOK, ProcType
<1>2. ASSUME NEW to \in {"token", "write", "slot", "ready", "rollback", "restore"}, Advance(to)
      PROVE  ppc' # "pop" /\ \A e \in Events : InFlight(e)' = InFlight(e)
    BY <1>2 DEF Advance, InFlight
<1>3. CASE AdmitCheck
    BY <1>1, <1>2, <1>3, MovingOn DEF AdmitCheck
<1>4. CASE AdmitToken
    BY <1>1, <1>2, <1>4, MovingOn DEF AdmitToken
<1>5. CASE AdmitWrite
    BY <1>1, <1>2, <1>5, MovingOn DEF AdmitWrite
<1>6. CASE AdmitSlot
    <2>1. user \in InFlight(event)
        BY <1>6 DEF AdmitSlot, TypeOK, ProcType, InFlight
    <2>2. ppc' # "pop" /\ \A e \in Events : InFlight(e)' = InFlight(e)
        BY <1>2, <1>6 DEF AdmitSlot
    <2>3. processing' = processing
          \/ processing' = [processing EXCEPT ![event] = @ \cup {user}]
        BY <1>6 DEF AdmitSlot
    <2> QED BY <2>1, <2>2, <2>3 DEF TypeOK, StoreType
<1>7. CASE AdmitRollback
    BY <1>1, <1>2, <1>7, MovingOn DEF AdmitRollback
<1>8. CASE AdmitRestore
    BY <1>1, <1>8, MovingOn DEF AdmitRestore
<1>9. CASE AdmitReady
    BY <1>1, <1>9, MovingOn DEF AdmitReady
<1>10. CASE AdmitTimeout
    BY <1>1, <1>10, MovingOn DEF AdmitTimeout
<1> QED BY <1>3, <1>4, <1>5, <1>6, <1>7, <1>8, <1>9, <1>10

\* Nobody but the processor adds to a processing set.
LEMMA OthersOnlyFree ==
    ASSUME TypeOK, RequestStep \/ CheckoutStep \/ EnvironmentStep \/ UNCHANGED vars
    PROVE  /\ \A e \in Events : processing'[e] \subseteq processing[e]
           /\ UNCHANGED procVars \/ (ppc' = "idle" /\ event' = None /\ batch' = {})
<1> USE DEF redisVars, procVars
<1>1. CASE RequestStep
    BY <1>1 DEF RequestStep, JoinQueue, JoinCreate, JoinEnqueue, JoinActivate, JoinUpdate,
           LeaveQueue, LeaveGet, LeaveRemove, LeaveCount, LeaveDeactivate, LeaveMark,
           LeaveWrite, Abandoned
<1>2. CASE CheckoutStep
    <2> PICK m \in Messages : CheckoutPublish(m) \/ HandleCheckout(m)
        BY <1>2 DEF CheckoutStep
    <2>1. CASE HandlerRelease(m)
        BY <2>1, SessionsAssumption, StatusNames DEF HandlerRelease, Freed, TypeOK, StoreType
    <2>2. CASE ~HandlerRelease(m)
        BY <2>2 DEF HandleCheckout, CheckoutPublish, HandlerGet, HandlerToken,
               HandlerBlacklist, HandlerWrite
    <2> QED BY <2>1, <2>2
<1>3. CASE EnvironmentStep
    BY <1>3 DEF EnvironmentStep, ClockTick, Crash, SessionLapse, SessionEvict,
           ProcessingExpire, TypeOK, StoreType
<1>4. CASE UNCHANGED vars
    BY <1>4 DEF vars
<1> QED BY <1>1, <1>2, <1>3, <1>4

\* Frees between SCARD and the pop leave room for the quota.
LEMMA FreeingKeepsPlaces ==
    ASSUME TypeOK, TypeOK', PlacesInv,
           \A e \in Events : processing'[e] \subseteq processing[e],
           UNCHANGED procVars
    PROVE  PlacesInv'
<1>1. \A e \in Events : InFlight(e)' = InFlight(e)
    BY DEF InFlight, procVars
<1>2. CASE ppc # "pop"
    BY <1>1, <1>2, ShrinkKeepsPlaces DEF PlacesShrink, procVars
<1>3. CASE ppc = "pop"
    <2>1. event \in Events /\ batch = {} /\ quota \in Int
        BY <1>3 DEF TypeOK, ProcType
    <2>2. \A e \in Events : /\ Cardinality(processing[e]) \in Nat
                            /\ Cardinality(processing'[e]) \in Nat
                            /\ Cardinality(processing'[e]) <= Cardinality(processing[e])
        BY SessionSets, FS_Subset DEF TypeOK, StoreType
    <2>3. \A e \in Events : InFlight(e) = {} /\ InFlight(e)' = {}
        BY <1>1, <2>1 DEF InFlight
    <2>4. \A e \in Events : Cardinality(processing'[e]) <= MaxConcurrent
        BY <2>2, <2>3, LimitsAssumption DEF PlacesInv
    <2>5. \A e \in Events : Cardinality(processing'[e] \cup InFlight(e)') <= MaxConcurrent
        BY <2>3, <2>4
    <2>6. quota > 0 /\ Cardinality(processing'[event]) + quota <= MaxConcurrent
        BY <1>3, <2>1, <2>2, LimitsAssumption DEF PlacesInv
    <2> QED BY <2>5, <2>6 DEF PlacesInv, procVars
<1> QED BY <1>2, <1>3

\* The quota computed from SCARD fits into the free places.
LEMMA CountKeepsPlaces ==
    ASSUME BatchSize > 0, TypeOK, PlacesInv, NEW e \in Events, ProcessCount(e)
    PROVE  PlacesInv'
<1>1. batch = {} /\ UNCHANGED processing /\ (todo \ {e}) \in SUBSET Events
    BY DEF ProcessCount, TypeOK, ProcType, redisVars
<1>2. CASE NextEvent(todo \ {e})
    <2>1. PlacesShrink
        BY <1>1, <1>2, MovingOn DEF PlacesShrink
    <2> QED BY <2>1, ShrinkKeepsPlaces
<1>3. CASE ~NextEvent(todo \ {e})
    <2> DEFINE available == MaxConcurrent - Cardinality(processing[e])
    <2>1. Cardinality(processing[e]) \in Nat
        BY SessionSets DEF TypeOK, StoreType
    <2>2. /\ available > 0 /\ ppc' = "pop" /\ event' = e /\ UNCHANGED batch
          /\ quota' = IF available < BatchSize THEN available ELSE BatchSize
        BY <1>3 DEF ProcessCount, Available, BatchQuota
    <2>3. quota' > 0 /\ Cardinality(processing'[event']) + quota' <= MaxConcurrent
        BY <1>1, <2>1, <2>2, LimitsAssumption
    <2>4. \A f \in Events : InFlight(f) = {} /\ InFlight(f)' = {}
        BY <1>1, <2>2 DEF InFlight
    <2> QED BY <1>1, <2>3, <2>4 DEF PlacesInv
<1> QED BY <1>2, <1>3

\* A pop of quota sessions, and a second run of its script, fit too.
LEMMA PopKeepsPlaces ==
    ASSUME TypeOK, PlacesInv, ProcessPop
    PROVE  PlacesInv'
<1> DEFINE rest == Left(queue[event])
<1>1. /\ event \in Events /\ event # None /\ batch = {} /\ UNCHANGED processing
      /\ queuedAt \in [Sessions -> Nat]
      /\ quota \in Nat \ {0} /\ Cardinality(processing[event]) + quota <= MaxConcurrent
    BY DEF ProcessPop, TypeOK, ProcType, HandlerType, JoinType, PlacesInv
<1>2. \A e \in Events : InFlight(e) = {}
    BY <1>1 DEF InFlight
<1>3. CASE NextEvent(todo)
    <2>1. todo \in SUBSET Events
        BY DEF TypeOK, ProcType
    <2> QED BY <1>1, <1>3, <2>1, MovingOn, ShrinkKeepsPlaces DEF PlacesShrink
<1>4. ASSUME NEW S \in SUBSET Sessions, Admit(S), Cardinality(S) <= quota
      PROVE  PlacesInv'
    <2>1. ppc' # "pop" /\ \A e \in Events : InFlight(e)' = IF e = event THEN S ELSE {}
        BY <1>1, <1>4, NoneAssumption DEF Admit, NextEvent, InFlight
    <2>2. /\ IsFiniteSet(S) /\ IsFiniteSet(processing[event])
          /\ Cardinality(S) \in Nat /\ Cardinality(processing[event]) \in Nat
          /\ Cardinality(processing[event] \cup S) \in Nat
        BY <1>1, <1>4, SessionSets DEF TypeOK, StoreType
    <2>3. Cardinality(processing[event] \cup S) <= Cardinality(processing[event]) + Cardinality(S)
        <3>1. /\ IsFiniteSet(processing[event] \cap S)
              /\ Cardinality(processing[event] \cap S) \in Nat
            BY <2>2, SessionSets
        <3> QED BY <2>2, <3>1, FS_Union
    <2>4. Cardinality(processing[event] \cup S) <= MaxConcurrent
        BY <1>1, <1>4, <2>2, <2>3, LimitsAssumption
    <2>5. \A e \in Events : Cardinality(processing[e]) <= MaxConcurrent
        BY <1>2 DEF PlacesInv
    <2> QED BY <1>1, <2>1, <2>4, <2>5 DEF PlacesInv
<1>5. queue[event] \in SUBSET Sessions /\ rest \in SUBSET Sessions
    BY <1>1 DEF TypeOK, StoreType, Left
<1>6. /\ Popped(queue[event]) \in SUBSET Sessions /\ Cardinality(Popped(queue[event])) <= quota
      /\ Popped(rest) \in SUBSET Sessions /\ Cardinality(Popped(rest)) <= quota
    BY <1>1, <1>5, PopBound DEF Popped
<1> QED BY <1>3, <1>4, <1>6 DEF ProcessPop

\* Every step keeps the places within the bound.
LEMMA PlacesStep ==
    ASSUME BatchSize > 0, TypeOK, TypeOK', PlacesInv, [Next]_vars
    PROVE  PlacesInv'
<1>1. CASE RequestStep \/ CheckoutStep \/ EnvironmentStep \/ UNCHANGED vars
    <2>1. CASE UNCHANGED procVars
        BY <1>1, <2>1, OthersOnlyFree, FreeingKeepsPlaces
    <2>2. CASE ppc' = "idle" /\ event' = None /\ batch' = {}
        BY <1>1, <2>2, OthersOnlyFree, ShrinkKeepsPlaces, NoneAssumption
           DEF PlacesShrink, InFlight
    <2> QED BY <1>1, <2>1, <2>2, OthersOnlyFree
<1>2. CASE ProcessTick
    BY <1>2, ShrinkKeepsPlaces DEF ProcessTick, PlacesShrink, InFlight, redisVars
<1>3. CASE \E e \in Events : ProcessCount(e)
    BY <1>3, CountKeepsPlaces
<1>4. CASE ProcessPop
    BY <1>4, PopKeepsPlaces
<1>5. CASE AdmitCheck \/ AdmitToken \/ AdmitWrite \/ AdmitSlot \/ AdmitRollback
           \/ AdmitRestore \/ AdmitReady \/ AdmitTimeout
    BY <1>5, AdmissionShrinks, ShrinkKeepsPlaces
<1> QED BY <1>1, <1>2, <1>3, <1>4, <1>5 DEF Next, ProcessorStep

\* At the start no place is taken.
LEMMA PlacesInit == Init => PlacesInv
BY LimitsAssumption, FS_EmptySet DEF Init, PlacesInv, InFlight

\* The bound on the places taken or set aside bounds the places taken.
LEMMA PlacesBound == TypeOK /\ PlacesInv => SlotBound
<1> SUFFICES ASSUME TypeOK, PlacesInv, NEW e \in Events
             PROVE  Cardinality(processing[e]) <= MaxConcurrent
    BY DEF SlotBound
<1> DEFINE P == processing[e] \cup InFlight(e)
<1>1. P \in SUBSET Sessions /\ processing[e] \in SUBSET P
    BY DEF TypeOK, StoreType, ProcType, InFlight
<1>2. /\ IsFiniteSet(P) /\ Cardinality(P) \in Nat
      /\ Cardinality(processing[e]) \in Nat
    BY <1>1, SessionSets
<1>3. Cardinality(processing[e]) <= Cardinality(P)
    BY <1>1, <1>2, FS_Subset
<1> QED BY <1>2, <1>3, LimitsAssumption DEF PlacesInv

\* With a positive batch size no event ever has more sessions in checkout than
\* MaxConcurrentPerEvent, whatever fails, times out or restarts.
THEOREM SlotBoundHolds ==
    ASSUME BatchSize > 0
    PROVE  Spec => []SlotBound
<1>1. Init => TypeOK /\ PlacesInv
    BY TypeInit, PlacesInit
<1>2. TypeOK /\ PlacesInv /\ [Next]_vars => (TypeOK /\ PlacesInv)'
    BY TypeStep, PlacesStep
<1>3. TypeOK /\ PlacesInv => SlotBound
    BY PlacesBound
<1> QED BY <1>1, <1>2, <1>3, PTL DEF Spec

-----------------------------------------------------------------------------
(* Where a session is: waiting, held, announced. *)

\* The queues, the places and the batch only lose members, and a session that
\* entered the queue is never again one that did not.
Settling ==
    /\ \A e \in Events :
           /\ queue'[e] \subseteq queue[e]
           /\ processing'[e] \cup InFlight(e)' \subseteq processing[e] \cup InFlight(e)
    /\ batch' \subseteq batch /\ entries' = entries
    /\ \A s \in Sessions : Entered(s) => Entered(s)'

\* Leaving the queue counts, and nothing takes it back.
LEMMA TakenGrows ==
    ASSUME TypeOK, entries' = entries, \A e \in Events : queue'[e] \subseteq queue[e],
           NEW s \in Sessions
    PROVE  TakenOut(s) \in Int /\ TakenOut(s)' \in Int /\ TakenOut(s)' >= TakenOut(s)
BY SessionsAssumption DEF TakenOut, InQueue, TypeOK, HandlerType, JoinType

\* A settling step keeps every session where it belongs ...
LEMMA SettlingKeepsWhere ==
    ASSUME TypeOK, WhereInv, Settling
    PROVE  WhereInv'
<1>1. \A s \in Sessions :
          TakenOut(s) \in Int /\ TakenOut(s)' \in Int /\ TakenOut(s)' >= TakenOut(s)
    BY TakenGrows DEF Settling
<1>2. \A e \in Events : processing[e] \cup InFlight(e) \subseteq Sessions
    BY DEF TypeOK, StoreType, ProcType, InFlight
<1> QED BY <1>1, <1>2 DEF WhereInv, Settling

\* ... and, when nothing is announced, keeps the announcements few enough.
LEMMA SettlingKeepsNotify ==
    ASSUME TypeOK, NotifyInv, Settling, UNCHANGED ready
    PROVE  NotifyInv'
<1> SUFFICES ASSUME NEW s \in Sessions
             PROVE  /\ IsFiniteSet(Announced(s)')
                    /\ Cardinality(Announced(s)') + (IF s \in batch' THEN 1 ELSE 0)
                           <= TakenOut(s)'
    BY DEF NotifyInv
<1>1. TakenOut(s) \in Int /\ TakenOut(s)' \in Int /\ TakenOut(s)' >= TakenOut(s)
    BY TakenGrows DEF Settling
<1>2. /\ Announced(s)' = Announced(s) /\ IsFiniteSet(Announced(s))
      /\ Cardinality(Announced(s)) + (IF s \in batch THEN 1 ELSE 0) <= TakenOut(s)
    BY DEF NotifyInv, Announced
<1>3. Cardinality(Announced(s)) \in Nat
    BY <1>2, FS_CardinalityType
<1> QED BY <1>1, <1>2, <1>3 DEF Settling

\* The calls of JoinQueue but an applied ZADD, and those of LeaveQueue, settle.
LEMMA RequestSettles ==
    ASSUME TypeOK, NEW s \in Sessions, JoinQueue(s) \/ LeaveQueue(s),
           ~(JoinEnqueue(s) /\ ZAdd(s))
    PROVE  Settling /\ UNCHANGED ready
<1>1. UNCHANGED <<processing, batch, event, ready>>
    BY DEF JoinQueue, JoinCreate, JoinEnqueue, JoinActivate, JoinUpdate, LeaveQueue, LeaveGet,
           LeaveRemove, LeaveCount, LeaveDeactivate, LeaveMark, LeaveWrite, Abandoned, redisVars, procVars
<1>2. \A t \in Sessions : Entered(t) => Entered(t)'
    BY DEF JoinQueue, JoinCreate, JoinEnqueue, JoinActivate, JoinUpdate, LeaveQueue, LeaveGet,
           LeaveRemove, LeaveCount, LeaveDeactivate, LeaveMark, LeaveWrite, Abandoned, joinVars,
           JoinAt, Entered, TypeOK, HandlerType, JoinType
<1>3. entries' = entries /\ (queue' = queue \/ queue' = Dequeued(s))
    BY DEF JoinQueue, JoinCreate, JoinEnqueue, JoinActivate, JoinUpdate, LeaveQueue, LeaveGet,
           LeaveRemove, LeaveCount, LeaveDeactivate, LeaveMark, LeaveWrite, Abandoned, redisVars,
           joinVars
<1>4. \A e \in Events : queue'[e] \subseteq queue[e]
    BY <1>3, SessionsAssumption DEF Dequeued, TypeOK, StoreType
<1> QED BY <1>1, <1>2, <1>3, <1>4 DEF Settling, InFlight

\* The outcome handlers, time and a restart settle.
LEMMA OthersSettle ==
    ASSUME TypeOK, CheckoutStep \/ EnvironmentStep \/ UNCHANGED vars
    PROVE  Settling /\ UNCHANGED ready
<1>1. /\ \A e \in Events : processing'[e] \subseteq processing[e]
      /\ UNCHANGED procVars \/ (ppc' = "idle" /\ event' = None /\ batch' = {})
    BY OthersOnlyFree
<1>2. \A e \in Events : InFlight(e)' \subseteq InFlight(e)
    BY <1>1, NoneAssumption DEF InFlight, procVars
<1>3. UNCHANGED <<queue, ready, entries>> /\ \A s \in Sessions : Entered(s) => Entered(s)'
    <2>1. CASE CheckoutStep
        BY <2>1 DEF CheckoutStep, CheckoutPublish, HandleCheckout, HandlerGet, HandlerToken,
               HandlerBlacklist, HandlerRelease, HandlerWrite, redisVars, envVars, joinVars, Entered
    <2>2. CASE EnvironmentStep
        BY <2>2 DEF EnvironmentStep, ClockTick, Crash, SessionLapse, SessionEvict,
               ProcessingExpire, redisVars, envVars, joinVars, Entered, TypeOK, HandlerType, JoinType
    <2>3. CASE UNCHANGED vars
        BY <2>3 DEF vars, redisVars, envVars, joinVars, Entered
    <2> QED BY <2>1, <2>2, <2>3
<1> QED BY <1>1, <1>2, <1>3 DEF Settling, procVars

\* The calls of an admission settle.
LEMMA AdmissionSettles ==
    ASSUME TypeOK,
           AdmitCheck \/ AdmitToken \/ AdmitWrite \/ AdmitSlot \/ AdmitRollback
           \/ AdmitRestore \/ AdmitReady \/ AdmitTimeout
    PROVE  Settling
<1>1. PlacesShrink
    BY AdmissionShrinks
<1>2. UNCHANGED <<queue, jpc, entries>>
    BY DEF AdmitCheck, AdmitToken, AdmitWrite, AdmitSlot, AdmitRollback, AdmitRestore,
           AdmitReady, AdmitTimeout, redisVars, joinVars
<1>3. batch' \subseteq batch
    <2>1. todo \in SUBSET Events /\ (batch \ {user}) \in SUBSET batch
        BY DEF TypeOK, ProcType
    <2>2. \/ NextEvent(todo) \/ Retry \/ Admit(batch \ {user})
          \/ \E to \in {"token", "write", "slot", "ready", "rollback", "restore"} : Advance(to)
        BY DEF AdmitCheck, AdmitToken, AdmitWrite, AdmitSlot, AdmitRollback, AdmitRestore,
               AdmitReady, AdmitTimeout
    <2> QED BY <2>1, <2>2, MovingOn DEF Advance
<1> QED BY <1>1, <1>2, <1>3 DEF Settling, PlacesShrink, Entered

\* A ZADD, the first or a repeated one, changes for no session how often it left.
LEMMA ZAddTakesNone ==
    ASSUME TypeOK, NEW s \in Sessions, ZAdd(s), NEW t \in Sessions
    PROVE  TakenOut(t)' = TakenOut(t)
<1>1. \A e \in Events : queue'[e] = IF e = EventOf[s] THEN queue[e] \cup {s} ELSE queue[e]
    BY SessionsAssumption DEF ZAdd, Enqueued, TypeOK, StoreType
<1>2. entries \in [Sessions -> Nat] /\ entries' = [entries EXCEPT ![s] = @ + 1 - InQueue(s)]
    BY DEF ZAdd, TypeOK, HandlerType, JoinType
<1>3. CASE t = s
    <2>1. InQueue(s)' = 1
        BY <1>1, SessionsAssumption DEF InQueue
    <2>2. entries'[s] = entries[s] + 1 - InQueue(s) /\ InQueue(s) \in {0, 1}
        BY <1>2 DEF InQueue
    <2> QED BY <1>2, <1>3, <2>1, <2>2 DEF TakenOut
<1>4. CASE t # s
    <2>1. InQueue(t)' = InQueue(t)
        BY <1>1, <1>4, SessionsAssumption DEF InQueue
    <2> QED BY <1>2, <1>4, <2>1 DEF TakenOut
<1> QED BY <1>3, <1>4

\* So a ZADD for a session of which the service knows keeps all where they belong.
LEMMA EntersKeeps ==
    ASSUME TypeOK, WhereInv, NotifyInv, NEW s \in Sessions, ZAdd(s),
           UNCHANGED <<processing, batch, event, ready>>, Entered(s)',
           \A t \in Sessions : Entered(t) => Entered(t)'
    PROVE  WhereInv' /\ NotifyInv'
<1>1. /\ UNCHANGED <<processing, batch, event, ready>>
      /\ Entered(s)' /\ \A t \in Sessions : Entered(t) => Entered(t)'
    OBVIOUS
<1>2. /\ \A e \in Events : queue'[e] = IF e = EventOf[s] THEN queue[e] \cup {s} ELSE queue[e]
      /\ \A t \in Sessions : t # s => entries'[t] = entries[t]
    BY SessionsAssumption DEF ZAdd, Enqueued, TypeOK, StoreType, HandlerType, JoinType
<1>3. \A t \in Sessions : TakenOut(t)' = TakenOut(t)
    BY ZAddTakesNone
<1>4. \A e \in Events : /\ InFlight(e)' = InFlight(e)
                        /\ processing[e] \cup InFlight(e) \subseteq Sessions
    BY <1>1 DEF InFlight, TypeOK, StoreType, ProcType
<1>5. WhereInv'
    <2>1. ASSUME NEW e \in Events
          PROVE  /\ \A t \in queue'[e] \cup processing'[e] \cup InFlight(e)' : EventOf[t] = e
                 /\ \A t \in processing'[e] \cup InFlight(e)' : TakenOut(t)' > 0
        <3>1. processing'[e] \cup InFlight(e)' = processing[e] \cup InFlight(e)
            BY <1>1, <1>4
        <3>2. \A t \in processing[e] \cup InFlight(e) : TakenOut(t)' > 0
            BY <1>3, <1>4 DEF WhereInv
        <3>3. \A t \in processing'[e] \cup InFlight(e)' : EventOf[t] = e /\ TakenOut(t)' > 0
            BY <3>1, <3>2 DEF WhereInv
        <3>4. ASSUME NEW t \in queue'[e]
              PROVE  EventOf[t] = e
            <4>1. t \in queue[e] \/ (t = s /\ e = EventOf[s])
                BY <1>2, <3>4
            <4> QED BY <4>1 DEF WhereInv
        <3> QED BY <3>3, <3>4
    <2>2. ASSUME NEW t \in Sessions
          PROVE  TakenOut(t)' >= 0 /\ (~Entered(t)' => entries'[t] = 0)
        BY <1>1, <1>2, <1>3 DEF WhereInv
    <2> QED BY <2>1, <2>2 DEF WhereInv
<1>6. NotifyInv'
    <2> SUFFICES ASSUME NEW t \in Sessions
                 PROVE  /\ IsFiniteSet(Announced(t)')
                        /\ Cardinality(Announced(t)') + (IF t \in batch' THEN 1 ELSE 0)
                               <= TakenOut(t)'
        BY DEF NotifyInv
    <2>1. Announced(t)' = Announced(t) /\ batch' = batch
        BY <1>1 DEF Announced
    <2>2. /\ IsFiniteSet(Announced(t))
          /\ Cardinality(Announced(t)) + (IF t \in batch THEN 1 ELSE 0) <= TakenOut(t)
        BY DEF NotifyInv
    <2> QED BY <1>3, <2>1, <2>2
<1> QED BY <1>5, <1>6

\* The ZADD of JoinQueue, and the one the driver sends again.
LEMMA EnqueueKeeps ==
    ASSUME TypeOK, WhereInv, NotifyInv, NEW s \in Sessions, JoinEnqueue(s), ZAdd(s)
    PROVE  WhereInv' /\ NotifyInv'
<1>1. UNCHANGED <<processing, batch, event, ready>>
    BY DEF JoinEnqueue, procVars
<1>2. jpc' # [jpc EXCEPT ![s] = "refused"] \/ jpc[s] # "enqueue"
    <2> SUFFICES ASSUME jpc' = [jpc EXCEPT ![s] = "refused"], jpc[s] = "enqueue"
                 PROVE  FALSE
        OBVIOUS
    <2>1. UNCHANGED queue
        BY DEF JoinEnqueue, JoinAt, TypeOK, HandlerType, JoinType
    <2>2. InQueue(s) = 1
        BY <2>1, SessionsAssumption DEF ZAdd, Enqueued, InQueue, TypeOK, StoreType
    <2>3. entries[s] = 0 /\ TakenOut(s) >= 0
        BY DEF WhereInv, Entered
    <2> QED BY <2>2, <2>3 DEF TakenOut
<1>3. \E to \in {"resend", "failed", "activate"} : jpc' = [jpc EXCEPT ![s] = to]
    BY <1>2 DEF JoinEnqueue, JoinAt
<1>4. Entered(s)' /\ \A t \in Sessions : Entered(t) => Entered(t)'
    BY <1>3 DEF Entered, TypeOK, HandlerType, JoinType
<1> QED BY <1>1, <1>4, EntersKeeps

\* The pop moves sessions of one event from its queue to the batch.
LEMMA PopKeeps ==
    ASSUME TypeOK, WhereInv, NotifyInv, ProcessPop
    PROVE  WhereInv' /\ NotifyInv'
<1> DEFINE waiting == queue[event]
<1> DEFINE rest == Left(waiting)
<1> DEFINE Leaving(Q) == queue' = [queue EXCEPT ![event] = Q]
<1>1. /\ event \in Events /\ event # None /\ batch = {}
      /\ UNCHANGED <<processing, ready, jpc, entries>>
    BY DEF ProcessPop, TypeOK, ProcType, joinVars
<1>2. PICK S \in SUBSET waiting :
          /\ NextEvent(todo) \/ Admit(S)
          /\ \A e \in Events : queue'[e] \subseteq queue[e]
          /\ Admit(S) => queue'[event] \cap S = {}
    <2>1. Popped(waiting) \subseteq waiting /\ Popped(rest) \subseteq rest
        BY DEF ZRangeTo, Popped, Left
    <2>2. CASE Leaving(rest) /\ Admit(Popped(waiting))
        BY <1>1, <2>1, <2>2 DEF TypeOK, StoreType, Left
    <2>3. CASE NextEvent(todo) /\ (UNCHANGED queue \/ Leaving(rest))
        <3>1. \A e \in Events : queue'[e] \subseteq queue[e]
            BY <1>1, <2>3 DEF TypeOK, StoreType, Left
        <3>2. {} \in SUBSET waiting /\ queue'[event] \cap {} = {}
            OBVIOUS
        <3> QED BY <2>3, <3>1, <3>2
    <2>4. CASE Leaving(Left(rest)) /\ Admit(Popped(rest))
        BY <1>1, <2>1, <2>4 DEF TypeOK, StoreType, Left
    <2> QED BY <2>2, <2>3, <2>4 DEF ProcessPop
<1>3. /\ batch' \subseteq S /\ batch' \cap queue'[event] = {}
      /\ \A e \in Events : InFlight(e)' = IF e = event THEN batch' ELSE {}
    <2>1. CASE NextEvent(todo)
        BY <2>1 DEF NextEvent, InFlight
    <2>2. CASE Admit(S)
        BY <1>1, <1>2, <2>2, NoneAssumption DEF Admit, NextEvent, InFlight
    <2> QED BY <1>2, <2>1, <2>2
<1>4. \A t \in Sessions : Entered(t)' = Entered(t)
    BY <1>1 DEF Entered
<1>5. \A t \in Sessions :
          TakenOut(t) \in Int /\ TakenOut(t)' \in Int /\ TakenOut(t)' >= TakenOut(t)
    BY <1>1, <1>2, TakenGrows
<1>6. \A t \in batch' : t \in Sessions /\ EventOf[t] = event /\ TakenOut(t)' = TakenOut(t) + 1
    <2> TAKE t \in batch'
    <2>1. t \in Sessions /\ t \in queue[event] /\ t \notin queue'[event]
        BY <1>1, <1>3 DEF TypeOK, StoreType
    <2>2. EventOf[t] = event
        BY <1>1, <2>1 DEF WhereInv
    <2> QED BY <1>1, <2>1, <2>2 DEF TakenOut, InQueue, TypeOK, HandlerType, JoinType
<1>7. WhereInv'
    <2>1. ASSUME NEW e \in Events
          PROVE  /\ \A t \in queue'[e] \cup processing'[e] \cup InFlight(e)' : EventOf[t] = e
                 /\ \A t \in processing'[e] \cup InFlight(e)' : TakenOut(t)' > 0
        <3>1. ASSUME NEW t \in InFlight(e)'
              PROVE  EventOf[t] = e /\ TakenOut(t)' > 0
            BY <1>3, <1>5, <1>6, <3>1 DEF WhereInv
        <3>2. ASSUME NEW t \in processing'[e]
              PROVE  EventOf[t] = e /\ TakenOut(t)' > 0
            <4>1. t \in processing[e] /\ t \in Sessions
                BY <1>1, <3>2 DEF TypeOK, StoreType
            <4> QED BY <1>5, <4>1 DEF WhereInv
        <3> QED BY <1>2, <3>1, <3>2 DEF WhereInv
    <2>2. \A t \in Sessions : TakenOut(t)' >= 0 /\ (~Entered(t)' => entries'[t] = 0)
        BY <1>1, <1>4, <1>5 DEF WhereInv
    <2> QED BY <2>1, <2>2 DEF WhereInv
<1>8. NotifyInv'
    <2> SUFFICES ASSUME NEW t \in Sessions
                 PROVE  /\ IsFiniteSet(Announced(t)')
                        /\ Cardinality(Announced(t)') + (IF t \in batch' THEN 1 ELSE 0)
                               <= TakenOut(t)'
        BY DEF NotifyInv
    <2>1. /\ Announced(t)' = Announced(t) /\ IsFiniteSet(Announced(t))
          /\ Cardinality(Announced(t)) + (IF t \in batch THEN 1 ELSE 0) <= TakenOut(t)
        BY <1>1 DEF NotifyInv, Announced
    <2>2. Cardinality(Announced(t)) \in Nat
        BY <2>1, FS_CardinalityType
    <2> QED BY <1>1, <1>5, <1>6, <2>1, <2>2
<1> QED BY <1>7, <1>8

\* The announcement of the session being admitted is the one set aside for it.
LEMMA ReadyKeepsNotify ==
    ASSUME TypeOK, WhereInv, NotifyInv, AdmitReady
    PROVE  NotifyInv'
<1> DEFINE m == <<user, signed[user]>>
<1>1. /\ user \in batch /\ user \in Sessions
      /\ UNCHANGED <<queue, entries>>
      /\ ready' = ready \/ ready' = ready \cup {m}
    BY DEF AdmitReady, TypeOK, ProcType, redisVars, joinVars
<1>2. batch' \subseteq batch \ {user}
    BY DEF AdmitReady, Admit, NextEvent
<1> SUFFICES ASSUME NEW t \in Sessions
             PROVE  /\ IsFiniteSet(Announced(t)')
                    /\ Cardinality(Announced(t)') + (IF t \in batch' THEN 1 ELSE 0)
                           <= TakenOut(t)'
    BY DEF NotifyInv
<1>3. TakenOut(t)' = TakenOut(t) /\ TakenOut(t) \in Int
    BY <1>1 DEF TakenOut, InQueue, TypeOK, HandlerType, JoinType
<1>4. /\ IsFiniteSet(Announced(t))
      /\ Cardinality(Announced(t)) + (IF t \in batch THEN 1 ELSE 0) <= TakenOut(t)
    BY DEF NotifyInv
<1>5. Cardinality(Announced(t)) \in Nat
    BY <1>4, FS_CardinalityType
<1>6. CASE Announced(t)' = Announced(t)
    BY <1>2, <1>3, <1>4, <1>5, <1>6
<1>7. CASE Announced(t)' # Announced(t)
    <2>1. t = user /\ Announced(t)' = Announced(t) \cup {m}
        BY <1>1, <1>7 DEF Announced
    <2>2. m \notin Announced(t)
        BY <1>7, <2>1
    <2>3. /\ IsFiniteSet(Announced(t)')
          /\ Cardinality(Announced(t)') = Cardinality(Announced(t)) + 1
        BY <1>4, <2>1, <2>2, FS_AddElement
    <2> QED BY <1>1, <1>2, <1>3, <1>4, <1>5, <2>1, <2>3
<1> QED BY <1>6, <1>7

\* Every step keeps the sessions where they belong and the announcements few enough.
LEMMA WhereStep ==
    ASSUME TypeOK, WhereInv, NotifyInv, [Next]_vars
    PROVE  WhereInv' /\ NotifyInv'
<1>1. ASSUME NEW s \in Sessions, JoinQueue(s) \/ LeaveQueue(s)
      PROVE  WhereInv' /\ NotifyInv'
    <2>1. CASE JoinEnqueue(s) /\ ZAdd(s)
        BY <2>1, EnqueueKeeps
    <2>2. CASE ~(JoinEnqueue(s) /\ ZAdd(s))
        BY <1>1, <2>2, RequestSettles, SettlingKeepsWhere, SettlingKeepsNotify
    <2> QED BY <2>1, <2>2
<1>2. CASE CheckoutStep \/ EnvironmentStep \/ UNCHANGED vars
    BY <1>2, OthersSettle, SettlingKeepsWhere, SettlingKeepsNotify
<1>3. CASE ProcessTick \/ \E e \in Events : ProcessCount(e)
    <2>1. batch = {} /\ batch' = {} /\ UNCHANGED <<queue, processing, jpc, entries, ready>>
        BY <1>3 DEF ProcessTick, ProcessCount, NextEvent, TypeOK, ProcType, redisVars,
               envVars, joinVars
    <2>2. Settling
        BY <2>1 DEF Settling, InFlight, Entered
    <2> QED BY <2>1, <2>2, SettlingKeepsWhere, SettlingKeepsNotify
<1>4. CASE ProcessPop
    BY <1>4, PopKeeps
<1>5. CASE AdmitReady
    BY <1>5, AdmissionSettles, SettlingKeepsWhere, ReadyKeepsNotify
<1>6. CASE AdmitCheck \/ AdmitToken \/ AdmitWrite \/ AdmitSlot \/ AdmitRollback
           \/ AdmitRestore \/ AdmitTimeout
    <2>1. UNCHANGED ready
        BY <1>6 DEF AdmitCheck, AdmitToken, AdmitWrite, AdmitSlot, AdmitRollback, AdmitRestore,
               AdmitTimeout
    <2> QED BY <1>6, <2>1, AdmissionSettles, SettlingKeepsWhere, SettlingKeepsNotify
<1> QED BY <1>1, <1>2, <1>3, <1>4, <1>5, <1>6 DEF Next, RequestStep, ProcessorStep

\* A failed call is counted, and no step takes a fault back.
LEMMA FaultsGrow == TypeOK /\ [Next]_vars => faults' \in Nat /\ faults' >= faults
<1> SUFFICES ASSUME TypeOK, [Next]_vars
             PROVE  UNCHANGED faults \/ Fault
    BY DEF Fault, TypeOK, StoreType
<1>1. CASE RequestStep
    BY <1>1 DEF RequestStep, JoinQueue, JoinCreate, JoinEnqueue, JoinActivate, JoinUpdate,
           LeaveQueue, LeaveGet, LeaveRemove, LeaveCount, LeaveDeactivate, LeaveMark,
           LeaveWrite, LeaveFault
<1>2. CASE ProcessorStep
    BY <1>2 DEF ProcessorStep, ProcessTick, ProcessCount, ProcessPop, AdmitCheck, AdmitToken,
           AdmitWrite, AdmitSlot, AdmitRollback, AdmitRestore, AdmitReady, AdmitTimeout, envVars
<1>3. CASE CheckoutStep
    BY <1>3 DEF CheckoutStep, CheckoutPublish, HandleCheckout, HandlerGet, HandlerToken,
           HandlerBlacklist, HandlerRelease, HandlerWrite, Unmarked, envVars
<1>4. CASE EnvironmentStep \/ UNCHANGED vars
    BY <1>4 DEF EnvironmentStep, ClockTick, Crash, SessionLapse, SessionEvict,
           ProcessingExpire, envVars, vars
<1> QED BY <1>1, <1>2, <1>3, <1>4 DEF Next

\* Only a ZADD of JoinQueue enters a session, and only JoinQueue waits to repeat one.
LEMMA EntriesElsewhere ==
    ASSUME TypeOK, [Next]_vars, \A s \in Sessions : ~JoinEnqueue(s)
    PROVE  /\ entries' = entries
           /\ \A t \in Sessions : jpc'[t] = "resend" => jpc[t] = "resend"
<1>1. ASSUME NEW s \in Sessions, JoinQueue(s) \/ LeaveQueue(s)
      PROVE  /\ entries' = entries
             /\ \A t \in Sessions : jpc'[t] = "resend" => jpc[t] = "resend"
    BY <1>1 DEF JoinQueue, JoinCreate, JoinActivate, JoinUpdate, LeaveQueue, LeaveGet,
           LeaveRemove, LeaveCount, LeaveDeactivate, LeaveMark, LeaveWrite, JoinAt, joinVars,
           TypeOK, HandlerType, JoinType
<1>2. CASE ProcessorStep
    BY <1>2 DEF ProcessorStep, ProcessTick, ProcessCount, ProcessPop, AdmitCheck, AdmitToken,
           AdmitWrite, AdmitSlot, AdmitRollback, AdmitRestore, AdmitReady, AdmitTimeout, joinVars
<1>3. CASE CheckoutStep
    BY <1>3 DEF CheckoutStep, CheckoutPublish, HandleCheckout, HandlerGet, HandlerToken,
           HandlerBlacklist, HandlerRelease, HandlerWrite, joinVars
<1>4. CASE EnvironmentStep
    BY <1>4 DEF EnvironmentStep, ClockTick, Crash, SessionLapse, SessionEvict,
           ProcessingExpire, joinVars, TypeOK, HandlerType, JoinType
<1>5. CASE UNCHANGED vars
    BY <1>5 DEF vars, joinVars
<1> QED BY <1>1, <1>2, <1>3, <1>4, <1>5 DEF Next, RequestStep

\* Every step keeps the entries of a session paid for.
LEMMA EntriesStep ==
    ASSUME TypeOK, WhereInv, EntriesInv, [Next]_vars
    PROVE  EntriesInv'
<1>1. /\ entries \in [Sessions -> Nat] /\ DOMAIN jpc = Sessions
      /\ faults \in Nat /\ faults' \in Nat /\ faults' >= faults
    BY FaultsGrow DEF TypeOK, HandlerType, JoinType, StoreType
<1>2. CASE \A s \in Sessions : ~JoinEnqueue(s)
    BY <1>1, <1>2, EntriesElsewhere DEF EntriesInv
<1>3. ASSUME NEW s \in Sessions, JoinEnqueue(s)
      PROVE  EntriesInv'
    <2>1. /\ \/ entries' = entries
             \/ entries' = [entries EXCEPT ![s] = @ + 1 - InQueue(s)]
          /\ InQueue(s) \in {0, 1}
        BY <1>3 DEF JoinEnqueue, ZAdd, InQueue
    <2>2. \E to \in {"activate", "resend", "failed", "refused"} :
              /\ jpc' = [jpc EXCEPT ![s] = to]
              /\ to = "resend" => faults' = faults + 1
        BY <1>3 DEF JoinEnqueue, JoinAt, Fault
    <2>3. jpc[s] = "enqueue" \/ jpc[s] = "resend"
        BY <1>3 DEF JoinEnqueue, JoinAt
    <2>4. ASSUME NEW t \in Sessions, t # s
          PROVE  entries'[t] + (IF jpc'[t] = "resend" THEN 1 ELSE 0) <= faults' + 1
        BY <1>1, <2>1, <2>2, <2>4 DEF EntriesInv
    <2>5. entries'[s] \in Nat /\ entries'[s] <= entries[s] + 1
        BY <1>1, <2>1
    <2>6. entries'[s] <= faults + 1
        <3>1. CASE jpc[s] = "enqueue"
            BY <1>1, <2>5, <3>1 DEF WhereInv, Entered
        <3>2. CASE jpc[s] = "resend"
            BY <1>1, <2>5, <3>2 DEF EntriesInv
        <3> QED BY <2>3, <3>1, <3>2
    <2>7. entries'[s] + (IF jpc'[s] = "resend" THEN 1 ELSE 0) <= faults' + 1
        BY <1>1, <2>2, <2>5, <2>6
    <2> QED BY <2>4, <2>7 DEF EntriesInv
<1> QED BY <1>2, <1>3

\* At the start no session is anywhere and none was announced.
LEMMA WhereInit == Init => WhereInv /\ NotifyInv /\ EntriesInv
BY SessionsAssumption, FS_EmptySet
   DEF Init, WhereInv, TakenOut, InQueue, NotifyInv, Announced, InFlight, EntriesInv

\* Every session is where its event's sessions are, only after its ZADD, in checkout
\* only after it left the queue, and announced at most as often as it left.
THEOREM WhereCorrect == Spec => [](TypeOK /\ WhereInv /\ NotifyInv /\ EntriesInv)
<1>1. Init => TypeOK /\ WhereInv /\ NotifyInv /\ EntriesInv
    BY TypeInit, WhereInit
<1>2. TypeOK /\ WhereInv /\ NotifyInv /\ EntriesInv /\ [Next]_vars
          => (TypeOK /\ WhereInv /\ NotifyInv /\ EntriesInv)'
    BY TypeStep, WhereStep, EntriesStep
<1> QED BY <1>1, <1>2, PTL DEF Spec

\* What the invariant says of one session.
LEMMA WhereImplies == TypeOK /\ WhereInv => BothOnlyIfResent
<1> SUFFICES ASSUME TypeOK, WhereInv, NEW e \in Events,
                    NEW s \in queue[e] \cap (processing[e] \cup InFlight(e))
             PROVE  entries[s] > 1
    BY DEF BothOnlyIfResent
<1>1. s \in Sessions /\ EventOf[s] = e /\ TakenOut(s) > 0
    BY DEF WhereInv, TypeOK, StoreType
<1> QED BY <1>1 DEF TakenOut, InQueue, TypeOK, HandlerType, JoinType

\* A session is in an event's queue and in its processing set or in the batch at once
\* only when one of the ZADDs the driver sent for it was applied after it had left the
\* queue: no retry, rollback, second run of the pop or restart puts it back.
THEOREM BothOnlyIfResentHolds == Spec => []BothOnlyIfResent
<1>1. TypeOK /\ WhereInv => BothOnlyIfResent
    BY WhereImplies
<1> QED BY <1>1, WhereCorrect, PTL

\* The number of announcements is bounded by what the invariant counts.
LEMMA NotifyImplies == TypeOK /\ NotifyInv => NotifiedOncePerEntry
<1> SUFFICES ASSUME TypeOK, NotifyInv, NEW s \in Sessions
             PROVE  Cardinality(Announced(s)) <= entries[s]
    BY DEF NotifiedOncePerEntry
<1>1. /\ IsFiniteSet(Announced(s))
      /\ Cardinality(Announced(s)) + (IF s \in batch THEN 1 ELSE 0) <= TakenOut(s)
    BY DEF NotifyInv
<1>2. Cardinality(Announced(s)) \in Nat
    BY <1>1, FS_CardinalityType
<1> QED BY <1>1, <1>2 DEF TakenOut, InQueue, TypeOK, HandlerType, JoinType

\* The checkout service is told of a session at most once for each time a ZADD put it
\* into the queue, however many attempts its admission takes.
THEOREM NotifiedOncePerEntryHolds == Spec => []NotifiedOncePerEntry
<1>1. TypeOK /\ NotifyInv => NotifiedOncePerEntry
    BY NotifyImplies
<1> QED BY <1>1, WhereCorrect, PTL

\* Together they are the invariant the runs check as a whole.
THEOREM IInvHolds ==
    ASSUME BatchSize > 0
    PROVE  Spec => []IInv
<1>1. Init => IInv
    BY TypeInit, PlacesInit, WhereInit DEF IInv
<1>2. IInv /\ [Next]_vars => IInv'
    BY TypeStep, PlacesStep, WhereStep, EntriesStep DEF IInv
<1> QED BY <1>1, <1>2, PTL DEF Spec
=============================================================================
