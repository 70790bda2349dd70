----------------------------- MODULE RecordProofs -----------------------------
(***************************************************************************)
(* Proofs about what the session records say in Waitroom while no call     *)
(* fails: no session is lost, a held place is live and a spent token stays *)
(* invalid, although every handler writes back a record it read earlier.   *)
(***************************************************************************)
EXTENDS WaitroomProofs

-----------------------------------------------------------------------------
(* Steps without a failed call. *)

\* A step after which nothing failed is no failed call and no restart, and
\* nothing failed before it.
LEMMA NothingFailed ==
    ASSUME TypeOK, [Next]_vars, Untroubled'
    PROVE  Untroubled /\ ~Fault /\ ~Crash
<1>1. faults \in Nat /\ crashes \in Nat /\ faults' = 0 /\ crashes' = 0
    BY DEF TypeOK, StoreType, Untroubled
<1>2. ~Fault /\ ~Crash
    BY <1>1 DEF Fault, Crash
<1>3. UNCHANGED faults
    <2>1. CASE RequestStep
        BY <1>2, <2>1 DEF RequestStep, JoinQueue, JoinCreate, JoinEnqueue, JoinActivate,
               JoinUpdate, LeaveQueue, LeaveGet, LeaveRemove, LeaveCount, LeaveDeactivate,
               LeaveMark, LeaveWrite, LeaveFault
    <2>2. CASE ProcessorStep
        BY <1>2, <2>2 DEF ProcessorStep, ProcessTick, ProcessCount, ProcessPop, AdmitCheck,
               AdmitToken, AdmitWrite, AdmitSlot, AdmitRollback, AdmitRestore, AdmitReady,
               AdmitTimeout, envVars
    <2>3. CASE CheckoutStep
        BY <1>2, <2>3 DEF CheckoutStep, CheckoutPublish, HandleCheckout, HandlerGet,
               HandlerToken, HandlerBlacklist, HandlerRelease, HandlerWrite, Unmarked, envVars
    <2>4. CASE EnvironmentStep
        BY <1>2, <2>4 DEF EnvironmentStep, ClockTick, SessionLapse, SessionEvict,
               ProcessingExpire, envVars
    <2>5. CASE UNCHANGED vars
        BY <2>5 DEF vars, envVars
    <2> QED BY <2>1, <2>2, <2>3, <2>4, <2>5 DEF Next
<1>4. UNCHANGED crashes
    <2>1. CASE RequestStep
        BY <2>1 DEF RequestStep, JoinQueue, JoinCreate, JoinEnqueue, JoinActivate,
               JoinUpdate, LeaveQueue, LeaveGet, LeaveRemove, LeaveCount, LeaveDeactivate,
               LeaveMark, LeaveWrite
    <2>2. CASE ProcessorStep
        BY <2>2 DEF ProcessorStep, ProcessTick, ProcessCount, ProcessPop, AdmitCheck,
               AdmitToken, AdmitWrite, AdmitSlot, AdmitRollback, AdmitRestore, AdmitReady,
               AdmitTimeout, envVars
    <2>3. CASE CheckoutStep
        BY <2>3 DEF CheckoutStep, CheckoutPublish, HandleCheckout, HandlerGet,
               HandlerToken, HandlerBlacklist, HandlerRelease, HandlerWrite, envVars
    <2>4. CASE EnvironmentStep
        BY <1>2, <2>4 DEF EnvironmentStep, ClockTick, SessionLapse, SessionEvict,
               ProcessingExpire, envVars
    <2>5. CASE UNCHANGED vars
        BY <2>5 DEF vars, envVars
    <2> QED BY <2>1, <2>2, <2>3, <2>4, <2>5 DEF Next
<1> QED BY <1>1, <1>2, <1>3, <1>4 DEF Untroubled

-----------------------------------------------------------------------------
(* Who writes a record, and with what. *)

\* What a step may make of the record of s: JoinQueue writes the new record, the
\* processor admits or restores its user, LeaveQueue and the handlers of an
\* outcome write back their copies, and a lapsed record may be evicted.
WrittenBy(s) ==
    \/ session'[s] = session[s]
    \/ session'[s] = NewSession /\ jpc[s] \in {"idle", "update"}
    \/ lpc[s] = "write" /\ session'[s] = Abandoned(lcopy[s])
    \/ s = user /\ session'[s] # None /\ ppc \in {"write", "restore"}
       /\ (ppc = "write" => Fault \/ (ppc' = "slot" /\ user' = user
                                      /\ session'[s].status = "admitted"))
    \/ \E m \in Messages : /\ m[1] = s /\ hpc[m] = "blacklist" /\ session'[s] # None
                           /\ session'[s].inval /\ session'[s].status = hinv[m].status
    \/ \E m \in Messages : /\ m[1] = s /\ hpc[m] = "write" /\ session'[s].status = m[2]
                           /\ session'[s] # None
    \/ session'[s] = None /\ s \in lapsed

\* A session record is not the missing record.
LEMMA RecordIsNotNone ==
    ASSUME NEW r \in SessionRecord
    PROVE  r # None
BY RecordAssumption

\* The calls of JoinQueue and LeaveQueue write no other record than these.
LEMMA RequestWrites ==
    ASSUME TypeOK, RequestStep, NEW s \in Sessions
    PROVE  WrittenBy(s)
<1>1. PICK t \in Sessions : JoinQueue(t) \/ LeaveQueue(t)
    BY DEF RequestStep
<1>2. session \in [Sessions -> Record]
    BY DEF TypeOK, StoreType
<1>3. CASE UNCHANGED session
    BY <1>3 DEF WrittenBy
<1>4. CASE JoinQueue(t) /\ Stored(t, NewSession) /\ jpc[t] \in {"idle", "update"}
    BY <1>2, <1>4 DEF WrittenBy, Stored
<1>5. CASE LeaveQueue(t) /\ Stored(t, Abandoned(lcopy[t])) /\ lpc[t] = "write"
    BY <1>2, <1>5 DEF WrittenBy, Stored
<1>6. JoinQueue(t) => \/ UNCHANGED session
                      \/ Stored(t, NewSession) /\ jpc[t] \in {"idle", "update"}
    BY DEF JoinQueue, JoinCreate, JoinEnqueue, JoinActivate, JoinUpdate, JoinAt
<1>7. LeaveQueue(t) => \/ UNCHANGED session
                       \/ Stored(t, Abandoned(lcopy[t])) /\ lpc[t] = "write"
    BY DEF LeaveQueue, LeaveGet, LeaveRemove, LeaveCount, LeaveDeactivate, LeaveMark,
           LeaveWrite, LeaveAt, LeaveFault, redisVars
<1> QED BY <1>1, <1>3, <1>4, <1>5, <1>6, <1>7

\* The processor writes its user's record, from the copy it just read.
LEMMA ProcessorWrites ==
    ASSUME TypeOK, ProcessorStep, NEW s \in Sessions
    PROVE  WrittenBy(s)
<1>1. session \in [Sessions -> Record]
    BY DEF TypeOK, StoreType
<1>2. CASE AdmitWrite
    <2> DEFINE admitted == [ucopy EXCEPT !.status = "admitted", !.token = signed[user]]
    <2>1. user \in Sessions /\ ucopy \in SessionRecord /\ signed[user] \in Tokens
          /\ ppc = "write"
        BY <1>2 DEF AdmitWrite, TypeOK, ProcType, Record, Tokens
    <2>2. admitted # None /\ admitted.status = "admitted"
        BY <2>1, AdmittedType, RecordIsNotNone DEF SessionRecord
    <2>3. UNCHANGED session \/ (Stored(user, admitted) /\ (Fault \/ Advance("slot")))
        BY <1>2 DEF AdmitWrite
    <2> QED BY <1>1, <2>1, <2>2, <2>3 DEF WrittenBy, Stored, Advance
<1>3. CASE AdmitRestore
    <2> DEFINE restored == [ucopy EXCEPT !.status = "queued"]
    <2>1. user \in Sessions /\ ucopy \in SessionRecord /\ ppc = "restore"
        BY <1>3 DEF AdmitRestore, TypeOK, ProcType, Record
    <2>2. restored # None
        BY <2>1, StatusUpdateType, StatusNames, RecordIsNotNone
    <2>3. UNCHANGED session \/ Stored(user, restored)
        BY <1>3 DEF AdmitRestore
    <2> QED BY <1>1, <2>1, <2>2, <2>3 DEF WrittenBy, Stored
<1>4. CASE ~AdmitWrite /\ ~AdmitRestore
    <2>1. UNCHANGED session
        BY <1>4 DEF ProcessorStep, ProcessTick, ProcessCount, ProcessPop, AdmitCheck,
               AdmitToken, AdmitSlot, AdmitRollback, AdmitReady, AdmitTimeout, redisVars
    <2> QED BY <2>1 DEF WrittenBy
<1> QED BY <1>2, <1>3, <1>4

\* The handlers of an outcome mark the record or write the outcome into it.
LEMMA HandlerWrites ==
    ASSUME TypeOK, CheckoutStep, NEW s \in Sessions
    PROVE  WrittenBy(s)
<1>1. PICK m \in Messages : CheckoutPublish(m) \/ HandleCheckout(m)
    BY DEF CheckoutStep
<1>2. session \in [Sessions -> Record] /\ m[1] \in Sessions /\ m[2] \in Statuses
    BY StatusNames DEF TypeOK, StoreType
<1>3. CASE HandlerBlacklist(m)
    <2> DEFINE marked == [hinv[m] EXCEPT !.inval = TRUE]
    <2>1. hpc[m] = "blacklist" /\ hinv[m] \in SessionRecord
        BY <1>3 DEF HandlerBlacklist, HandlerAt, TypeOK, HandlerType, OutcomeType, Record
    <2>2. marked \in SessionRecord /\ marked.inval /\ marked.status = hinv[m].status
        BY <2>1, InvalidatedType DEF SessionRecord
    <2>3. UNCHANGED session \/ Stored(m[1], marked)
        BY <1>3 DEF HandlerBlacklist
    <2> QED BY <1>2, <2>1, <2>2, <2>3, RecordIsNotNone DEF WrittenBy, Stored
<1>4. CASE HandlerWrite(m)
    <2>1. hpc[m] = "write" /\ hcopy[m] \in SessionRecord
        BY <1>4 DEF HandlerWrite, HandlerAt, Unmarked, TypeOK, HandlerType, OutcomeType, Record
    <2>2. Ended(m) \in SessionRecord /\ Ended(m).status = m[2]
        BY <1>2, <2>1, StatusUpdateType DEF Ended, SessionRecord
    <2>3. UNCHANGED session \/ Stored(m[1], Ended(m))
        BY <1>4 DEF HandlerWrite
    <2> QED BY <1>2, <2>1, <2>2, <2>3, RecordIsNotNone DEF WrittenBy, Stored
<1>5. CASE ~HandlerBlacklist(m) /\ ~HandlerWrite(m)
    <2>1. UNCHANGED session
        BY <1>1, <1>5 DEF CheckoutPublish, HandleCheckout, HandlerGet, HandlerToken,
               HandlerRelease, redisVars
    <2> QED BY <2>1 DEF WrittenBy
<1> QED BY <1>3, <1>4, <1>5

\* Only the record of a lapsed session is evicted.
LEMMA EnvironmentWrites ==
    ASSUME TypeOK, EnvironmentStep, NEW s \in Sessions
    PROVE  WrittenBy(s)
<1>1. CASE \E t \in Sessions : SessionEvict(t)
    BY <1>1 DEF SessionEvict, Stored, WrittenBy, TypeOK, StoreType
<1>2. CASE ~ \E t \in Sessions : SessionEvict(t)
    <2>1. UNCHANGED session
        BY <1>2 DEF EnvironmentStep, ClockTick, Crash, SessionLapse, ProcessingExpire, redisVars
    <2> QED BY <2>1 DEF WrittenBy
<1> QED BY <1>1, <1>2

\* Every step writes a record in one of these ways.
LEMMA RecordWrites ==
    ASSUME TypeOK, [Next]_vars, NEW s \in Sessions
    PROVE  WrittenBy(s)
<1>1. CASE UNCHANGED vars
    BY <1>1 DEF vars, redisVars, WrittenBy
<1> QED BY <1>1, RequestWrites, ProcessorWrites, HandlerWrites, EnvironmentWrites DEF Next

-----------------------------------------------------------------------------
(* RecordKept: what holds of records and outcomes whatever fails. *)

\* Only JoinCreate makes a session's request begin, and it stores the record; only
\* time makes a session lapse.
LEMMA BeginsWithRecord ==
    ASSUME TypeOK, [Next]_vars, NEW s \in Sessions
    PROVE  /\ jpc'[s] \notin {"idle", "refused"} =>
                  jpc[s] \notin {"idle", "refused"} \/ session'[s] = NewSession
           /\ lapsed \subseteq lapsed'
<1>1. CASE RequestStep
    <2>1. PICK t \in Sessions : JoinQueue(t) \/ LeaveQueue(t)
        BY <1>1 DEF RequestStep
    <2>2. UNCHANGED lapsed
        BY <2>1 DEF JoinQueue, JoinCreate, JoinEnqueue, JoinActivate, JoinUpdate, LeaveQueue,
               LeaveGet, LeaveRemove, LeaveCount, LeaveDeactivate, LeaveMark, LeaveWrite
    <2>3. CASE JoinCreate(t)
        BY <2>2, <2>3 DEF JoinCreate, JoinAt, Stored, TypeOK, StoreType, HandlerType, JoinType
    <2>4. CASE JoinEnqueue(t) \/ JoinActivate(t) \/ JoinUpdate(t)
        <3>1. /\ jpc[t] \in {"enqueue", "resend", "activate", "update"}
              /\ \E to \in {"resend", "activate", "update", "done", "failed", "refused"} :
                     jpc' = [jpc EXCEPT ![t] = to]
            BY <2>4 DEF JoinEnqueue, JoinActivate, JoinUpdate, JoinAt
        <3> QED BY <2>2, <3>1 DEF TypeOK, HandlerType, JoinType
    <2>5. CASE LeaveQueue(t)
        <3>1. UNCHANGED jpc
            BY <2>5 DEF LeaveQueue, LeaveGet, LeaveRemove, LeaveCount, LeaveDeactivate,
                   LeaveMark, LeaveWrite, joinVars
        <3> QED BY <2>2, <3>1
    <2> QED BY <2>1, <2>3, <2>4, <2>5 DEF JoinQueue
<1>2. CASE ProcessorStep
    <2>1. UNCHANGED <<jpc, lapsed>>
        BY <1>2 DEF ProcessorStep, ProcessTick, ProcessCount, ProcessPop, AdmitCheck,
               AdmitToken, AdmitWrite, AdmitSlot, AdmitRollback, AdmitRestore, AdmitReady,
               AdmitTimeout, joinVars, envVars
    <2> QED BY <2>1
<1>3. CASE CheckoutStep
    <2>1. UNCHANGED <<jpc, lapsed>>
        BY <1>3 DEF CheckoutStep, CheckoutPublish, HandleCheckout, HandlerGet, HandlerToken,
               HandlerBlacklist, HandlerRelease, HandlerWrite, joinVars, envVars
    <2> QED BY <2>1
<1>4. CASE EnvironmentStep
    <2>1. CASE Crash
        BY <2>1 DEF Crash, TypeOK, HandlerType, JoinType
    <2>2. CASE ~Crash
        BY <1>4, <2>2 DEF EnvironmentStep, ClockTick, SessionLapse, SessionEvict,
               ProcessingExpire, joinVars, envVars
    <2> QED BY <2>1, <2>2
<1>5. CASE UNCHANGED vars
    BY <1>5 DEF vars, joinVars, envVars
<1> QED BY <1>1, <1>2, <1>3, <1>4, <1>5 DEF Next

\* QUEUE_READY is never taken back.
LEMMA AnnouncedStays ==
    ASSUME TypeOK, [Next]_vars
    PROVE  Notified \subseteq Notified'
<1>1. CASE RequestStep
    BY <1>1 DEF RequestStep, JoinQueue, JoinCreate, JoinEnqueue, JoinActivate, JoinUpdate,
           LeaveQueue, LeaveGet, LeaveRemove, LeaveCount, LeaveDeactivate, LeaveMark,
           LeaveWrite, Notified
<1>2. CASE ProcessorStep
    <2>1. ready \subseteq ready'
        BY <1>2 DEF ProcessorStep, ProcessTick, ProcessCount, ProcessPop, AdmitCheck,
               AdmitToken, AdmitWrite, AdmitSlot, AdmitRollback, AdmitRestore, AdmitReady,
               AdmitTimeout, envVars
    <2> QED BY <2>1 DEF Notified
<1>3. CASE CheckoutStep \/ EnvironmentStep \/ UNCHANGED vars
    BY <1>3, OthersSettle DEF Notified
<1> QED BY <1>1, <1>2, <1>3 DEF Next

\* An outcome begins with CheckoutPublish, for a session that was announced or whose
\* user polled a record with a token; its handler never forgets it.
LEMMA OutcomeBegins ==
    ASSUME TypeOK, [Next]_vars, NEW m \in Messages, hpc'[m] # "none"
    PROVE  \/ hpc[m] # "none"
           \/ m[1] \in Notified
           \/ m[1] \in Pollers /\ HasToken(m[1])
<1>1. CASE RequestStep \/ ProcessorStep \/ UNCHANGED vars
    <2>1. UNCHANGED hpc
        BY <1>1 DEF RequestStep, JoinQueue, JoinCreate, JoinEnqueue, JoinActivate, JoinUpdate,
               LeaveQueue, LeaveGet, LeaveRemove, LeaveCount, LeaveDeactivate, LeaveMark,
               LeaveWrite, ProcessorStep, ProcessTick, ProcessCount, ProcessPop, AdmitCheck,
               AdmitToken, AdmitWrite, AdmitSlot, AdmitRollback, AdmitRestore, AdmitReady,
               AdmitTimeout, hdlVars, vars
    <2> QED BY <2>1
<1>2. CASE CheckoutStep
    <2>1. PICK n \in Messages : CheckoutPublish(n) \/ HandleCheckout(n)
        BY <1>2 DEF CheckoutStep
    <2>2. /\ hpc \in [Messages -> {"none", "sent", "token", "blacklist", "release", "write",
                                   "done", "skipped"}]
          /\ \E to : hpc' = [hpc EXCEPT ![n] = to]
        BY <2>1 DEF TypeOK, HandlerType, OutcomeType, CheckoutPublish, HandleCheckout,
               HandlerGet, HandlerToken, HandlerBlacklist, HandlerRelease, HandlerWrite,
               HandlerAt, Unmarked
    <2>3. CASE CheckoutPublish(n)
        BY <2>2, <2>3 DEF CheckoutPublish
    <2>4. CASE HandleCheckout(n)
        <3>1. hpc[n] # "none"
            BY <2>4 DEF HandleCheckout, HandlerGet, HandlerToken, HandlerBlacklist,
                   HandlerRelease, HandlerWrite, HandlerAt, Unmarked
        <3> QED BY <2>2, <3>1
    <2> QED BY <2>1, <2>3, <2>4
<1>3. CASE EnvironmentStep
    BY <1>3 DEF EnvironmentStep, ClockTick, Crash, SessionLapse, SessionEvict,
           ProcessingExpire, hdlVars
<1> QED BY <1>1, <1>2, <1>3 DEF Next

\* Records stay until they lapse, and outcomes follow their announcement.
LEMMA KeptStep ==
    ASSUME TypeOK, RecordKept, [Next]_vars
    PROVE  RecordKept'
<1>1. ASSUME NEW s \in Sessions, jpc'[s] \notin {"idle", "refused"}, s \notin lapsed'
      PROVE  session'[s] # None
    <2>1. CASE session'[s] = NewSession
        BY <2>1, NewSessionType, RecordIsNotNone
    <2>2. CASE session'[s] # NewSession
        <3>1. jpc[s] \notin {"idle", "refused"} /\ s \notin lapsed
            BY <1>1, <2>2, BeginsWithRecord
        <3>2. session[s] # None
            BY <3>1 DEF RecordKept
        <3>3. lpc[s] = "write" => Abandoned(lcopy[s]) # None
            <4> SUFFICES ASSUME lpc[s] = "write" PROVE Abandoned(lcopy[s]) # None
                OBVIOUS
            <4>1. lcopy[s] \in SessionRecord
                BY DEF TypeOK, HandlerType, LeaveType, Record
            <4> QED BY <4>1, StatusUpdateType, StatusNames, RecordIsNotNone DEF Abandoned
        <3>4. WrittenBy(s)
            BY RecordWrites
        <3> QED BY <2>2, <3>1, <3>2, <3>3, <3>4 DEF WrittenBy
    <2> QED BY <2>1, <2>2
<1>2. ASSUME NEW m \in Messages, hpc'[m] # "none", m[1] \notin Pollers
      PROVE  m[1] \in Notified'
    BY <1>2, OutcomeBegins, AnnouncedStays DEF RecordKept
<1> QED BY <1>1, <1>2 DEF RecordKept

-----------------------------------------------------------------------------
(* BeforeWrite, AfterOutcome, QueuedHasNoToken: what holds while nothing failed. *)

\* Without a failed call no session enters the queue twice, so one that was announced
\* entered it and is not being admitted once more.
LEMMA AnnouncedOnce ==
    ASSUME TypeOK, WhereInv, NotifyInv, EntriesInv, Untroubled,
           NEW s \in Sessions, s \in Notified
    PROVE  Entered(s) /\ s \notin batch
<1>1. /\ IsFiniteSet(Announced(s)) /\ Announced(s) # {}
      /\ Cardinality(Announced(s)) + (IF s \in batch THEN 1 ELSE 0) <= TakenOut(s)
    BY DEF NotifyInv, Announced, Notified
<1>2. Cardinality(Announced(s)) \in Nat /\ Cardinality(Announced(s)) # 0
    BY <1>1, FS_CardinalityType, FS_EmptySet
<1>3. /\ entries[s] \in Nat /\ entries[s] <= 1
      /\ TakenOut(s) <= entries[s] /\ TakenOut(s) \in Int
    BY DEF EntriesInv, Untroubled, TakenOut, InQueue, TypeOK, HandlerType, JoinType
<1>4. s \notin batch /\ entries[s] # 0
    BY <1>1, <1>2, <1>3
<1> QED BY <1>4 DEF WhereInv

\* A session for which a place is taken or set aside entered the queue.
LEMMA HolderEntered ==
    ASSUME TypeOK, WhereInv, NEW s \in batch
    PROVE  s \in Sessions /\ Entered(s)
<1>1. s \in Sessions /\ event \in Events /\ s \in InFlight(event)
    BY DEF TypeOK, ProcType, InFlight
<1>2. TakenOut(s) > 0 /\ TakenOut(s) <= entries[s] /\ entries[s] \in Nat
    BY <1>1 DEF WhereInv, TakenOut, InQueue, TypeOK, HandlerType, JoinType
<1>3. entries[s] # 0
    BY <1>2 DEF TakenOut, InQueue
<1> QED BY <1>1, <1>3 DEF WhereInv

\* A session whose record the processor wrote entered the queue, and the processor
\* is not about to write it again.
LEMMA WrittenOnce ==
    ASSUME TypeOK, WhereInv, NotifyInv, EntriesInv, Untroubled,
           NEW s \in Sessions, PastWrite(s)
    PROVE  /\ Entered(s)
           /\ ~(user = s /\ ppc \in {"admit", "token", "write"})
<1>1. CASE s \in Notified
    BY <1>1, AnnouncedOnce DEF TypeOK, ProcType
<1>2. CASE user = s /\ ppc \in {"slot", "ready"}
    BY <1>2, HolderEntered DEF TypeOK, ProcType
<1> QED BY <1>1, <1>2 DEF PastWrite

\* What was written stays written, while no call fails.
LEMMA WriteIsPast ==
    ASSUME TypeOK, [Next]_vars, Untroubled', NEW s \in Sessions, PastWrite(s)
    PROVE  PastWrite(s)'
<1>1. ~Fault /\ ~Crash
    BY NothingFailed
<1>2. CASE s \in Notified
    BY <1>2, AnnouncedStays DEF PastWrite
<1>3. CASE user = s /\ ppc \in {"slot", "ready"}
    <2>1. CASE RequestStep
        BY <1>3, <2>1 DEF RequestStep, JoinQueue, JoinCreate, JoinEnqueue, JoinActivate,
               JoinUpdate, LeaveQueue, LeaveGet, LeaveRemove, LeaveCount, LeaveDeactivate,
               LeaveMark, LeaveWrite, procVars, PastWrite
    <2>2. CASE ProcessorStep
        <3>1. AdmitSlot \/ AdmitReady
            BY <1>1, <1>3, <2>2 DEF ProcessorStep, ProcessTick, ProcessCount, ProcessPop,
                   AdmitCheck, AdmitToken, AdmitWrite, AdmitRollback, AdmitRestore,
                   AdmitTimeout
        <3>2. CASE AdmitSlot
            BY <1>1, <1>3, <3>2 DEF AdmitSlot, Advance, PastWrite
        <3>3. CASE AdmitReady
            BY <1>1, <1>3, <3>3 DEF AdmitReady, PastWrite, Notified
        <3> QED BY <3>1, <3>2, <3>3
    <2>3. CASE CheckoutStep
        BY <1>3, <2>3 DEF CheckoutStep, CheckoutPublish, HandleCheckout, HandlerGet,
               HandlerToken, HandlerBlacklist, HandlerRelease, HandlerWrite, procVars,
               PastWrite
    <2>4. CASE EnvironmentStep
        BY <1>1, <1>3, <2>4 DEF EnvironmentStep, ClockTick, SessionLapse, SessionEvict,
               ProcessingExpire, procVars, PastWrite
    <2>5. CASE UNCHANGED vars
        BY <1>3, <2>5 DEF vars, procVars, PastWrite
    <2> QED BY <2>1, <2>2, <2>3, <2>4, <2>5 DEF Next
<1> QED BY <1>2, <1>3 DEF PastWrite

\* LeaveQueue's copy of the record is the record it read, or none; and a LeaveQueue
\* that began does not un-begin.
LEMMA LeaveCopies ==
    ASSUME TypeOK, [Next]_vars, NEW s \in Sessions
    PROVE  /\ lcopy'[s] \in {None, lcopy[s], session[s]}
           /\ lpc'[s] = "idle" => lpc[s] = "idle"
<1>1. lpc \in [Sessions -> {"idle", "remove", "count", "deactivate", "mark", "write",
                            "done", "failed"}]
      /\ lcopy \in [Sessions -> Record]
    BY DEF TypeOK, HandlerType, LeaveType
<1>2. CASE RequestStep
    <2>1. PICK t \in Sessions : JoinQueue(t) \/ LeaveQueue(t)
        BY <1>2 DEF RequestStep
    <2>2. CASE JoinQueue(t)
        BY <2>2 DEF JoinQueue, JoinCreate, JoinEnqueue, JoinActivate, JoinUpdate, leaveVars
    <2>3. CASE LeaveQueue(t)
        <3>1. UNCHANGED lcopy \/ lcopy' = [lcopy EXCEPT ![t] = None]
              \/ lcopy' = [lcopy EXCEPT ![t] = session[t]]
            BY <2>3 DEF LeaveQueue, LeaveGet, LeaveRemove, LeaveCount, LeaveDeactivate,
                   LeaveMark, LeaveWrite
        <3>2. \E to \in {"remove", "count", "deactivate", "mark", "write", "done", "failed"} :
                  lpc' = [lpc EXCEPT ![t] = to]
            BY <2>3 DEF LeaveQueue, LeaveGet, LeaveRemove, LeaveCount, LeaveDeactivate,
                   LeaveMark, LeaveWrite, LeaveAt, LeaveFault
        <3> QED BY <1>1, <3>1, <3>2
    <2> QED BY <2>1, <2>2, <2>3
<1>3. CASE ProcessorStep
    BY <1>3 DEF ProcessorStep, ProcessTick, ProcessCount, ProcessPop, AdmitCheck,
           AdmitToken, AdmitWrite, AdmitSlot, AdmitRollback, AdmitRestore, AdmitReady,
           AdmitTimeout, leaveVars
<1>4. CASE CheckoutStep
    BY <1>4 DEF CheckoutStep, CheckoutPublish, HandleCheckout, HandlerGet, HandlerToken,
           HandlerBlacklist, HandlerRelease, HandlerWrite, leaveVars
<1>5. CASE EnvironmentStep
    BY <1>1, <1>5 DEF EnvironmentStep, ClockTick, Crash, SessionLapse, SessionEvict,
           ProcessingExpire, leaveVars
<1>6. CASE UNCHANGED vars
    BY <1>6 DEF vars, leaveVars
<1> QED BY <1>2, <1>3, <1>4, <1>5, <1>6 DEF Next

\* Before the processor's write, every record and copy is as JoinQueue left it but for
\* the status a LeaveQueue wrote.
LEMMA BeforeStep ==
    ASSUME TypeOK, WhereInv, NotifyInv, RecordKept, BeforeWrite,
           ppc \notin {"rollback", "restore"}, [Next]_vars, Untroubled'
    PROVE  BeforeWrite'
<1> SUFFICES ASSUME NEW s \in Sessions, ~PastWrite(s)'
             PROVE  /\ \A m \in Messages : m[1] = s => hpc'[m] = "none"
                    /\ session'[s] # None => session'[s].token = 0
                    /\ lcopy'[s] # None => lcopy'[s].token = 0
                    /\ jpc'[s] \notin {"idle", "refused"} /\ s \notin lapsed'
                       /\ lpc'[s] = "idle" => session'[s].status = "queued"
    BY DEF BeforeWrite
<1>1. ~PastWrite(s) /\ ~Fault
    BY WriteIsPast, NothingFailed
<1>2. /\ \A m \in Messages : m[1] = s => hpc[m] = "none"
      /\ session[s] # None => session[s].token = 0
      /\ lcopy[s] # None => lcopy[s].token = 0
      /\ jpc[s] \notin {"idle", "refused"} /\ s \notin lapsed /\ lpc[s] = "idle" =>
             session[s].status = "queued"
    BY <1>1 DEF BeforeWrite
<1>3. ASSUME NEW m \in Messages, m[1] = s
      PROVE  hpc'[m] = "none"
    BY <1>1, <1>2, <1>3, OutcomeBegins DEF PastWrite, HasToken
<1>4. lcopy'[s] # None => lcopy'[s].token = 0
    BY <1>2, LeaveCopies
<1>5. \/ session'[s] = session[s] \/ session'[s] = NewSession
      \/ lpc[s] = "write" /\ session'[s] = Abandoned(lcopy[s])
      \/ session'[s] = None /\ s \in lapsed
    <2>1. ~(s = user /\ ppc' = "slot" /\ user' = user)
        BY <1>1 DEF PastWrite
    <2>2. \A m \in Messages : m[1] = s => hpc[m] \notin {"blacklist", "write"}
        BY <1>2
    <2> QED BY <1>1, <2>1, <2>2, RecordWrites DEF WrittenBy
<1>6. lpc[s] = "write" => /\ lcopy[s] # None /\ Abandoned(lcopy[s]).token = lcopy[s].token
    <2> SUFFICES ASSUME lpc[s] = "write"
                 PROVE  lcopy[s] # None /\ Abandoned(lcopy[s]).token = lcopy[s].token
        OBVIOUS
    <2>1. lcopy[s] # None /\ lcopy[s] \in SessionRecord
        BY DEF TypeOK, HandlerType, LeaveType, Record
    <2> QED BY <2>1 DEF Abandoned, SessionRecord
<1>7. session'[s] # None => session'[s].token = 0
    BY <1>2, <1>5, <1>6 DEF NewSession
<1>8. ASSUME jpc'[s] \notin {"idle", "refused"}, s \notin lapsed', lpc'[s] = "idle"
      PROVE  session'[s].status = "queued"
    <2>1. CASE session'[s] = NewSession
        BY <2>1 DEF NewSession
    <2>2. CASE session'[s] # NewSession
        <3>1. jpc[s] \notin {"idle", "refused"} /\ s \notin lapsed /\ lpc[s] = "idle"
            BY <1>8, <2>2, BeginsWithRecord, LeaveCopies
        <3> QED BY <1>2, <1>5, <2>2, <3>1
    <2> QED BY <2>1, <2>2
<1> QED BY <1>3, <1>4, <1>7, <1>8

\* A session with an outcome was written by the processor before.
LEMMA OutcomeIsPast ==
    ASSUME TypeOK, BeforeWrite, NEW m \in Messages, hpc[m] # "none"
    PROVE  m[1] \in Sessions /\ PastWrite(m[1])
BY StatusNames DEF BeforeWrite

\* A handler ends with the outcome in the record or because there is no record.
LEMMA OutcomeEnds ==
    ASSUME TypeOK, [Next]_vars, NEW m \in Messages, hpc'[m] = "done"
    PROVE  \/ hpc[m] = "done"
           \/ hpc[m] = "sent" /\ session[m[1]] = None
           \/ hpc[m] = "write" /\ session'[m[1]] = Ended(m)
<1>1. CASE RequestStep \/ ProcessorStep \/ UNCHANGED vars
    <2>1. UNCHANGED hpc
        BY <1>1 DEF RequestStep, JoinQueue, JoinCreate, JoinEnqueue, JoinActivate, JoinUpdate,
               LeaveQueue, LeaveGet, LeaveRemove, LeaveCount, LeaveDeactivate, LeaveMark,
               LeaveWrite, ProcessorStep, ProcessTick, ProcessCount, ProcessPop, AdmitCheck,
               AdmitToken, AdmitWrite, AdmitSlot, AdmitRollback, AdmitRestore, AdmitReady,
               AdmitTimeout, hdlVars, vars
    <2> QED BY <1>1, <2>1
<1>2. CASE CheckoutStep
    <2>1. PICK n \in Messages : CheckoutPublish(n) \/ HandleCheckout(n)
        BY <1>2 DEF CheckoutStep
    <2>2. /\ hpc \in [Messages -> {"none", "sent", "token", "blacklist", "release", "write",
                                   "done", "skipped"}]
          /\ session \in [Sessions -> Record] /\ n[1] \in Sessions
        BY StatusNames DEF TypeOK, HandlerType, OutcomeType, StoreType
    <2>3. CASE HandlerGet(n)
        <3>1. \/ session[n[1]] = None /\ hpc[n] = "sent" /\ hpc' = [hpc EXCEPT ![n] = "done"]
              \/ \E to \in {"token", "sent", "skipped"} : hpc' = [hpc EXCEPT ![n] = to]
            BY <2>3 DEF HandlerGet, HandlerAt, Unmarked
        <3> QED BY <2>2, <3>1
    <2>4. CASE HandlerWrite(n)
        <3>1. \/ /\ hpc[n] = "write" /\ hpc' = [hpc EXCEPT ![n] = "done"]
                 /\ Stored(n[1], Ended(n))
              \/ \E to \in {"sent", "skipped"} : hpc' = [hpc EXCEPT ![n] = to]
            BY <2>4 DEF HandlerWrite, HandlerAt, Unmarked
        <3> QED BY <2>2, <3>1 DEF Stored
    <2>5. CASE CheckoutPublish(n) \/ HandlerToken(n) \/ HandlerBlacklist(n) \/ HandlerRelease(n)
        <3>1. \E to \in {"sent", "blacklist", "release", "write"} : hpc' = [hpc EXCEPT ![n] = to]
            BY <2>5 DEF CheckoutPublish, HandlerToken, HandlerBlacklist, HandlerRelease,
                   HandlerAt
        <3> QED BY <2>2, <3>1
    <2> QED BY <2>1, <2>3, <2>4, <2>5 DEF HandleCheckout
<1>3. CASE EnvironmentStep
    <2>1. CASE Crash
        BY <2>1 DEF Crash, TypeOK, HandlerType, OutcomeType
    <2>2. CASE ~Crash
        BY <1>3, <2>2 DEF EnvironmentStep, ClockTick, SessionLapse, SessionEvict,
               ProcessingExpire, hdlVars
    <2> QED BY <2>1, <2>2
<1> QED BY <1>1, <1>2, <1>3 DEF Next

\* A record that was written by a handler of an outcome is not written again as
\* admitted and unmarked, by whoever has an older copy.
LEMMA AfterStep ==
    ASSUME TypeOK, WhereInv, NotifyInv, EntriesInv, RecordKept, BeforeWrite,
           AfterOutcome, ppc \notin {"rollback", "restore"}, [Next]_vars, Untroubled'
    PROVE  AfterOutcome'
<1> SUFFICES ASSUME NEW m \in Messages, hpc'[m] = "done", m[1] \notin lapsed'
             PROVE  session'[m[1]].status # "admitted" \/ session'[m[1]].inval
    BY DEF AfterOutcome
<1> DEFINE s == m[1]
<1>1. s \in Sessions /\ ~Fault /\ Untroubled
    BY StatusNames, NothingFailed
<1>2. s \notin lapsed
    BY <1>1, BeginsWithRecord
<1>3. \A n \in Messages : Ended(n).status = n[2] \/ hpc[n] # "write"
    BY DEF Ended, TypeOK, HandlerType, OutcomeType, Record, SessionRecord
<1>4. \A n \in Messages : n[2] # "admitted"
    BY MessagesAssumption DEF Outcomes
<1>5. CASE hpc[m] = "done"
    <2>1. PastWrite(s)
        BY <1>5, OutcomeIsPast
    <2>2. ~(user = s /\ ppc = "write")
        BY <1>1, <2>1, WrittenOnce
    <2>3. lpc[s] = "write" => Abandoned(lcopy[s]).status = "abandoned"
        BY <1>1 DEF Abandoned, TypeOK, HandlerType, LeaveType, Record, SessionRecord
    <2>4. session[s].status # "admitted" \/ session[s].inval
        BY <1>2, <1>5 DEF AfterOutcome
    <2> QED BY <1>1, <1>2, <1>4, <2>2, <2>3, <2>4, RecordWrites DEF WrittenBy, NewSession
<1>6. CASE hpc[m] = "sent" /\ session[s] = None
    <2>1. Entered(s)
        BY <1>1, <1>6, OutcomeIsPast, WrittenOnce
    <2> QED BY <1>1, <1>2, <1>6, <2>1 DEF RecordKept, Entered
<1>7. CASE hpc[m] = "write" /\ session'[s] = Ended(m)
    BY <1>3, <1>4, <1>7
<1> QED BY <1>5, <1>6, <1>7, OutcomeEnds

\* Without a failed call the processor rolls nothing back.
LEMMA NoRollback ==
    ASSUME TypeOK, ppc \notin {"rollback", "restore"}, [Next]_vars, Untroubled'
    PROVE  ppc' \notin {"rollback", "restore"}
<1>1. ~Fault /\ ~Crash
    BY NothingFailed
<1>2. CASE RequestStep \/ CheckoutStep \/ EnvironmentStep \/ UNCHANGED vars
    BY <1>2, OthersOnlyFree DEF procVars
<1>3. CASE ProcessorStep
    BY <1>1, <1>3 DEF ProcessorStep, ProcessTick, ProcessCount, ProcessPop, AdmitCheck,
           AdmitToken, AdmitWrite, AdmitSlot, AdmitRollback, AdmitRestore, AdmitReady,
           AdmitTimeout, Retry, Admit, Advance, NextEvent
<1> QED BY <1>2, <1>3 DEF Next

\* InvalidateToken keeps the record it read only when that has a token.
LEMMA MarksARecordWithToken ==
    ASSUME TypeOK, [Next]_vars, NEW m \in Messages, hpc'[m] = "blacklist"
    PROVE  \/ hpc[m] = "blacklist" /\ hinv'[m] = hinv[m]
           \/ HasToken(m[1]) /\ hinv'[m] = session[m[1]]
<1>1. CASE RequestStep \/ ProcessorStep \/ UNCHANGED vars
    <2>1. UNCHANGED <<hpc, hinv>>
        BY <1>1 DEF RequestStep, JoinQueue, JoinCreate, JoinEnqueue, JoinActivate, JoinUpdate,
               LeaveQueue, LeaveGet, LeaveRemove, LeaveCount, LeaveDeactivate, LeaveMark,
               LeaveWrite, ProcessorStep, ProcessTick, ProcessCount, ProcessPop, AdmitCheck,
               AdmitToken, AdmitWrite, AdmitSlot, AdmitRollback, AdmitRestore, AdmitReady,
               AdmitTimeout, hdlVars, vars
    <2> QED BY <2>1
<1>2. CASE CheckoutStep
    <2>1. PICK n \in Messages : CheckoutPublish(n) \/ HandleCheckout(n)
        BY <1>2 DEF CheckoutStep
    <2>2. /\ hpc \in [Messages -> {"none", "sent", "token", "blacklist", "release", "write",
                                   "done", "skipped"}]
          /\ hinv \in [Messages -> Record]
        BY DEF TypeOK, HandlerType, OutcomeType
    <2>3. CASE HandlerToken(n)
        <3>1. \/ /\ HasToken(n[1]) /\ hpc' = [hpc EXCEPT ![n] = "blacklist"]
                 /\ hinv' = [hinv EXCEPT ![n] = session[n[1]]]
              \/ hpc' = [hpc EXCEPT ![n] = "release"] /\ UNCHANGED hinv
            BY <2>3 DEF HandlerToken, HandlerAt
        <3> QED BY <2>2, <3>1
    <2>4. CASE HandlerBlacklist(n)
        <3>1. /\ hpc' = [hpc EXCEPT ![n] = "release"]
              /\ hinv' = [hinv EXCEPT ![n] = None]
            BY <2>4 DEF HandlerBlacklist, HandlerAt
        <3> QED BY <2>2, <3>1
    <2>5. CASE CheckoutPublish(n) \/ HandlerGet(n) \/ HandlerRelease(n) \/ HandlerWrite(n)
        <3>1. /\ \E to \in {"sent", "token", "write", "done", "skipped"} :
                     hpc' = [hpc EXCEPT ![n] = to]
              /\ UNCHANGED hinv
            BY <2>5 DEF CheckoutPublish, HandlerGet, HandlerRelease, HandlerWrite, HandlerAt,
                   Unmarked
        <3> QED BY <2>2, <3>1
    <2> QED BY <2>1, <2>3, <2>4, <2>5 DEF HandleCheckout
<1>3. CASE EnvironmentStep
    <2>1. CASE Crash
        BY <2>1 DEF Crash, TypeOK, HandlerType, OutcomeType
    <2>2. CASE ~Crash
        BY <1>3, <2>2 DEF EnvironmentStep, ClockTick, SessionLapse, SessionEvict,
               ProcessingExpire, hdlVars
    <2> QED BY <2>1, <2>2
<1> QED BY <1>1, <1>2, <1>3 DEF Next

\* A record is made queued by JoinQueue only, and then it has no token.
LEMMA QueuedStep ==
    ASSUME TypeOK, QueuedHasNoToken, ppc \notin {"rollback", "restore"}, [Next]_vars,
           Untroubled'
    PROVE  QueuedHasNoToken'
<1>1. ~Fault
    BY NothingFailed
<1>2. ASSUME NEW s \in Sessions, session'[s] # None, session'[s].status = "queued"
      PROVE  session'[s].token = 0
    <2>1. ~(lpc[s] = "write" /\ session'[s] = Abandoned(lcopy[s]))
        BY <1>2 DEF Abandoned, TypeOK, HandlerType, LeaveType, Record, SessionRecord
    <2>2. \A m \in Messages : m[2] # "queued"
        BY MessagesAssumption DEF Outcomes
    <2> QED BY <1>1, <1>2, <2>1, <2>2, RecordWrites DEF WrittenBy, NewSession,
                   QueuedHasNoToken
<1>3. ASSUME NEW m \in Messages, hpc'[m] = "blacklist"
      PROVE  hinv'[m].status # "queued"
    BY <1>3, StatusNames, MarksARecordWithToken DEF QueuedHasNoToken, HasToken
<1> QED BY <1>2, <1>3 DEF QueuedHasNoToken

-----------------------------------------------------------------------------
(* HeldPlaceIsLive. *)

\* A place that was not held before is the user's whose announcement is next.
LEMMA PlaceBegins ==
    ASSUME TypeOK, [Next]_vars, Untroubled', NEW e \in Events, NEW s \in processing'[e]
    PROVE  s \in processing[e] \/ (ppc = "slot" /\ ppc' = "ready" /\ user = s /\ user' = s)
<1>1. ~Fault
    BY NothingFailed
<1>2. CASE RequestStep \/ CheckoutStep \/ EnvironmentStep \/ UNCHANGED vars
    BY <1>2, OthersOnlyFree
<1>3. CASE AdmitSlot
    BY <1>1, <1>3 DEF AdmitSlot, Advance, TypeOK, StoreType
<1>4. CASE ProcessorStep /\ ~AdmitSlot
    <2>1. UNCHANGED processing
        BY <1>4 DEF ProcessorStep, ProcessTick, ProcessCount, ProcessPop, AdmitCheck,
               AdmitToken, AdmitWrite, AdmitRollback, AdmitRestore, AdmitReady,
               AdmitTimeout, redisVars
    <2> QED BY <2>1
<1> QED BY <1>2, <1>3, <1>4 DEF Next

\* The handler of an outcome comes to its last write by freeing the place.
LEMMA ReleaseFrees ==
    ASSUME TypeOK, WhereInv, [Next]_vars, Untroubled', NEW m \in Messages,
           hpc'[m] = "write", hpc[m] # "write", NEW e \in Events
    PROVE  m[1] \notin processing'[e]
<1>1. ~Fault /\ ~Crash
    BY NothingFailed
<1>2. CASE RequestStep \/ ProcessorStep \/ UNCHANGED vars
    <2>1. UNCHANGED hpc
        BY <1>2 DEF RequestStep, JoinQueue, JoinCreate, JoinEnqueue, JoinActivate, JoinUpdate,
               LeaveQueue, LeaveGet, LeaveRemove, LeaveCount, LeaveDeactivate, LeaveMark,
               LeaveWrite, ProcessorStep, ProcessTick, ProcessCount, ProcessPop, AdmitCheck,
               AdmitToken, AdmitWrite, AdmitSlot, AdmitRollback, AdmitRestore, AdmitReady,
               AdmitTimeout, hdlVars, vars
    <2> QED BY <2>1
<1>3. CASE CheckoutStep
    <2>1. PICK n \in Messages : CheckoutPublish(n) \/ HandleCheckout(n)
        BY <1>3 DEF CheckoutStep
    <2>2. hpc \in [Messages -> {"none", "sent", "token", "blacklist", "release", "write",
                                "done", "skipped"}]
        BY DEF TypeOK, HandlerType, OutcomeType
    <2>3. CASE HandlerRelease(n)
        <3>1. processing' = Freed(n) /\ hpc' = [hpc EXCEPT ![n] = "write"]
            BY <1>1, <2>3 DEF HandlerRelease, HandlerAt
        <3>2. n = m
            BY <2>2, <3>1
        <3>3. m[1] \in processing[e] => EventOf[m[1]] = e
            BY DEF WhereInv
        <3> QED BY <3>1, <3>2, <3>3 DEF Freed, TypeOK, StoreType
    <2>4. CASE ~HandlerRelease(n)
        <3>1. \E to \in {"sent", "token", "blacklist", "release", "skipped", "done"} :
                  hpc' = [hpc EXCEPT ![n] = to]
            BY <2>1, <2>4 DEF CheckoutPublish, HandleCheckout, HandlerGet, HandlerToken,
                   HandlerBlacklist, HandlerWrite, HandlerAt, Unmarked
        <3> QED BY <2>2, <3>1
    <2> QED BY <2>3, <2>4
<1>4. CASE EnvironmentStep
    BY <1>1, <1>4 DEF EnvironmentStep, ClockTick, SessionLapse, SessionEvict,
           ProcessingExpire, hdlVars
<1> QED BY <1>2, <1>3, <1>4 DEF Next

\* The processor comes to AddToProcessing only from its write.
LEMMA SlotFollowsWrite ==
    ASSUME TypeOK, [Next]_vars, ppc' = "slot"
    PROVE  ppc \in {"write", "slot"}
<1>1. CASE RequestStep \/ CheckoutStep \/ EnvironmentStep \/ UNCHANGED vars
    BY <1>1, OthersOnlyFree DEF procVars
<1>2. CASE ProcessorStep
    BY <1>2 DEF ProcessorStep, ProcessTick, ProcessCount, ProcessPop, AdmitCheck,
           AdmitToken, AdmitWrite, AdmitSlot, AdmitRollback, AdmitRestore, AdmitReady,
           AdmitTimeout, Retry, Admit, Advance, NextEvent
<1> QED BY <1>1, <1>2 DEF Next

\* Every step without a failed call keeps the held places live.
LEMMA HeldStep ==
    ASSUME TypeOK, WhereInv, NotifyInv, EntriesInv, RecordKept, BeforeWrite,
           HeldPlaceIsLive, [Next]_vars, Untroubled'
    PROVE  HeldPlaceIsLive'
<1> SUFFICES ASSUME NEW e \in Events, NEW s \in processing'[e], s \notin lapsed',
                    s \notin Pollers
             PROVE  /\ s \in Notified' \/ (ppc' = "ready" /\ user' = s)
                    /\ \A m \in Messages : m[1] = s => hpc'[m] \notin {"write", "done"}
    BY DEF HeldPlaceIsLive
<1>1. Untroubled
    BY NothingFailed
<1>2. CASE s \in processing[e]
    <2>1. s \in Sessions
        BY <1>2 DEF TypeOK, StoreType
    <2>2. s \notin lapsed
        BY <2>1, BeginsWithRecord
    <2>3. /\ s \in Notified \/ (ppc = "ready" /\ user = s)
          /\ \A m \in Messages : m[1] = s => hpc[m] \notin {"write", "done"}
        BY <1>1, <1>2, <2>2 DEF HeldPlaceIsLive
    <2>4. s \in Notified' \/ (ppc' = "ready" /\ user' = s)
        BY <2>1, <2>3, WriteIsPast, AnnouncedStays, SlotFollowsWrite DEF PastWrite
    <2>5. ASSUME NEW m \in Messages, m[1] = s
          PROVE  hpc'[m] \notin {"write", "done"}
        <3>1. hpc[m] \notin {"write", "done"}
            BY <2>3, <2>5
        <3>2. hpc'[m] # "write"
            BY <2>5, <3>1, ReleaseFrees
        <3>3. ~(hpc[m] = "sent" /\ session[s] = None)
            <4>1. hpc[m] # "none" => Entered(s)
                BY <1>1, <2>1, <2>5, OutcomeIsPast, WrittenOnce
            <4> QED BY <2>1, <2>2, <4>1 DEF RecordKept, Entered
        <3> QED BY <2>5, <3>1, <3>2, <3>3, OutcomeEnds
    <2> QED BY <2>4, <2>5
<1>3. CASE s \notin processing[e]
    <2>1. ppc = "slot" /\ ppc' = "ready" /\ user = s /\ user' = s
        BY <1>3, PlaceBegins
    <2>2. s \in Sessions /\ s \in batch /\ s \notin Notified
        BY <1>1, <2>1, AnnouncedOnce DEF TypeOK, ProcType
    <2>3. ASSUME NEW m \in Messages, m[1] = s
          PROVE  hpc'[m] = "none"
        <3>1. hpc[m] = "none"
            BY <2>2, <2>3 DEF RecordKept
        <3> QED BY <2>2, <2>3, <3>1, OutcomeBegins
    <2> QED BY <2>1, <2>3
<1> QED BY <1>2, <1>3

-----------------------------------------------------------------------------
(* NoneLost. *)

\* Where NoneLost finds a session.
Somewhere(s) == s \in queue[EventOf[s]] \cup InFlight(EventOf[s]) \cup Notified

\* The requests lose no session but the one whose user leaves.
LEMMA RequestLosesNone ==
    ASSUME TypeOK, NoneLost, RequestStep, Untroubled, Untroubled', ~Fault,
           NEW s \in Sessions, Joined(s)', s \notin lapsed, lpc[s] = "idle"
    PROVE  Somewhere(s)'
<1>1. PICK t \in Sessions : JoinQueue(t) \/ LeaveQueue(t)
    BY DEF RequestStep
<1>2. UNCHANGED <<ready, event, batch>>
    BY <1>1 DEF JoinQueue, JoinCreate, JoinEnqueue, JoinActivate, JoinUpdate, LeaveQueue,
           LeaveGet, LeaveRemove, LeaveCount, LeaveDeactivate, LeaveMark, LeaveWrite, procVars
<1>3. EventOf[s] \in Events /\ queue \in [Events -> SUBSET Sessions]
      /\ DOMAIN jpc = Sessions
    BY SessionsAssumption DEF TypeOK, StoreType, HandlerType, JoinType
<1>4. CASE Joined(s)
    <2>1. Somewhere(s)
        BY <1>4 DEF NoneLost, Somewhere
    <2>2. s \in queue[EventOf[s]] => s \in queue'[EventOf[s]]
        <3>1. CASE JoinQueue(t)
            <4>1. queue' = queue \/ queue' = Enqueued(t)
                BY <3>1 DEF JoinQueue, JoinCreate, JoinEnqueue, JoinActivate, JoinUpdate,
                       ZAdd
            <4> QED BY <1>3, <4>1, SessionsAssumption DEF Enqueued
        <3>2. CASE LeaveQueue(t)
            <4>1. queue' = queue \/ (queue' = Dequeued(t) /\ lpc[t] = "remove")
                BY <3>2 DEF LeaveQueue, LeaveGet, LeaveRemove, LeaveCount, LeaveDeactivate,
                       LeaveMark, LeaveWrite, LeaveAt, LeaveFault, redisVars
            <4> QED BY <1>3, <4>1, SessionsAssumption DEF Dequeued
        <3> QED BY <1>1, <3>1, <3>2
    <2> QED BY <1>2, <2>1, <2>2 DEF Somewhere, InFlight, Notified
<1>5. CASE ~Joined(s)
    <2>1. JoinEnqueue(t) /\ t = s
        <3>1. CASE LeaveQueue(t)
            BY <1>5, <3>1 DEF LeaveQueue, LeaveGet, LeaveRemove, LeaveCount,
                   LeaveDeactivate, LeaveMark, LeaveWrite, joinVars, Joined
        <3>2. CASE JoinCreate(t)
            BY <1>3, <1>5, <3>2 DEF JoinCreate, JoinAt, Joined
        <3>3. CASE JoinActivate(t) \/ JoinUpdate(t)
            BY <1>3, <1>5, <3>3 DEF JoinActivate, JoinUpdate, JoinAt, Joined
        <3>4. CASE JoinEnqueue(t)
            BY <1>3, <1>5, <3>4 DEF JoinEnqueue, JoinAt, Joined
        <3> QED BY <1>1, <3>1, <3>2, <3>3, <3>4 DEF JoinQueue
    <2>2. queue' = Enqueued(s)
        BY <2>1 DEF JoinEnqueue, ZAdd
    <2> QED BY <1>3, <2>2 DEF Somewhere, Enqueued
<1> QED BY <1>4, <1>5

\* An unlapsed session that nobody asked to leave is never given up on: its record is
\* still there, and still queued when the processor looks.
LEMMA NotGivenUp ==
    ASSUME TypeOK, WhereInv, NotifyInv, EntriesInv, RecordKept, BeforeWrite, Untroubled,
           ~Fault, user \in Sessions, user \notin lapsed, lpc[user] = "idle",
           AdmitCheck \/ AdmitToken
    PROVE  \E to \in {"token", "write"} : Advance(to)
<1>1. user \in InFlight(event) /\ event \in Events /\ ppc \in {"admit", "token"}
    BY DEF AdmitCheck, AdmitToken, TypeOK, ProcType, InFlight
<1>2. Entered(user)
    BY <1>1, HolderEntered DEF InFlight
<1>3. ~PastWrite(user)
    BY <1>1, WrittenOnce
<1>4. session[user] # None /\ session[user].status = "queued"
    BY <1>2, <1>3 DEF RecordKept, BeforeWrite, Entered
<1> QED BY <1>4 DEF AdmitCheck, AdmitToken, CanAdmit

\* The processor takes a session from the queue into its batch, and drops it from the
\* batch when it announced it.
LEMMA ProcessorLosesNone ==
    ASSUME TypeOK, WhereInv, NotifyInv, EntriesInv, RecordKept, BeforeWrite, NoneLost,
           ppc \notin {"rollback", "restore"}, ProcessorStep, Untroubled, ~Fault,
           NEW s \in Sessions, Joined(s)', s \notin lapsed, lpc[s] = "idle"
    PROVE  Somewhere(s)'
<1>1. EventOf[s] \in Events /\ queue \in [Events -> SUBSET Sessions]
    BY SessionsAssumption DEF TypeOK, StoreType
<1>2. Somewhere(s)
    <2>1. UNCHANGED jpc
        BY DEF ProcessorStep, ProcessTick, ProcessCount, ProcessPop, AdmitCheck, AdmitToken,
               AdmitWrite, AdmitSlot, AdmitRollback, AdmitRestore, AdmitReady, AdmitTimeout,
               joinVars
    <2> QED BY <2>1 DEF NoneLost, Joined, Somewhere
<1>3. Notified \subseteq Notified'
    BY AnnouncedStays DEF Next
<1>4. CASE ProcessTick \/ \E e \in Events : ProcessCount(e)
    <2>1. batch = {} /\ UNCHANGED queue
        BY <1>4 DEF ProcessTick, ProcessCount, TypeOK, ProcType, redisVars
    <2> QED BY <1>2, <1>3, <2>1 DEF Somewhere, InFlight
<1>5. CASE ProcessPop
    <2>1. /\ event \in Events /\ event # None /\ batch = {}
          /\ queue' = [queue EXCEPT ![event] = Left(queue[event])]
          /\ Admit(Popped(queue[event]))
        BY <1>5 DEF ProcessPop, TypeOK, ProcType
    <2>2. \A e \in Events : InFlight(e)' = IF e = event THEN Popped(queue[event]) ELSE {}
        BY <2>1, NoneAssumption DEF Admit, NextEvent, InFlight
    <2> QED BY <1>1, <1>2, <1>3, <2>1, <2>2 DEF Somewhere, InFlight, Left
<1>6. CASE AdmitReady
    <2>1. Admit(batch \ {user}) /\ UNCHANGED queue /\ user \in Notified'
        BY <1>6 DEF AdmitReady, redisVars, Notified
    <2> QED BY <1>2, <1>3, <2>1 DEF Somewhere, InFlight, Admit, NextEvent
<1>7. CASE AdmitCheck \/ AdmitToken
    <2>1. UNCHANGED queue
        BY <1>7 DEF AdmitCheck, AdmitToken, redisVars
    <2>2. CASE user = s
        BY <1>2, <1>3, <1>7, <2>1, <2>2, NotGivenUp DEF Somewhere, InFlight, Advance
    <2>3. CASE user # s
        <3>1. Advance("token") \/ Advance("write") \/ Retry
            BY <1>7 DEF AdmitCheck, AdmitToken
        <3> QED BY <1>2, <1>3, <2>1, <2>3, <3>1
                DEF Somewhere, InFlight, Advance, Retry, Admit, NextEvent
    <2> QED BY <2>2, <2>3
<1>8. CASE AdmitWrite \/ AdmitSlot
    <2>1. UNCHANGED <<queue, event, batch>>
        BY <1>8 DEF AdmitWrite, AdmitSlot, Advance
    <2> QED BY <1>2, <1>3, <2>1 DEF Somewhere, InFlight
<1> QED BY <1>4, <1>5, <1>6, <1>7, <1>8
        DEF ProcessorStep, AdmitRollback, AdmitRestore, AdmitTimeout

\* Every step without a failed call keeps every session in the queue, in the batch or
\* announced.
LEMMA LostStep ==
    ASSUME TypeOK, WhereInv, NotifyInv, EntriesInv, RecordKept, BeforeWrite, NoneLost,
           ppc \notin {"rollback", "restore"}, [Next]_vars, Untroubled'
    PROVE  NoneLost'
<1> SUFFICES ASSUME NEW s \in Sessions, Joined(s)', s \notin lapsed', lpc'[s] = "idle"
             PROVE  Somewhere(s)'
    BY DEF NoneLost, Somewhere
<1>1. Untroubled /\ ~Fault /\ ~Crash
    BY NothingFailed
<1>2. s \notin lapsed /\ lpc[s] = "idle"
    BY BeginsWithRecord, LeaveCopies
<1>3. CASE CheckoutStep \/ EnvironmentStep \/ UNCHANGED vars
    <2>1. UNCHANGED <<jpc, queue, ready, event, batch>>
        BY <1>1, <1>3 DEF CheckoutStep, CheckoutPublish, HandleCheckout, HandlerGet,
               HandlerToken, HandlerBlacklist, HandlerRelease, HandlerWrite, EnvironmentStep,
               ClockTick, SessionLapse, SessionEvict, ProcessingExpire, redisVars, envVars,
               joinVars, procVars, vars
    <2>2. Joined(s)
        BY <2>1 DEF Joined
    <2> QED BY <1>1, <1>2, <2>1, <2>2 DEF NoneLost, Somewhere, InFlight, Notified
<1> QED BY <1>1, <1>2, <1>3, RequestLosesNone, ProcessorLosesNone DEF Next

-----------------------------------------------------------------------------
(* The theorems. *)

\* At the start there is no record, no outcome and no place.
LEMMA RecordInit == Init => RecordInv
BY NoneAssumption
   DEF Init, RecordInv, RecordKept, NoneLost, HeldPlaceIsLive, BeforeWrite, AfterOutcome,
       QueuedHasNoToken, Joined

\* Every step keeps what the records say.
LEMMA RecordStep ==
    ASSUME TypeOK, WhereInv, NotifyInv, EntriesInv, RecordInv, [Next]_vars
    PROVE  RecordInv'
<1>1. RecordKept'
    BY KeptStep DEF RecordInv
<1>2. CASE Untroubled'
    <2>1. RecordKept /\ NoneLost /\ HeldPlaceIsLive /\ BeforeWrite /\ AfterOutcome
          /\ QueuedHasNoToken /\ ppc \notin {"rollback", "restore"}
        BY <1>2, NothingFailed DEF RecordInv
    <2>2. BeforeWrite' /\ AfterOutcome' /\ QueuedHasNoToken'
        BY <1>2, <2>1, BeforeStep, AfterStep, QueuedStep
    <2>3. NoneLost' /\ HeldPlaceIsLive'
        BY <1>2, <2>1, LostStep, HeldStep
    <2>4. ppc' \notin {"rollback", "restore"}
        BY <1>2, <2>1, NoRollback
    <2> QED BY <1>1, <2>2, <2>3, <2>4 DEF RecordInv
<1>3. CASE ~Untroubled'
    BY <1>1, <1>3 DEF RecordInv, NoneLost, HeldPlaceIsLive
<1> QED BY <1>2, <1>3

\* What the records say holds in every run of the service (RecordInv): until the
\* processor's write a record changes only by a LeaveQueue, and after an outcome's last
\* write nobody's older copy makes it admitted again.
THEOREM RecordCorrect == Spec => []RecordInv
<1> DEFINE Inv == TypeOK /\ WhereInv /\ NotifyInv /\ EntriesInv /\ RecordInv
<1>1. Init => Inv
    BY TypeInit, WhereInit, RecordInit
<1>2. Inv /\ [Next]_vars => Inv'
    BY TypeStep, WhereStep, EntriesStep, RecordStep
<1> QED BY <1>1, <1>2, PTL DEF Spec

\* As long as no call fails, a session that joined and neither lapsed nor left is in the
\* queue, in the batch being admitted, or announced: the pop, the retries and the
\* concurrent writes of its record lose none.
THEOREM NoneLostHolds == Spec => []NoneLost
<1>1. RecordInv => NoneLost
    BY DEF RecordInv
<1> QED BY <1>1, RecordCorrect, PTL

\* As long as no call fails, a place is held only by a session that is announced, or is
\* about to be, and whose checkout has not ended: AddToProcessing never follows the
\* RemoveFromProcessing of an outcome.
THEOREM HeldPlaceIsLiveHolds == Spec => []HeldPlaceIsLive
<1>1. RecordInv => HeldPlaceIsLive
    BY DEF RecordInv
<1> QED BY <1>1, RecordCorrect, PTL

\* As long as no call fails, no token of a session is accepted once the handler of one of
\* its outcomes ended, although JoinQueue, LeaveQueue and the other handlers write back
\* records they read earlier.
THEOREM SpentTokenStaysInvalidHolds == Spec => []SpentTokenStaysInvalid
<1>1. RecordInv => SpentTokenStaysInvalid
    BY DEF RecordInv, SpentTokenStaysInvalid, AfterOutcome, TokenValid
<1> QED BY <1>1, RecordCorrect, PTL
=============================================================================
