------------------------------ MODULE Processor ------------------------------
(***************************************************************************)
(* The queue processor's goroutine: processAllQueues, ProcessEventQueue    *)
(* and the admission of one session with its retries and its rollback.  A  *)
(* single goroutine runs it, so its state is one program counter.          *)
(***************************************************************************)
EXTENDS WaitroomState

\* Where the goroutine goes when an event is finished.
NextEvent(left) ==
    /\ todo' = left
    /\ ppc' = IF left = {} THEN "idle" ELSE "pick"
    /\ event' = None /\ quota' = 0 /\ batch' = {} /\ user' = None /\ attempt' = 0
    /\ ucopy' = None

\* The loop over the popped sessions takes the next one, or the event is done.
Admit(left) ==
    IF left = {}
    THEN NextEvent(todo)
    ELSE /\ batch' = left /\ user' \in Heads(left) /\ attempt' = 1
         /\ ppc' = "admit" /\ ucopy' = None
         /\ UNCHANGED <<todo, event, quota>>

Advance(to) == ppc' = to /\ UNCHANGED <<todo, event, quota, batch, user, attempt>>

\* A mutated form: one attempt too many.
HasRetryOneMore == attempt <= RetryAttempts

HasRetry == attempt < RetryAttempts

\* withRetry: run doAdmitUserToCheckout again from its start, or give up on the
\* session.  A session given up is not put back into the queue.
Retry ==
    IF HasRetry
    THEN /\ attempt' = attempt + 1 /\ ppc' = "admit" /\ ucopy' = None
         /\ UNCHANGED <<todo, event, quota, batch, user>>
    ELSE Admit(batch \ {user})

-----------------------------------------------------------------------------

\* The ticker fires: SMEMBERS of the active events.  (When that fails the tick
\* does nothing.)
ProcessTick ==
    /\ ppc = "idle" /\ active # {}
    /\ todo' = active /\ ppc' = "pick"
    /\ UNCHANGED <<event, quota, batch, user, attempt, signed, ucopy>>
    /\ UNCHANGED <<redisVars, envVars, joinVars, leaveVars, hdlVars>>

\* Mutated forms: one place too many; the free places not heeded.
AvailableOneMore(e) == MaxConcurrent - Cardinality(processing[e]) + 1
BatchQuotaUncapped(available) == BatchSize

\* The free places that SCARD leaves, and the Go function min of the source.
Available(e) == MaxConcurrent - Cardinality(processing[e])
BatchQuota(available) == IF available < BatchSize THEN available ELSE BatchSize

\* ProcessEventQueue: SCARD gives the free slots, and with BatchSize the quota.
ProcessCount(e) ==
    /\ ppc = "pick" /\ e \in todo
    /\ \/ /\ Available(e) > 0
          /\ quota' = BatchQuota(Available(e))
          /\ event' = e /\ todo' = todo \ {e} /\ ppc' = "pop"
          /\ UNCHANGED <<batch, user, attempt, ucopy, faults>>
       \/ Available(e) <= 0 /\ NextEvent(todo \ {e}) /\ UNCHANGED faults
       \/ Fault /\ NextEvent(todo \ {e})
    /\ UNCHANGED <<redisVars, ready, now, lapsed, crashes>>
    /\ UNCHANGED <<signed, joinVars, leaveVars, hdlVars>>

\* Mutated forms of the script: no ZREM; a ZREM of one member more than returned.
LeftAll(Q) == Q
LeftOneLess(Q) == Q \ ZRangeTo(Q, quota)

\* What the script returns and what it leaves of the sorted set.
Popped(Q) == ZRangeTo(Q, quota - 1)
Left(Q) == Q \ Popped(Q)

\* PopFromQueue: the script takes ZRANGE 0 count-1 out of the queue.  When its
\* reply is lost either the error comes back with the members gone, or the
\* driver runs the script a second time and the first members are gone.
ProcessPop ==
    /\ ppc = "pop"
    /\ LET waiting == queue[event]
           rest == Left(waiting)
           Leaving(Q) == queue' = [queue EXCEPT ![event] = Q]
       IN  \/ Leaving(rest) /\ Admit(Popped(waiting)) /\ UNCHANGED faults
           \/ Fault /\ NextEvent(todo) /\ (UNCHANGED queue \/ Leaving(rest))
           \/ Fault /\ Leaving(Left(rest)) /\ Admit(Popped(rest))
    /\ UNCHANGED <<session, processing, active, blacklist, ready, now, lapsed, crashes>>
    /\ UNCHANGED <<signed, joinVars, leaveVars, hdlVars>>

\* doAdmitUserToCheckout: GetSession and CanAdmit; the token is signed locally.
AdmitCheck ==
    /\ ppc = "admit"
    /\ \/ /\ CanAdmit(user) /\ Advance("token")
          /\ signed' = [signed EXCEPT ![user] = @ + 1]
          /\ UNCHANGED <<ucopy, faults>>
       \/ ~CanAdmit(user) /\ Retry /\ UNCHANGED <<signed, faults>>
       \/ Fault /\ Retry /\ UNCHANGED signed
    /\ UNCHANGED <<redisVars, ready, now, lapsed, crashes>>
    /\ UNCHANGED <<joinVars, leaveVars, hdlVars>>

\* UpdateCheckoutToken reads the record again, and does not look at its status.
AdmitToken ==
    /\ ppc = "token"
    /\ \/ session[user] # None /\ Advance("write") /\ ucopy' = session[user] /\ UNCHANGED faults
       \/ session[user] = None /\ Retry /\ UNCHANGED faults
       \/ Fault /\ Retry
    /\ UNCHANGED <<redisVars, ready, now, lapsed, crashes>>
    /\ UNCHANGED <<signed, joinVars, leaveVars, hdlVars>>

\* UpdateCheckoutToken writes it back, admitted and with the token.
AdmitWrite ==
    /\ ppc = "write"
    /\ LET admitted == [ucopy EXCEPT !.status = "admitted", !.token = signed[user]]
       IN  \/ Stored(user, admitted) /\ Advance("slot") /\ ucopy' = None /\ UNCHANGED faults
           \/ Fault /\ Retry /\ (Stored(user, admitted) \/ UNCHANGED session)
    /\ UNCHANGED <<queue, processing, active, blacklist, ready, now, lapsed, crashes>>
    /\ UNCHANGED <<signed, joinVars, leaveVars, hdlVars>>

\* AddToProcessing: SADD, and EXPIRE of the whole set.  An error starts the
\* rollback even when the SADD was applied.
AdmitSlot ==
    /\ ppc = "slot"
    /\ LET taken == [processing EXCEPT ![event] = @ \cup {user}]
       IN  \/ processing' = taken /\ Advance("ready") /\ UNCHANGED faults
           \/ processing' \in {processing, taken} /\ Advance("rollback") /\ Fault
    /\ UNCHANGED <<session, queue, active, blacklist, ready, now, lapsed, crashes>>
    /\ UNCHANGED <<ucopy, signed, joinVars, leaveVars, hdlVars>>

\* The best-effort rollback, UpdateSessionStatus(queued): a read ...
AdmitRollback ==
    /\ ppc = "rollback"
    /\ \/ session[user] # None /\ Advance("restore") /\ ucopy' = session[user] /\ UNCHANGED faults
       \/ session[user] = None /\ Retry /\ UNCHANGED faults
       \/ Fault /\ Retry
    /\ UNCHANGED <<redisVars, ready, now, lapsed, crashes>>
    /\ UNCHANGED <<signed, joinVars, leaveVars, hdlVars>>

\* ... and a write, which keeps the token.  Its own error is ignored.
AdmitRestore ==
    /\ ppc = "restore"
    /\ Retry
    /\ LET queued == [ucopy EXCEPT !.status = "queued"]
       IN  \/ Stored(user, queued) /\ UNCHANGED faults
           \/ Fault /\ (Stored(user, queued) \/ UNCHANGED session)
    /\ UNCHANGED <<queue, processing, active, blacklist, ready, now, lapsed, crashes>>
    /\ UNCHANGED <<signed, joinVars, leaveVars, hdlVars>>

\* A mutated form: a failed publish is rolled back and tried again.
AdmitReadyRetried ==
    /\ ppc = "ready"
    /\ LET sent == ready \cup {<<user, signed[user]>>}
       IN  \/ ready' = sent /\ Admit(batch \ {user}) /\ UNCHANGED faults
           \/ ready' \in {ready, sent} /\ Advance("rollback") /\ Fault /\ UNCHANGED ucopy
    /\ UNCHANGED <<redisVars, now, lapsed, crashes>>
    /\ UNCHANGED <<signed, joinVars, leaveVars, hdlVars>>

\* PublishQueueReady; a failure is only logged, and the session counts as
\* admitted.
AdmitReady ==
    /\ ppc = "ready"
    /\ LET sent == ready \cup {<<user, signed[user]>>}
       IN  \/ ready' = sent /\ UNCHANGED faults
           \/ ready' \in {ready, sent} /\ Fault
    /\ Admit(batch \ {user})
    /\ UNCHANGED <<redisVars, now, lapsed, crashes>>
    /\ UNCHANGED <<signed, joinVars, leaveVars, hdlVars>>

\* The ten seconds of processingCtx run out during an admission: every Redis
\* call left fails, the rollback's too, and the rest of the batch is dropped.
AdmitTimeout ==
    /\ ppc \in {"admit", "token", "write", "slot", "rollback", "restore"}
    /\ Fault /\ NextEvent(todo)
    /\ UNCHANGED <<redisVars, ready, now, lapsed, crashes>>
    /\ UNCHANGED <<signed, joinVars, leaveVars, hdlVars>>

ProcessorStep ==
    \/ ProcessTick \/ (\E e \in Events : ProcessCount(e)) \/ ProcessPop
    \/ AdmitCheck \/ AdmitToken \/ AdmitWrite \/ AdmitSlot
    \/ AdmitRollback \/ AdmitRestore \/ AdmitReady \/ AdmitTimeout
=============================================================================
