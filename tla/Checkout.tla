------------------------------- MODULE Checkout -------------------------------
(***************************************************************************)
(* The checkout service and the Kafka handlers of its outcomes:            *)
(* waitroomService.HandleCheckoutCompleted, HandleCheckoutFailed and       *)
(* HandleCheckoutExpired, which differ only in the status they write.  The *)
(* consumer runs one goroutine per partition and each topic has ten, so    *)
(* the handlers of two messages may run at the same time.                  *)
(***************************************************************************)
EXTENDS WaitroomState

HasToken(s) == session[s] # None /\ session[s].token # 0

\* The checkout service reports an outcome for a session it was told of by
\* QUEUE_READY or, for the Pollers, one whose user polled its status and got
\* the token.
CheckoutPublish(m) ==
    /\ hpc[m] = "none"
    /\ \/ m[1] \in Notified
       \/ /\ m[1] \in Pollers /\ HasToken(m[1])
          /\ session[m[1]].status = "admitted"
    /\ hpc' = [hpc EXCEPT ![m] = "sent"]
    /\ UNCHANGED <<redisVars, envVars, joinVars, leaveVars, procVars, hcopy, hinv>>

HandlerAt(m, from, to) == hpc[m] = from /\ hpc' = [hpc EXCEPT ![m] = to]

\* A handler that returns an error leaves its message unmarked: it comes again
\* if the service restarts first, and is passed over once the offset of a later
\* message of the partition is marked.
Unmarked(m, from) == Fault /\ (HandlerAt(m, from, "sent") \/ HandlerAt(m, from, "skipped"))

\* GetSession; an unknown session is logged and the message marked.
HandlerGet(m) ==
    LET s == m[1]
    IN  /\ \/ /\ session[s] # None
              /\ HandlerAt(m, "sent", "token")
              /\ hcopy' = [hcopy EXCEPT ![m] = session[s]]
              /\ UNCHANGED faults
           \/ session[s] = None /\ HandlerAt(m, "sent", "done") /\ UNCHANGED <<hcopy, faults>>
           \/ Unmarked(m, "sent") /\ UNCHANGED hcopy
        /\ UNCHANGED <<redisVars, ready, now, lapsed, crashes>>
        /\ UNCHANGED <<joinVars, leaveVars, procVars, hinv>>

\* InvalidateToken reads the record once more; an error, or an empty token,
\* skips the invalidation.
HandlerToken(m) ==
    LET s == m[1]
    IN  /\ \/ /\ HasToken(s)
              /\ HandlerAt(m, "token", "blacklist")
              /\ hinv' = [hinv EXCEPT ![m] = session[s]]
              /\ UNCHANGED faults
           \/ /\ ~HasToken(s)
              /\ HandlerAt(m, "token", "release")
              /\ UNCHANGED <<hinv, faults>>
           \/ HandlerAt(m, "token", "release") /\ Fault /\ UNCHANGED hinv
        /\ UNCHANGED <<redisVars, ready, now, lapsed, crashes>>
        /\ UNCHANGED <<joinVars, leaveVars, procVars, hcopy>>

\* InvalidateToken's pipeline: SET of the blacklist key, then SET of the record
\* with TokenInvalidated; its error is only logged.
HandlerBlacklist(m) ==
    LET s == m[1]
        listed == blacklist \cup {<<s, hinv[m].token>>}
        marked == [hinv[m] EXCEPT !.inval = TRUE]
    IN  /\ HandlerAt(m, "blacklist", "release")
        /\ \/ UNCHANGED faults /\ blacklist' = listed /\ Stored(s, marked)
           \/ Fault /\ blacklist' = listed /\ (Stored(s, marked) \/ UNCHANGED session)
           \/ Fault /\ UNCHANGED <<blacklist, session>>
        /\ hinv' = [hinv EXCEPT ![m] = None]
        /\ UNCHANGED <<queue, processing, active, ready, now, lapsed, crashes>>
        /\ UNCHANGED <<joinVars, leaveVars, procVars, hcopy>>

\* A mutated form: only a session whose record says admitted gives its place back.
FreedIfAdmitted(m) ==
    IF hcopy[m].status # "admitted" THEN processing
    ELSE [processing EXCEPT ![EventOf[m[1]]] = @ \ {m[1]}]

Freed(m) == [processing EXCEPT ![EventOf[m[1]]] = @ \ {m[1]}]

\* RemoveFromProcessing: SREM; its error is only logged.
HandlerRelease(m) ==
    /\ HandlerAt(m, "release", "write")
    /\ \/ processing' = Freed(m) /\ UNCHANGED faults
       \/ processing' \in {processing, Freed(m)} /\ Fault
    /\ UNCHANGED <<session, queue, active, blacklist, ready, now, lapsed, crashes>>
    /\ UNCHANGED <<joinVars, leaveVars, procVars, hcopy, hinv>>

\* A mutated form: the handler leaves the status it read.
EndedAsRead(m) == hcopy[m]

Ended(m) == [hcopy[m] EXCEPT !.status = m[2]]

\* UpdateSession writes back the record read at the start, with the outcome as
\* its status.
HandlerWrite(m) ==
    /\ \/ HandlerAt(m, "write", "done") /\ UNCHANGED faults /\ Stored(m[1], Ended(m))
       \/ Unmarked(m, "write") /\ (Stored(m[1], Ended(m)) \/ UNCHANGED session)
    /\ hcopy' = [hcopy EXCEPT ![m] = None]
    /\ UNCHANGED <<queue, processing, active, blacklist, ready, now, lapsed, crashes>>
    /\ UNCHANGED <<joinVars, leaveVars, procVars, hinv>>

HandleCheckout(m) ==
    \/ HandlerGet(m) \/ HandlerToken(m) \/ HandlerBlacklist(m)
    \/ HandlerRelease(m) \/ HandlerWrite(m)
=============================================================================
