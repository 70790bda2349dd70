------------------------------ MODULE JoinLeave ------------------------------
(***************************************************************************)
(* The two request handlers that put a session into the queue and take it  *)
(* out: waitroomService.JoinQueue and LeaveQueue, with the calls they make *)
(* to QueueService and SessionService.  A session is joined once, by the   *)
(* request that created its id; only a client that got the id back can     *)
(* leave.  Publishing to pub/sub and the QUEUE_JOINED and QUEUE_LEFT       *)
(* events change no state kept here and never fail the request.  A request *)
(* that ends with an error is refused when its session has no entry in the *)
(* queue and failed when it has one.                                       *)
(***************************************************************************)
EXTENDS WaitroomState

JoinAt(s, from, to) == jpc[s] = from /\ jpc' = [jpc EXCEPT ![s] = to]

\* CreateSession stores the record: its QueuedAt is the clock and its status
\* queued.  When the call fails JoinQueue returns; a record that was stored
\* all the same has no queue entry, and nothing ever looks it up.
JoinCreate(s) ==
    /\ queuedAt' = [queuedAt EXCEPT ![s] = now]
    /\ \/ JoinAt(s, "idle", "enqueue") /\ UNCHANGED faults /\ Stored(s, NewSession)
       \/ /\ JoinAt(s, "idle", "refused")
          /\ Fault
          /\ Stored(s, NewSession) \/ UNCHANGED session
    /\ UNCHANGED <<queue, processing, active, blacklist, ready, now, lapsed, crashes>>
    /\ UNCHANGED <<entries, leaveVars, procVars, hdlVars>>

\* EnqueueSession: ZADD, then ZRANK for the reply.  A failed ZRANK, like the last
\* lost reply of ZADD, ends the request with the session already in the queue.
\* The driver sends a ZADD whose reply was lost again (MaxRetries), wherever the
\* session went after the first: it waits to do so in "resend".
JoinEnqueue(s) ==
    /\ \/ /\ JoinAt(s, "enqueue", "activate") \/ JoinAt(s, "resend", "activate")
          /\ ZAdd(s) /\ UNCHANGED faults
       \/ /\ \E to \in {"resend", "failed"} : JoinAt(s, "enqueue", to)
          /\ ZAdd(s) /\ Fault
       \/ /\ \E to \in {"resend", "failed"} : JoinAt(s, "resend", to)
          /\ ZAdd(s) \/ UNCHANGED <<queue, entries>>
          /\ Fault
       \/ JoinAt(s, "enqueue", "refused") /\ UNCHANGED <<queue, entries>> /\ Fault
    /\ UNCHANGED <<session, processing, active, blacklist, ready, now, lapsed, crashes>>
    /\ UNCHANGED <<queuedAt, leaveVars, procVars, hdlVars>>

\* EnqueueSession: SADD to the active events; a failure is only logged.
JoinActivate(s) ==
    /\ JoinAt(s, "activate", "update")
    /\ LET marked == active \cup {EventOf[s]}
       IN  \/ active' = marked /\ UNCHANGED faults
           \/ active' \in {active, marked} /\ Fault
    /\ UNCHANGED <<session, queue, processing, blacklist, ready, now, lapsed, crashes>>
    /\ UNCHANGED <<queuedAt, entries, leaveVars, procVars, hdlVars>>

\* UpdateSession writes the record JoinQueue built before the session was
\* visible in the queue.  GetQueueInfo only reads; when it fails the client
\* gets an error although everything is stored.
JoinUpdate(s) ==
    /\ \/ JoinAt(s, "update", "done") /\ UNCHANGED faults /\ Stored(s, NewSession)
       \/ /\ JoinAt(s, "update", "failed")
          /\ Fault
          /\ Stored(s, NewSession) \/ UNCHANGED session
    /\ UNCHANGED <<queue, processing, active, blacklist, ready, now, lapsed, crashes>>
    /\ UNCHANGED <<queuedAt, entries, leaveVars, procVars, hdlVars>>

JoinQueue(s) == JoinCreate(s) \/ JoinEnqueue(s) \/ JoinActivate(s) \/ JoinUpdate(s)

-----------------------------------------------------------------------------

LeaveAt(s, from, to) == lpc[s] = from /\ lpc' = [lpc EXCEPT ![s] = to]

LeaveFault(s, from) == LeaveAt(s, from, "failed") /\ Fault

\* GetSession: the record only supplies the event; its status is not looked at.
LeaveGet(s) ==
    /\ s \in Leavers /\ jpc[s] = "done"
    /\ \/ session[s] # None /\ LeaveAt(s, "idle", "remove") /\ UNCHANGED faults
       \/ session[s] = None /\ LeaveAt(s, "idle", "failed") /\ UNCHANGED faults
       \/ LeaveFault(s, "idle")
    /\ UNCHANGED <<redisVars, ready, now, lapsed, crashes>>
    /\ UNCHANGED <<joinVars, lcopy, procVars, hdlVars>>

\* DequeueSession: ZREM, which is no error when the session was already popped.
LeaveRemove(s) ==
    /\ \/ LeaveAt(s, "remove", "count") /\ UNCHANGED faults /\ queue' = Dequeued(s)
       \/ LeaveFault(s, "remove") /\ queue' \in {queue, Dequeued(s)}
    /\ UNCHANGED <<session, processing, active, blacklist, ready, now, lapsed, crashes>>
    /\ UNCHANGED <<joinVars, lcopy, procVars, hdlVars>>

\* DequeueSession: ZCARD decides whether the event is still active; a failure
\* is only logged.
LeaveCount(s) ==
    /\ \/ /\ UNCHANGED faults
          /\ LeaveAt(s, "count", IF queue[EventOf[s]] = {} THEN "deactivate" ELSE "mark")
       \/ Fault /\ LeaveAt(s, "count", "mark")
    /\ UNCHANGED <<redisVars, ready, now, lapsed, crashes>>
    /\ UNCHANGED <<joinVars, lcopy, procVars, hdlVars>>

\* DequeueSession: SREM from the active events, on the strength of that count.
LeaveDeactivate(s) ==
    /\ LeaveAt(s, "deactivate", "mark")
    /\ LET unmarked == active \ {EventOf[s]}
       IN  \/ active' = unmarked /\ UNCHANGED faults
           \/ active' \in {active, unmarked} /\ Fault
    /\ UNCHANGED <<session, queue, processing, blacklist, ready, now, lapsed, crashes>>
    /\ UNCHANGED <<joinVars, lcopy, procVars, hdlVars>>

\* UpdateStatus reads the record ...
LeaveMark(s) ==
    /\ \/ /\ session[s] # None
          /\ LeaveAt(s, "mark", "write")
          /\ lcopy' = [lcopy EXCEPT ![s] = session[s]]
          /\ UNCHANGED faults
       \/ /\ session[s] = None
          /\ LeaveAt(s, "mark", "failed")
          /\ UNCHANGED <<lcopy, faults>>
       \/ LeaveFault(s, "mark") /\ UNCHANGED lcopy
    /\ UNCHANGED <<redisVars, ready, now, lapsed, crashes>>
    /\ UNCHANGED <<joinVars, procVars, hdlVars>>

Abandoned(copy) == [copy EXCEPT !.status = "abandoned"]

\* ... and writes it back as abandoned.
LeaveWrite(s) ==
    /\ LET abandoned == Abandoned(lcopy[s])
       IN  \/ LeaveAt(s, "write", "done") /\ UNCHANGED faults /\ Stored(s, abandoned)
           \/ /\ LeaveFault(s, "write")
              /\ Stored(s, abandoned) \/ UNCHANGED session
    /\ lcopy' = [lcopy EXCEPT ![s] = None]
    /\ UNCHANGED <<queue, processing, active, blacklist, ready, now, lapsed, crashes>>
    /\ UNCHANGED <<joinVars, procVars, hdlVars>>

LeaveQueue(s) ==
    \/ LeaveGet(s)  \/ LeaveRemove(s) \/ LeaveCount(s) \/ LeaveDeactivate(s)
    \/ LeaveMark(s) \/ LeaveWrite(s)
=============================================================================
