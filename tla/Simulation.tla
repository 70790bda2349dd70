------------------------------ MODULE Simulation ------------------------------
(***************************************************************************)
(* The waiting room under scripts/simulate-queue.go: a second program that *)
(* writes to the same Redis keys, past the service and its locks-by-order. *)
(* It loads demo sessions in pipelines, takes some out of the queue again  *)
(* and ends checkouts in the place of their users.                         *)
(***************************************************************************)
EXTENDS Waitroom

CONSTANTS
    Demo,        \* the sessions the script creates; JoinQueue creates the others
    DemoBatch,   \* -batch-size
    DemoEvent    \* -event

ASSUME DemoAssumption ==
    /\ Demo \subseteq Sessions \ Leavers /\ DemoBatch \in Nat \ {0} /\ DemoEvent \in Events
    /\ \A s \in Demo : EventOf[s] = DemoEvent
    /\ \A m \in Messages : m[1] \notin Demo

VARIABLES
    piped,    \* the sessions of the pipeline being executed
    stored,   \* those whose SET was applied
    added,    \* those of the pipeline whose ZADD was applied
    tracked,  \* sessionIDs, later activeSessions: the sessions that may leave
    spc,      \* where the script stands
    picked,   \* the sessions drawn for this round and not yet dealt with
    guest,    \* the one at hand
    scopy     \* the record read for it

Loading == <<piped, stored, added>>
scriptVars == <<piped, stored, added, tracked, spc, picked, guest, scopy>>
demoVars == <<vars, scriptVars>>

SimInit ==
    /\ Init
    /\ piped = {} /\ stored = {} /\ added = {} /\ tracked = {} /\ spc = "loading"
    /\ picked = {} /\ guest = None /\ scopy = None

-----------------------------------------------------------------------------
(* createAndEnqueueUsers. *)

\* The sessions not created so far.
Fresh == {s \in Demo \ stored : jpc[s] = "idle"}

\* A batch is built: QueuedAt is the clock plus some milliseconds, which may reach
\* the next second.
PipeOpen ==
    /\ spc = "loading" /\ piped = {} /\ Fresh # {}
    /\ \E B \in SUBSET Fresh :
           /\ Cardinality(B) = DemoBatch \/ (B = Fresh /\ Cardinality(B) < DemoBatch)
           /\ piped' = B
           /\ \E at \in [B -> {now, now + 1}] :
                  queuedAt' = [s \in Sessions |-> IF s \in B THEN at[s] ELSE queuedAt[s]]
    /\ UNCHANGED <<redisVars, envVars, jpc, entries, leaveVars, procVars, hdlVars>>
    /\ UNCHANGED <<stored, added, tracked, spc, picked, guest, scopy>>

\* The commands of a pipeline are applied in their order, and others in between: a
\* session's SET, its ZADD, and so on with the next ...
PipeSet(s) ==
    /\ s \in piped \ stored
    /\ piped \cap stored \subseteq added
    /\ stored' = stored \cup {s}
    /\ Stored(s, NewSession)
    /\ UNCHANGED <<queue, processing, active, blacklist, envVars, joinVars, leaveVars>>
    /\ UNCHANGED <<procVars, hdlVars, piped, added, tracked, spc, picked, guest, scopy>>

ZAddIsNext(s) ==
    /\ s \in (piped \cap stored) \ added
    /\ JoinAt(s, "idle", "piped") \/ JoinAt(s, "piped", "piped")
    /\ added' = added \cup {s}

\* A mutated form: the key of the sessions in checkout instead of the queue's.
PipeSAddPlace(s) ==
    /\ ZAddIsNext(s)
    /\ processing' = [processing EXCEPT ![DemoEvent] = @ \cup {s}]
    /\ UNCHANGED <<session, queue, active, blacklist, envVars, queuedAt, entries, leaveVars>>
    /\ UNCHANGED <<procVars, hdlVars, piped, stored, tracked, spc, picked, guest, scopy>>

PipeZAdd(s) ==
    /\ ZAddIsNext(s) /\ ZAdd(s)
    /\ UNCHANGED <<session, processing, active, blacklist, envVars, queuedAt, leaveVars>>
    /\ UNCHANGED <<procVars, hdlVars, piped, stored, tracked, spc, picked, guest, scopy>>

\* The replies are returned to the program: its sessions are no more sent again.
Returned ==
    /\ piped' = {} /\ added' = {}
    /\ jpc' = [s \in Sessions |-> IF jpc[s] = "piped" THEN "done" ELSE jpc[s]]

\* ... and the event's SADD at the end.  Its reply may be lost.
PipeSAdd ==
    /\ piped # {} /\ piped \subseteq added /\ Returned
    /\ active' = active \cup {DemoEvent}
    /\ \/ tracked' = tracked \cup piped /\ UNCHANGED faults
       \/ Fault /\ UNCHANGED tracked
    /\ UNCHANGED <<session, queue, processing, blacklist, ready, now, lapsed, crashes>>
    /\ UNCHANGED <<queuedAt, entries, leaveVars, procVars, hdlVars>>
    /\ UNCHANGED <<stored, spc, picked, guest, scopy>>

\* The connection breaks, after any of these calls, and the driver sends the whole
\* pipeline again (MaxRetries), wherever its sessions went in between.
PipeAgain ==
    /\ piped # {} /\ Fault
    /\ stored' = stored \ piped /\ added' = {}
    /\ \/ UNCHANGED active
       \/ piped \subseteq added /\ active' = active \cup {DemoEvent}
    /\ UNCHANGED <<session, queue, processing, blacklist, ready, now, lapsed, crashes>>
    /\ UNCHANGED <<joinVars, leaveVars, procVars, hdlVars, piped, tracked, spc, picked>>
    /\ UNCHANGED <<guest, scopy>>

\* It breaks for the last time: the rest of the pipeline is not applied, and the script
\* does not remember the batch.
PipeBreaks ==
    /\ piped # {} /\ Fault /\ Returned
    /\ stored' = stored \cup piped
    /\ UNCHANGED <<redisVars, ready, now, lapsed, crashes, queuedAt, entries, leaveVars>>
    /\ UNCHANGED <<procVars, hdlVars, tracked, spc, picked, guest, scopy>>

\* All are created; without -simulate the script ends here.
Loaded ==
    /\ spc = "loading" /\ piped = {} /\ Fresh = {}
    /\ spc' = "idle"
    /\ UNCHANGED <<vars, Loading, tracked, picked, guest, scopy>>

-----------------------------------------------------------------------------
(* runSimulation: one goroutine, a round at a time. *)

Goto(from, to) == spc = from /\ spc' = to

\* The round goes on with the sessions left, or at its end.
NextGuest(more, last, left) ==
    /\ picked' = left /\ guest' = None /\ scopy' = None
    /\ spc' = IF left = {} THEN last ELSE more

\* simulateRandomExits draws among the sessions it created, wherever they are now.
DrawExits ==
    /\ Goto("idle", "exit")
    /\ picked' \in SUBSET tracked \ {{}}
    /\ UNCHANGED <<vars, Loading, tracked, guest, scopy>>

\* ZREM; an error goes on with the next.
ExitRemove ==
    /\ spc = "exit"
    /\ \E s \in picked :
           \/ /\ queue' = Dequeued(s) /\ guest' = s /\ spc' = "exit-get"
              /\ UNCHANGED <<picked, scopy, faults>>
           \/ Fault /\ queue' \in {queue, Dequeued(s)} /\ NextGuest("exit", "count", picked \ {s})
    /\ UNCHANGED <<session, processing, active, blacklist, ready, now, lapsed, crashes>>
    /\ UNCHANGED <<joinVars, leaveVars, procVars, hdlVars, Loading, tracked>>

\* GET; its error is ignored, and a record that is missing or was not read is empty.
ExitGet ==
    /\ Goto("exit-get", "exit-set")
    /\ \/ scopy' = (IF session[guest] = None THEN NewSession ELSE session[guest])
          /\ UNCHANGED faults
       \/ Fault /\ scopy' = NewSession
    /\ UNCHANGED <<redisVars, ready, now, lapsed, crashes, joinVars, leaveVars, procVars>>
    /\ UNCHANGED <<hdlVars, Loading, tracked, picked, guest>>

\* What the script writes back: its Session type has no field for the invalidation
\* of the token.
WrittenBack(to) == [scopy EXCEPT !.status = to, !.inval = FALSE]

\* SET, whose error is ignored.
ExitSet ==
    /\ spc = "exit-set"
    /\ \/ Stored(guest, WrittenBack("abandoned")) /\ UNCHANGED faults
       \/ Fault /\ (Stored(guest, WrittenBack("abandoned")) \/ UNCHANGED session)
    /\ tracked' = tracked \ {guest}
    /\ NextGuest("exit", "count", picked \ {guest})
    /\ UNCHANGED <<queue, processing, active, blacklist, ready, now, lapsed, crashes>>
    /\ UNCHANGED <<joinVars, leaveVars, procVars, hdlVars, Loading>>

\* ZCARD; the count is 0 as well when the call fails.
ExitCount ==
    /\ \/ Goto("count", IF queue[DemoEvent] = {} THEN "deactivate" ELSE "idle") /\ UNCHANGED faults
       \/ Goto("count", "deactivate") /\ Fault
    /\ UNCHANGED <<redisVars, ready, now, lapsed, crashes, joinVars, leaveVars, procVars>>
    /\ UNCHANGED <<hdlVars, Loading, tracked, picked, guest, scopy>>

\* SREM of the event, whose error is ignored.
ExitDeactivate ==
    /\ Goto("deactivate", "idle")
    /\ \/ active' = active \ {DemoEvent} /\ UNCHANGED faults
       \/ Fault /\ active' \in {active, active \ {DemoEvent}}
    /\ UNCHANGED <<session, queue, processing, blacklist, ready, now, lapsed, crashes>>
    /\ UNCHANGED <<joinVars, leaveVars, procVars, hdlVars, Loading, tracked, picked, guest, scopy>>

\* simulateCheckoutCompletions draws among all that are in checkout, the users of
\* the service included.
DrawCheckouts ==
    /\ Goto("idle", "free")
    /\ picked' \in SUBSET processing[DemoEvent] \ {{}}
    /\ UNCHANGED <<vars, Loading, tracked, guest, scopy>>

\* SREM; an error goes on with the next.
FreeRemove ==
    /\ spc = "free"
    /\ \E s \in picked :
           LET freed == [processing EXCEPT ![DemoEvent] = @ \ {s}]
           IN  \/ /\ processing' = freed /\ guest' = s /\ spc' = "free-get"
                  /\ UNCHANGED <<picked, scopy, faults>>
               \/ Fault /\ processing' \in {processing, freed}
                  /\ NextGuest("free", "idle", picked \ {s})
    /\ UNCHANGED <<session, queue, active, blacklist, ready, now, lapsed, crashes>>
    /\ UNCHANGED <<joinVars, leaveVars, procVars, hdlVars, Loading, tracked>>

\* GET; without a record the next one is taken.
FreeGet ==
    /\ spc = "free-get"
    /\ \/ /\ session[guest] # None /\ scopy' = session[guest] /\ spc' = "free-set"
          /\ UNCHANGED <<picked, guest, faults>>
       \/ session[guest] = None /\ NextGuest("free", "idle", picked \ {guest}) /\ UNCHANGED faults
       \/ Fault /\ NextGuest("free", "idle", picked \ {guest})
    /\ UNCHANGED <<redisVars, ready, now, lapsed, crashes, joinVars, leaveVars, procVars>>
    /\ UNCHANGED <<hdlVars, Loading, tracked>>

\* SET, as completed or failed; its error is ignored.
FreeSet ==
    /\ spc = "free-set"
    /\ \E to \in {"completed", "failed"} :
           \/ Stored(guest, WrittenBack(to)) /\ UNCHANGED faults
           \/ Fault /\ (Stored(guest, WrittenBack(to)) \/ UNCHANGED session)
    /\ NextGuest("free", "idle", picked \ {guest})
    /\ UNCHANGED <<queue, processing, active, blacklist, ready, now, lapsed, crashes>>
    /\ UNCHANGED <<joinVars, leaveVars, procVars, hdlVars, Loading, tracked>>

-----------------------------------------------------------------------------

LoadStep ==
    \/ PipeOpen \/ PipeSAdd \/ PipeAgain \/ PipeBreaks
    \/ \E s \in Demo : PipeSet(s) \/ PipeZAdd(s)
ExitStep == DrawExits \/ ExitRemove \/ ExitGet \/ ExitSet \/ ExitCount \/ ExitDeactivate
CheckoutsStep == DrawCheckouts \/ FreeRemove \/ FreeGet \/ FreeSet
ScriptStep == LoadStep \/ Loaded \/ ExitStep \/ CheckoutsStep

\* The service runs on; JoinQueue is not called for the demo sessions.
ServiceStep ==
    Next /\ (\A s \in Demo : jpc'[s] = jpc[s]) /\ UNCHANGED scriptVars

SimSpec == SimInit /\ [][ServiceStep \/ ScriptStep]_demoVars

-----------------------------------------------------------------------------

\* Every variable has a value of its type.
SimType ==
    /\ TypeOK
    /\ piped \subseteq Demo /\ stored \subseteq Demo /\ added \subseteq piped
    /\ tracked \subseteq Demo
    /\ spc \in {"loading", "idle", "exit", "exit-get", "exit-set", "count", "deactivate",
                "free", "free-get", "free-set"}
    /\ picked \subseteq Sessions /\ guest \in Sessions \cup {None} /\ scopy \in Record
    /\ spc \in {"exit-get", "exit-set", "free-get", "free-set"} => guest # None
    /\ spc \in {"exit-set", "free-set"} => scopy \in SessionRecord

\* What every step of the service keeps, the script's steps keep as well, although it
\* follows none of the service's orders and its pipelines may be sent again: no more
\* sessions in checkout than places, none there that did not leave its event's queue
\* before, and none announced more often than it left.
ScriptKeepsPlaces == PlacesInv /\ WhereInv /\ NotifyInv
=============================================================================
