-------------------------- MODULE ProcessorLifecycle --------------------------
(***************************************************************************)
(* Start and Stop of the queue processor as main uses them: one goroutine  *)
(* starts it, and on a signal main stops it, cancels the context of the    *)
(* service and exits.  They share with the processor's goroutine the mutex *)
(* mu, the channel stopCh and a wait group.  What a tick does to the queue *)
(* is in Processor; here a tick is a series of calls that may fail, and a  *)
(* number of popped sessions that wait for their admission.                *)
(***************************************************************************)
EXTENDS Integers, FiniteSets

CONSTANTS
    Events,     \* event ids
    MaxBatch,   \* bound on the sessions one pop returns
    SlowCalls   \* whether a tick may outlast ShutdownTimeout by itself

ASSUME MaxBatchAssumption == MaxBatch \in Nat
ASSUME SlowCallsAssumption == SlowCalls \in BOOLEAN

VARIABLES
    mu,         \* who holds the mutex across steps: nobody, or Stop
    isRunning,
    stopped,    \* stopCh is closed
    ticking,    \* the ticker is on
    tick,       \* a tick waits in the ticker's channel, which has room for one
    cancelled,  \* main cancelled the context the goroutine was started with
    wg,         \* the wait group's counter
    starter,    \* the goroutine that calls Start: "pending" or "done"
    main,       \* where main stands
    outcome,    \* how Stop returned: "none", "notRunning", "graceful", "timeout"
    loop,       \* where the processor's goroutine stands
    todo,       \* events of this tick not yet processed
    left,       \* popped sessions not yet admitted or given up
    dropped     \* a popped session's admission failed because of the shutdown

mainVars == <<starter, main, outcome>>
sharedVars == <<mu, isRunning, stopped, ticking, cancelled, wg>>
loopVars == <<loop, todo, left, dropped>>
lvars == <<sharedVars, mainVars, loopVars, tick>>

\* Where the goroutine is about to lock mu to update a counter.
Locking == {"total", "errorEvent", "errorTick", "defer"}

Init ==
    /\ mu = "free" /\ isRunning = FALSE /\ stopped = FALSE /\ ticking = FALSE
    /\ tick = FALSE /\ cancelled = FALSE /\ wg = 0
    /\ starter = "pending" /\ main = "serving" /\ outcome = "none"
    /\ loop = "none" /\ todo = {} /\ left = 0 /\ dropped = FALSE

-----------------------------------------------------------------------------
(* Start, and main from the signal to its exit. *)

Start ==
    /\ starter = "pending" /\ mu = "free"
    /\ starter' = "done"
    /\ isRunning' = TRUE /\ ticking' = TRUE /\ wg' = wg + 1 /\ loop' = "select"
    /\ UNCHANGED <<mu, stopped, cancelled, main, outcome, todo, left, dropped, tick>>

\* A mutated form: the context is cancelled as soon as the signal arrives.
MainSignalCancels ==
    /\ main = "serving" /\ main' = "stop" /\ cancelled' = TRUE
    /\ UNCHANGED <<mu, isRunning, stopped, ticking, wg, starter, outcome, loopVars, tick>>

MainSignal ==
    /\ main = "serving" /\ main' = "stop"
    /\ UNCHANGED <<sharedVars, starter, outcome, loopVars, tick>>

\* Stop returns: the deferred Unlock.
StopReturns(how) == main' = "cancel" /\ outcome' = how /\ mu' = "free"

\* Stop locks mu, closes stopCh, stops the ticker, after which no tick is received
\* from its channel, and waits with mu locked.  When Start has not run yet, it returns
\* an error.
StopEnter ==
    /\ main = "stop" /\ mu = "free"
    /\ \/ /\ isRunning
          /\ mu' = "Stop" /\ stopped' = TRUE /\ main' = "waiting"
          /\ ticking' = FALSE /\ tick' = FALSE /\ UNCHANGED outcome
       \/ ~isRunning /\ StopReturns("notRunning") /\ UNCHANGED <<stopped, ticking, tick>>
    /\ UNCHANGED <<isRunning, cancelled, wg, starter, loopVars>>

StopDone ==
    /\ main = "waiting" /\ wg = 0
    /\ StopReturns("graceful") /\ isRunning' = FALSE
    /\ UNCHANGED <<stopped, ticking, cancelled, wg, starter, loopVars, tick>>

\* A mutated form: Stop waits without a timeout.
StopTimeoutNever == main = "waiting" /\ main = "stop" /\ UNCHANGED lvars

\* ShutdownTimeout runs out.  Unless calls are slow, thirty seconds pass only while
\* the goroutine cannot move.
StopTimeout ==
    /\ main = "waiting" /\ wg # 0
    /\ SlowCalls \/ loop \in Locking
    /\ StopReturns("timeout") /\ isRunning' = FALSE
    /\ UNCHANGED <<stopped, ticking, cancelled, wg, starter, loopVars, tick>>

MainCancel ==
    /\ main = "cancel" /\ main' = "sleep" /\ cancelled' = TRUE
    /\ UNCHANGED <<mu, isRunning, stopped, ticking, wg, starter, outcome, loopVars, tick>>

\* main sleeps a second, stops the gRPC server and returns: every goroutine ends.
MainExit ==
    /\ main = "sleep" /\ main' = "exited"
    /\ dropped' = (dropped \/ left > 0)
    /\ UNCHANGED <<sharedVars, starter, outcome, loop, todo, left, tick>>

-----------------------------------------------------------------------------
(* The processor's goroutine. *)

TickerFires ==
    /\ ticking /\ ~tick /\ tick' = TRUE
    /\ UNCHANGED <<sharedVars, mainVars, loopVars>>

\* The select of processLoop takes any case that is ready.
LoopTick ==
    /\ loop = "select" /\ tick
    /\ loop' = "tick" /\ tick' = FALSE
    /\ UNCHANGED <<sharedVars, mainVars, todo, left, dropped>>

LoopQuit ==
    /\ loop = "select" /\ (stopped \/ cancelled)
    /\ loop' = "ended" /\ wg' = wg - 1
    /\ UNCHANGED <<mu, isRunning, stopped, ticking, cancelled, mainVars>>
    /\ UNCHANGED <<todo, left, dropped, tick>>

\* The next event of the tick, or its end with the deferred function.
ToEvent(events) == todo' = events /\ loop' = IF events = {} THEN "defer" ELSE "event"

\* SMEMBERS of the active events: it fails for sure once the context is cancelled.
LoopEvents ==
    /\ loop = "tick"
    /\ \/ ~cancelled /\ \E active \in SUBSET Events : ToEvent(active)
       \/ loop' = "errorTick" /\ UNCHANGED todo
    /\ UNCHANGED <<sharedVars, mainVars, left, dropped, tick>>

\* A mutated form: one session more than the pop was asked for.
PoppedOneMore == 0 .. MaxBatch + 1

Popped == 0 .. MaxBatch

\* ProcessEventQueue up to its pop: an error, nothing to do, or a batch.
LoopPop ==
    /\ loop = "event"
    /\ \E e \in todo :
           \/ /\ ~cancelled
              /\ \E n \in Popped :
                     /\ left' = n
                     /\ \/ n = 0 /\ ToEvent(todo \ {e})
                        \/ n > 0 /\ loop' = "admit" /\ todo' = todo \ {e}
           \/ loop' = "errorEvent" /\ todo' = todo \ {e} /\ UNCHANGED left
    /\ UNCHANGED <<sharedVars, mainVars, dropped, tick>>

\* The admission of one session.  With the context cancelled its calls fail, and it
\* is neither admitted nor in the queue.
LoopAdmit ==
    /\ loop = "admit"
    /\ left' = left - 1
    /\ loop' = IF left = 1 THEN "total" ELSE "admit"
    /\ dropped' = (dropped \/ cancelled)
    /\ UNCHANGED <<sharedVars, mainVars, todo, tick>>

\* totalAdmitted, errorCount and lastProcessed are updated with mu locked.
LoopLock ==
    /\ loop \in Locking /\ mu = "free"
    /\ \/ loop \in {"total", "errorEvent"} /\ ToEvent(todo)
       \/ loop = "errorTick" /\ loop' = "defer" /\ UNCHANGED todo
       \/ loop = "defer" /\ loop' = "select" /\ UNCHANGED todo
    /\ UNCHANGED <<sharedVars, mainVars, left, dropped, tick>>

LoopStep == LoopTick \/ LoopQuit \/ LoopEvents \/ LoopPop \/ LoopAdmit \/ LoopLock

MainStep == StopEnter \/ StopDone \/ StopTimeout \/ MainCancel \/ MainExit

\* After main has returned nothing moves.
Next == main # "exited" /\ (Start \/ MainSignal \/ MainStep \/ TickerFires \/ LoopStep)

Spec == Init /\ [][Next]_lvars

-----------------------------------------------------------------------------

\* Every variable has a value of its type, the goroutine has a batch only while it
\* admits one, and a pop is never larger than asked for.
TypeOK ==
    /\ mu \in {"free", "Stop"}
    /\ isRunning \in BOOLEAN /\ stopped \in BOOLEAN /\ ticking \in BOOLEAN
    /\ tick \in BOOLEAN /\ cancelled \in BOOLEAN /\ dropped \in BOOLEAN /\ wg \in {0, 1}
    /\ starter \in {"pending", "done"}
    /\ main \in {"serving", "stop", "waiting", "cancel", "sleep", "exited"}
    /\ outcome \in {"none", "notRunning", "graceful", "timeout"}
    /\ loop \in {"none", "select", "tick", "event", "admit", "ended"} \cup Locking
    /\ todo \subseteq Events /\ left \in 0 .. MaxBatch
    /\ loop = "admit" <=> left > 0

\* A Stop that reports "Queue processor stopped gracefully" (queue_processor.go:141)
\* has waited for the goroutine, which never runs again, and the shutdown has cost
\* no popped session its admission.
GracefulIsComplete == outcome = "graceful" => loop = "ended" /\ left = 0 /\ ~dropped

\* main.go:137 says "Stop queue processor gracefully": while no call is slow, Stop
\* does not give the goroutine up.
StopIsGraceful == outcome # "timeout"

-----------------------------------------------------------------------------
(* The inductive invariant behind GracefulIsComplete (ServiceProofs). *)

LifeInv ==
    /\ TypeOK
    /\ wg = 0 <=> loop \in {"none", "ended"}
    /\ loop = "none" <=> starter = "pending"
    /\ isRunning => starter = "done"
    /\ main \in {"serving", "stop", "waiting"} => outcome = "none"
    /\ main = "waiting" <=> mu = "Stop"
    /\ main = "waiting" => isRunning
    /\ cancelled <=> main \in {"sleep", "exited"}
    /\ main \in {"serving", "stop", "waiting", "cancel"} => ~dropped
    /\ GracefulIsComplete
=============================================================================
