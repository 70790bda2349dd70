----------------------------- MODULE ServiceProofs -----------------------------
(***************************************************************************)
(* A graceful stop of the processor is complete, for any events, any batch *)
(* and however slow the calls are.  The whole of main implements           *)
(* ProcessorLifecycle, so that what holds of the processor's start and     *)
(* stop holds in the service; and main closes no connection that is in     *)
(* use.                                                                    *)
(***************************************************************************)
EXTENDS ServiceMain, TLAPS

-----------------------------------------------------------------------------
(* The processor's start and stop (ProcessorLifecycle). *)


\* Starting, the signal, Stop and the exit keep the invariant.
LEMMA MainKeeps ==
    ASSUME LifeInv, main # "exited", Start \/ MainSignal \/ MainStep
    PROVE  LifeInv'
<1> USE DEF LifeInv, TypeOK, GracefulIsComplete, sharedVars, loopVars, mainVars, Locking
<1>1. CASE Start
    BY <1>1 DEF Start
<1>2. CASE MainSignal
    BY <1>2 DEF MainSignal
<1>3. CASE StopEnter
    BY <1>3 DEF StopEnter, StopReturns
<1>4. CASE StopDone
    <2>1. loop = "ended" /\ left = 0 /\ ~dropped
        BY <1>4, MaxBatchAssumption DEF StopDone
    <2>2. TypeOK'
        BY <1>4 DEF StopDone, StopReturns
    <2>3. GracefulIsComplete'
        BY <1>4, <2>1 DEF StopDone, StopReturns
    <2> QED BY <1>4, <2>2, <2>3 DEF StopDone, StopReturns
<1>5. CASE StopTimeout
    BY <1>5 DEF StopTimeout, StopReturns
<1>6. CASE MainCancel
    BY <1>6 DEF MainCancel
<1>7. CASE MainExit
    BY <1>7, MaxBatchAssumption DEF MainExit
<1> QED BY <1>1, <1>2, <1>3, <1>4, <1>5, <1>6, <1>7 DEF MainStep

\* The goroutine's steps keep the invariant: once it has ended it takes none.
LEMMA LoopKeeps ==
    ASSUME LifeInv, main # "exited", TickerFires \/ LoopStep
    PROVE  LifeInv'
<1> USE DEF LifeInv, TypeOK, GracefulIsComplete, sharedVars, loopVars, mainVars, Locking, ToEvent
<1>1. CASE TickerFires
    BY <1>1 DEF TickerFires
<1>2. CASE LoopTick
    BY <1>2 DEF LoopTick
<1>3. CASE LoopQuit
    BY <1>3, MaxBatchAssumption DEF LoopQuit
<1>4. CASE LoopEvents
    BY <1>4 DEF LoopEvents
<1>5. CASE LoopPop
    BY <1>5, MaxBatchAssumption DEF LoopPop, Popped
<1>6. CASE LoopAdmit
    BY <1>6, MaxBatchAssumption DEF LoopAdmit
<1>7. CASE LoopLock
    BY <1>7 DEF LoopLock
<1> QED BY <1>1, <1>2, <1>3, <1>4, <1>5, <1>6, <1>7 DEF LoopStep

\* The initial states satisfy the invariant ...
LEMMA InitLife == Init => LifeInv
<1> SUFFICES ASSUME Init PROVE LifeInv
    OBVIOUS
<1>1. TypeOK
    <2>1. wg \in {0, 1} /\ left \in 0 .. MaxBatch /\ (loop = "admit" <=> left > 0)
        BY MaxBatchAssumption DEF Init
    <2>2. /\ isRunning \in BOOLEAN /\ stopped \in BOOLEAN /\ ticking \in BOOLEAN
          /\ tick \in BOOLEAN /\ cancelled \in BOOLEAN /\ dropped \in BOOLEAN
        BY Zenon DEF Init
    <2> QED BY <2>1, <2>2 DEF Init, TypeOK, Locking
<1>2. GracefulIsComplete
    BY DEF Init, GracefulIsComplete
<1> QED BY <1>1, <1>2 DEF Init, LifeInv

\* ... and every step keeps it.
LEMMA NextLife == LifeInv /\ [Next]_lvars => LifeInv'
<1> SUFFICES ASSUME LifeInv, [Next]_lvars PROVE LifeInv'
    OBVIOUS
<1>1. CASE Next
    BY <1>1, MainKeeps, LoopKeeps DEF Next
<1>2. CASE UNCHANGED lvars
    BY <1>2 DEF lvars, sharedVars, mainVars, loopVars, LifeInv, TypeOK, GracefulIsComplete
<1> QED BY <1>1, <1>2

\* Every run keeps main, the mutex, the wait group and the goroutine in step.
THEOREM LifeCorrect == Spec => []LifeInv
BY InitLife, NextLife, PTL DEF Spec

\* Every variable of the lifecycle keeps its type, for any events and batch size; a
\* pop in progress never holds more than it asked for.
THEOREM LifeTypeHolds == Spec => []TypeOK
<1>1. LifeInv => TypeOK
    BY DEF LifeInv
<1> QED BY <1>1, LifeCorrect, PTL

\* When Stop reports a graceful stop, the goroutine has ended and no popped session
\* lost its admission to the shutdown.
THEOREM GracefulIsCompleteHolds == Spec => []GracefulIsComplete
<1>1. LifeInv => GracefulIsComplete
    BY DEF LifeInv
<1> QED BY <1>1, LifeCorrect, PTL

-----------------------------------------------------------------------------
(* The whole of main. *)


\* Every step of the service is a step of the lifecycle or leaves it alone.
LEMMA StepRefines ==
    ASSUME [ServiceNext]_allVars
    PROVE  [Next]_lvars
<1>1. CASE UNCHANGED allVars
    BY <1>1 DEF allVars
<1>2. CASE BootStep
    BY <1>2 DEF BootStep, LoadConfig, Open, StartConsumer
<1>3. CASE ServiceNext /\ StartProcessor
    BY <1>3 DEF ServiceNext, StartProcessor, Next
<1>4. CASE ServeFails \/ CallBegins \/ CallEnds \/ StreamEnds \/ ConsumerStep \/ ConsumerEnds
    BY <1>4 DEF ServeFails, CallBegins, CallEnds, StreamEnds, ConsumerStep, ConsumerEnds
<1>5. CASE ServiceNext /\ (Signal \/ StopProcessor \/ Exit)
    BY <1>5 DEF ServiceNext, Signal, StopProcessor, Exit, Next, MainStep
<1>6. CASE Drain \/ Close
    BY <1>6 DEF Drain, Close
<1>7. CASE ServiceNext /\ (TickerFires \/ LoopStep)
    BY <1>7 DEF ServiceNext, Next
<1> QED BY <1>1, <1>2, <1>3, <1>4, <1>5, <1>6, <1>7 DEF ServiceNext, ShutdownStep

\* The service implements ProcessorLifecycle: its connections, RPCs and messages
\* add nothing to what Start, Stop and the goroutine can do.
THEOREM ServiceRefines == ServiceSpec => Spec
<1>1. ServiceInit => Init
    BY DEF ServiceInit
<1>2. [ServiceNext]_allVars => [Next]_lvars
    BY StepRefines
<1> QED BY <1>1, <1>2, PTL DEF ServiceSpec, Spec

-----------------------------------------------------------------------------

\* The invariant: the connections are closed in their order, and only when draining.
ServiceInv ==
    /\ LifeInv
    /\ ServiceType
    /\ draining => main \in {"sleep", "exited"}
    /\ main # "serving" /\ ~draining => opened = Listener
    /\ ClosedAfterUse

\* The start keeps the invariant: nothing drains before the service is up.
LEMMA BootKeeps ==
    ASSUME ServiceInv, LifeInv', main' = main, BootStep
    PROVE  ServiceInv'
<1> USE DEF ServiceInv, ServiceType, ClosedAfterUse, Listener, Group, Clients
<1>0. TypeOK' /\ UNCHANGED <<outcome, loop>>
    BY DEF BootStep, LoadConfig, Open, StartConsumer, LifeInv, lvars, mainVars, loopVars
<1>1. CASE LoadConfig
    <2>1. cfg' \in [port : Int, interval : Int, placeholder : BOOLEAN]
        BY <1>1, ServiceAssumption DEF LoadConfig, Load, Parsed, Env, Raw
    <2>2. died' \in BOOLEAN
        BY <1>1 DEF LoadConfig, Dies
    <2> QED BY <1>0, <1>1, <2>1, <2>2 DEF LoadConfig
<1>2. CASE Open
    <2>1. died' \in BOOLEAN
        BY <1>2, Zenon DEF Open, Dies
    <2>2. opened' \in 0 .. 5
        BY <1>2 DEF Open
    <2> QED BY <1>0, <1>2, <2>1, <2>2 DEF Open
<1>3. CASE StartConsumer
    BY <1>0, <1>3 DEF StartConsumer
<1> QED BY <1>1, <1>2, <1>3 DEF BootStep

\* Requests and messages keep it: none begins once the service drains.
LEMMA CallsKeep ==
    ASSUME ServiceInv, LifeInv', UNCHANGED lvars,
           ServeFails \/ CallBegins \/ CallEnds \/ StreamEnds \/ ConsumerStep \/ ConsumerEnds
    PROVE  ServiceInv'
<1> USE ServiceAssumption DEF ServiceInv, ServiceType, ClosedAfterUse, Listener, Group
<1>0. TypeOK' /\ UNCHANGED <<main, outcome, loop>>
    BY DEF LifeInv, lvars, mainVars, loopVars
<1>1. CASE ServeFails
    BY <1>0, <1>1 DEF ServeFails, Dies
<1>2. CASE CallBegins
    BY <1>0, <1>2 DEF CallBegins, Serving
<1>3. CASE CallEnds
    BY <1>0, <1>3 DEF CallEnds
<1>4. CASE StreamEnds
    BY <1>0, <1>4 DEF StreamEnds
<1>5. CASE ConsumerStep
    BY <1>0, <1>5 DEF ConsumerStep
<1>6. CASE ConsumerEnds
    BY <1>0, <1>6 DEF ConsumerEnds
<1> QED BY <1>1, <1>2, <1>3, <1>4, <1>5, <1>6

\* Draining and closing keep it: a connection is closed when its users are gone.
LEMMA CloseKeeps ==
    ASSUME ServiceInv, LifeInv', UNCHANGED lvars, Drain \/ Close
    PROVE  ServiceInv'
<1> USE DEF ServiceInv, ServiceType, ClosedAfterUse, Listener, Group
<1>0. TypeOK' /\ UNCHANGED <<main, outcome, loop>>
    BY DEF LifeInv, lvars, mainVars, loopVars
<1>1. CASE Drain
    <2>1. outcome = "graceful" => loop = "ended"
        BY DEF LifeInv, GracefulIsComplete
    <2>2. draining' /\ main' = "sleep" /\ opened' = 5 /\ UNCHANGED <<cfg, died, cons, calls, streams>>
        BY <1>0, <1>1 DEF Drain
    <2> QED BY <1>0, <2>1, <2>2
<1>2. CASE Close
    BY <1>0, <1>2 DEF Close, NoCalls, ConsumerReturned
<1> QED BY <1>1, <1>2

\* The steps of the lifecycle keep it.
LEMMA LifeKeeps ==
    ASSUME ServiceInv, LifeInv', UNCHANGED <<cfg, opened, cons, calls, streams, draining>>,
           died' \in BOOLEAN, draining => main' \in {"sleep", "exited"},
           main' # "serving" => main # "serving" \/ opened = Listener
    PROVE  ServiceInv'
<1> USE DEF ServiceInv, ServiceType, ClosedAfterUse
<1>1. TypeOK' /\ GracefulIsComplete'
    BY DEF LifeInv
<1>2. ServiceType'
    BY <1>1
<1>3. ClosedAfterUse'
    BY <1>1 DEF GracefulIsComplete
<1> QED BY <1>2, <1>3

\* Every run keeps it.
THEOREM ServiceCorrect == ServiceSpec => []ServiceInv
<1>1. ServiceInit => ServiceInv
    <2> SUFFICES ASSUME ServiceInit PROVE ServiceInv
        OBVIOUS
    <2>1. LifeInv
        BY InitLife DEF ServiceInit
    <2>2. died \in BOOLEAN /\ draining \in BOOLEAN
        BY Zenon DEF ServiceInit
    <2>3. cfg \in [port : Int, interval : Int, placeholder : BOOLEAN]
        BY DEF ServiceInit, NoConfig
    <2>4. opened \in 0 .. 5 /\ calls \in 0 .. MaxCalls /\ streams \in 0 .. MaxCalls
        BY ServiceAssumption DEF ServiceInit
    <2>5. ServiceType
        BY <2>1, <2>2, <2>3, <2>4 DEF ServiceInit, ServiceType, LifeInv, Listener
    <2>6. main = "serving"
        BY DEF ServiceInit, Init
    <2> QED BY <2>1, <2>5, <2>6 DEF ServiceInit, ServiceInv, ClosedAfterUse
<1>2. ServiceInv /\ [ServiceNext]_allVars => ServiceInv'
    <2> SUFFICES ASSUME ServiceInv, [ServiceNext]_allVars PROVE ServiceInv'
        OBVIOUS
    <2>1. LifeInv'
        BY StepRefines, NextLife DEF ServiceInv
    <2>2. died \in BOOLEAN
        BY DEF ServiceInv, ServiceType
    <2>0. draining => main \in {"sleep", "exited"}
        BY DEF ServiceInv
    <2>3. CASE UNCHANGED allVars
        BY <2>0, <2>1, <2>2, <2>3, LifeKeeps DEF allVars, serviceVars, lvars, mainVars
    <2>4. CASE BootStep
        BY <2>1, <2>4, BootKeeps DEF BootStep, LoadConfig, Open, StartConsumer, lvars, mainVars
    <2>5. CASE StartProcessor
        <3>1. died' \in BOOLEAN /\ UNCHANGED <<cfg, opened, cons, calls, streams, draining>>
            BY <2>2, <2>5 DEF StartProcessor, Dies
        <3>2. main' = main
            BY <2>5 DEF StartProcessor, Start, lvars, mainVars
        <3> QED BY <2>0, <2>1, <3>1, <3>2, LifeKeeps
    <2>6. CASE ServeFails \/ CallBegins \/ CallEnds \/ StreamEnds \/ ConsumerStep \/ ConsumerEnds
        <3>1. UNCHANGED lvars
            BY <2>6 DEF ServeFails, CallBegins, CallEnds, StreamEnds, ConsumerStep, ConsumerEnds
        <3> QED BY <2>1, <2>6, <3>1, CallsKeep
    <2>7. CASE Signal
        <3>1. UNCHANGED serviceVars /\ main = "serving" /\ opened = Listener
            BY <2>7 DEF Signal, MainSignal
        <3>2. ~draining
            BY <3>1, <2>0
        <3> QED BY <2>1, <2>2, <3>1, <3>2, LifeKeeps DEF serviceVars
    <2>8. CASE StopProcessor \/ Exit
        <3>1. UNCHANGED serviceVars
            BY <2>8 DEF StopProcessor, Exit
        <3>2. /\ draining => main' \in {"sleep", "exited"}
              /\ main # "serving"
            <4>1. ASSUME StopProcessor PROVE main \notin {"serving", "sleep", "exited"}
                BY <4>1 DEF StopProcessor, StopEnter, StopDone, StopTimeout, MainCancel
            <4>2. ASSUME Exit PROVE main = "sleep" /\ main' = "exited"
                BY <4>2 DEF Exit, MainExit
            <4> QED BY <2>0, <2>8, <4>1, <4>2
        <3> QED BY <2>1, <2>2, <3>1, <3>2, LifeKeeps DEF serviceVars
    <2>9. CASE Drain \/ Close
        BY <2>1, <2>9, CloseKeeps DEF Drain, Close
    <2>10. CASE (TickerFires \/ LoopStep) /\ UNCHANGED serviceVars
        <3>1. main' = main
            BY <2>10 DEF TickerFires, LoopStep, LoopTick, LoopQuit, LoopEvents, LoopPop, LoopAdmit,
                         LoopLock, mainVars
        <3> QED BY <2>0, <2>1, <2>2, <2>10, <3>1, LifeKeeps DEF serviceVars
    <2> QED BY <2>3, <2>4, <2>5, <2>6, <2>7, <2>8, <2>9, <2>10 DEF ServiceNext, ShutdownStep
<1> QED BY <1>1, <1>2, PTL DEF ServiceSpec

\* Whatever fails during the start, however many RPCs and messages there are and
\* however Stop returned: no connection is closed while somebody uses it.
THEOREM ClosedAfterUseHolds == ServiceSpec => []ClosedAfterUse
<1>1. ServiceInv => ClosedAfterUse
    BY DEF ServiceInv
<1> QED BY <1>1, ServiceCorrect, PTL

\* In the whole service every variable keeps its type.
THEOREM ServiceTypeHolds == ServiceSpec => []ServiceType
<1>1. ServiceInv => ServiceType
    BY DEF ServiceInv
<1> QED BY <1>1, ServiceCorrect, PTL

\* In the whole service, too, a Stop that reports success has waited for the
\* goroutine and has cost no popped session its admission.
THEOREM GracefulInService == ServiceSpec => []GracefulIsComplete
BY ServiceRefines, GracefulIsCompleteHolds, PTL
=============================================================================
