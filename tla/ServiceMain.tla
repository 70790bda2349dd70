------------------------------ MODULE ServiceMain ------------------------------
(***************************************************************************)
(* func main: the configuration, the connections it opens one after the    *)
(* other, the consumer, the processor and the gRPC server it starts, and   *)
(* its end, which stops the processor (ProcessorLifecycle), waits for the  *)
(* RPCs and closes the connections in reverse.  A step of main that fails  *)
(* before the service is up ends the process at once, without the          *)
(* deferred calls.                                                         *)
(***************************************************************************)
EXTENDS ProcessorLifecycle, Config

CONSTANTS
    Environments,  \* the environments the service may be started in
    MaxCalls       \* bound on the RPCs open at a time, of either kind

ASSUME ServiceAssumption == Environments \subseteq Env /\ MaxCalls \in Nat

VARIABLES
    cfg,       \* the configuration, NoConfig before it is loaded
    opened,    \* how many of the connections below are open; the last opened is the
               \* first closed
    died,      \* the process ended by Fatalf, os.Exit or a panic
    cons,      \* the consumer's goroutine: "none", "consuming", "handling", "ended"
    calls,     \* RPCs open that the server ends by itself
    streams,   \* position streams open, which end with their client
    draining   \* GracefulStop was called: no new RPC is accepted

serviceVars == <<cfg, opened, died, cons, calls, streams, draining>>

NoConfig == [port |-> 0, interval |-> 0, placeholder |-> FALSE]

\* Redis, the Kafka producer, the consumer group, the event service's client and
\* the listener of the gRPC server, in the order of main.
Redis == 1
Producer == 2
Group == 3
Clients == 4
Listener == 5

ServiceInit ==
    /\ Init
    /\ cfg = NoConfig /\ opened = 0 /\ died = FALSE /\ cons = "none"
    /\ calls = 0 /\ streams = 0 /\ draining = FALSE

Serving == opened = Listener /\ ~draining

-----------------------------------------------------------------------------
(* The start. *)

Dies == died' = TRUE

\* config.Load; an invalid configuration ends the process.
LoadConfig ==
    /\ cfg = NoConfig
    /\ \E env \in Environments :
           LET loaded == Load(env)
           IN  cfg' = loaded /\ IF Valid(loaded) THEN UNCHANGED died ELSE Dies
    /\ UNCHANGED <<lvars, opened, cons, calls, streams, draining>>

\* Connect with its ping, NewProducer, NewConsumer, NewEventClient and, once the
\* consumer runs, net.Listen: each opens its connection or ends the process.
Open ==
    /\ cfg # NoConfig /\ main = "serving"
    /\ opened < Clients \/ (opened = Clients /\ cons # "none")
    /\ \/ opened' = opened + 1 /\ UNCHANGED died
       \/ Dies /\ UNCHANGED opened
    /\ UNCHANGED <<lvars, cfg, cons, calls, streams, draining>>

\* cons.Start.
StartConsumer ==
    /\ opened = Clients /\ cons = "none" /\ main = "serving"
    /\ cons' = "consuming"
    /\ UNCHANGED <<lvars, cfg, opened, died, calls, streams, draining>>

\* A mutated form: an interval that is no interval is an error, which main logs.
StartRefused ==
    /\ cons # "none" /\ starter = "pending"
    /\ \/ cfg.interval > 0 /\ Start
       \/ /\ cfg.interval <= 0 /\ starter' = "done"
          /\ UNCHANGED <<sharedVars, main, outcome, loopVars, tick>>
    /\ UNCHANGED serviceVars

\* The goroutine that starts the processor, any time after the consumer was
\* started.  time.NewTicker panics unless the interval is positive.
StartProcessor ==
    /\ cons # "none"
    /\ \/ cfg.interval > 0 /\ Start /\ UNCHANGED died
       \/ cfg.interval <= 0 /\ starter = "pending" /\ mu = "free" /\ Dies /\ UNCHANGED lvars
    /\ UNCHANGED <<cfg, opened, cons, calls, streams, draining>>

\* Serve returns an error, which the goroutine answers with Fatalf.
ServeFails == Serving /\ Dies /\ UNCHANGED <<lvars, cfg, opened, cons, calls, streams, draining>>

-----------------------------------------------------------------------------
(* Requests and messages. *)

CallBegins ==
    /\ Serving
    /\ \/ calls < MaxCalls /\ calls' = calls + 1 /\ UNCHANGED streams
       \/ streams < MaxCalls /\ streams' = streams + 1 /\ UNCHANGED calls
    /\ UNCHANGED <<lvars, cfg, opened, died, cons, draining>>

CallEnds ==
    /\ calls > 0 /\ calls' = calls - 1
    /\ UNCHANGED <<lvars, cfg, opened, died, cons, streams, draining>>

\* The client goes, or the session's status changes; main's context is not the
\* stream's and cancelling it does not end the stream.
StreamEnds ==
    /\ streams > 0 /\ streams' = streams - 1
    /\ UNCHANGED <<lvars, cfg, opened, died, cons, calls, draining>>

\* ConsumeClaim takes a message and has it handled; the select may prefer a message
\* to the cancelled context.
ConsumerStep ==
    /\ \/ cons = "consuming" /\ cons' = "handling"
       \/ cons = "handling" /\ cons' = "consuming"
    /\ UNCHANGED <<lvars, cfg, opened, died, calls, streams, draining>>

\* Consume returns, and with the context cancelled so does the loop of Start.
ConsumerEnds ==
    /\ cons = "consuming" /\ cancelled /\ cons' = "ended"
    /\ UNCHANGED <<lvars, cfg, opened, died, calls, streams, draining>>

-----------------------------------------------------------------------------
(* The end.  ProcessorLifecycle has the signal, Stop and cancel(). *)

\* signal.Notify is called once the server was started.
Signal == opened = Listener /\ MainSignal /\ UNCHANGED serviceVars

StopProcessor ==
    /\ StopEnter \/ StopDone \/ StopTimeout \/ MainCancel
    /\ UNCHANGED serviceVars

\* After a second GracefulStop refuses new RPCs ...
Drain ==
    /\ main = "sleep" /\ ~draining /\ draining' = TRUE
    /\ UNCHANGED <<lvars, cfg, opened, died, cons, calls, streams>>

\* A mutated form: Stop in the place of GracefulStop.
NoCallsUnheeded == TRUE

NoCalls == calls = 0 /\ streams = 0

\* A mutated form: the group is closed while a message is handled.
ConsumerUnheeded == TRUE

ConsumerReturned == cons = "ended"

\* ... and waits for those that are open; then the deferred functions close the
\* connections.  Closing the group waits until Consume has returned.
Close ==
    /\ draining /\ opened > 0
    /\ opened = Listener => NoCalls
    /\ opened = Group => ConsumerReturned
    /\ opened' = opened - 1
    /\ UNCHANGED <<lvars, cfg, died, cons, calls, streams, draining>>

Exit == draining /\ opened = 0 /\ MainExit /\ UNCHANGED serviceVars

BootStep == LoadConfig \/ Open \/ StartConsumer
ShutdownStep == StopProcessor \/ Drain \/ Close \/ Exit

ServiceNext ==
    /\ ~died /\ main # "exited"
    /\ \/ BootStep \/ StartProcessor \/ ServeFails
       \/ CallBegins \/ CallEnds \/ StreamEnds \/ ConsumerStep \/ ConsumerEnds
       \/ Signal \/ ShutdownStep
       \/ (TickerFires \/ LoopStep) /\ UNCHANGED serviceVars

allVars == <<lvars, serviceVars>>

ServiceSpec == ServiceInit /\ [][ServiceNext]_allVars

\* The goroutines run.  Nothing is assumed of signals, clients, messages and failures;
\* of the select between a message and the cancelled context only that it does not
\* take a message for ever.
ServiceFair ==
    /\ ServiceSpec
    /\ WF_allVars(~died /\ BootStep) /\ WF_allVars(~died /\ StartProcessor)
    /\ WF_allVars(~died /\ CallEnds) /\ WF_allVars(~died /\ cons = "handling" /\ ConsumerStep)
    /\ SF_allVars(~died /\ ConsumerEnds)
    /\ WF_allVars(~died /\ ShutdownStep)
    /\ WF_allVars(~died /\ LoopStep /\ UNCHANGED serviceVars)

-----------------------------------------------------------------------------

Ended == died \/ main = "exited"

\* Every variable has a value of its type.
ServiceType ==
    /\ TypeOK
    /\ cfg \in [port : Int, interval : Int, placeholder : BOOLEAN]
    /\ opened \in 0 .. Listener /\ died \in BOOLEAN
    /\ cons \in {"none", "consuming", "handling", "ended"}
    /\ calls \in 0 .. MaxCalls /\ streams \in 0 .. MaxCalls /\ draining \in BOOLEAN

\* Nobody uses a connection after main closed it: no RPC is open once the clients
\* are being closed, no outcome is handled once the group and the producer are, and
\* after a graceful Stop no processor runs.
ClosedAfterUse ==
    draining =>
        /\ opened < Listener => calls = 0 /\ streams = 0
        /\ opened < Group => cons = "ended"
        /\ outcome = "graceful" => loop = "ended"

\* Once a signal has arrived the process ends, provided that its streams end: Stop
\* waits with the mutex locked that the goroutine needs (its timeout breaks the
\* circle), GracefulStop waits for RPCs, Close for the consumer.
ShutdownEnds == <>[](streams = 0) => (main # "serving" ~> Ended)

\* The service does not go on serving without a processor: a start that fails, also
\* one with an interval that Validate lets pass, ends the process.
ServedIsProcessed == Serving ~> (loop # "none" \/ main # "serving" \/ died)
=============================================================================
