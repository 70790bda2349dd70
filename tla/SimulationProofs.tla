--------------------------- MODULE SimulationProofs ---------------------------
(***************************************************************************)
(* The waiting room keeps its places and its promise also while            *)
(* scripts/simulate-queue.go writes past it, for every value of the        *)
(* constants: what holds of the service's own steps is in WaitroomProofs   *)
(* and PromiseProofs; here the script's steps are added.                   *)
(***************************************************************************)
EXTENDS Simulation, PromiseProofs

\* A ZADD of the script.
Zadds == \E s \in Demo : PipeZAdd(s)

\* The demo sessions are sessions of the demo event.
LEMMA DemoFacts == Demo \subseteq Sessions /\ DemoEvent \in Events
BY DemoAssumption

\* What the script writes back is a session record.
LEMMA WrittenBackType ==
    ASSUME scopy \in SessionRecord, NEW to \in Statuses
    PROVE  WrittenBack(to) \in SessionRecord
BY DEF WrittenBack, SessionRecord

\* The script changes the queue of one event, by a ZADD or a ZREM, and the places of
\* one event, by an SREM.
LEMMA ScriptSets ==
    ASSUME SimType, ScriptStep
    PROVE  /\ queue' = queue \/ \E s \in Sessions : queue' = Enqueued(s) \/ queue' = Dequeued(s)
           /\ \/ processing' = processing
              \/ \E s \in Sessions : processing' = [processing EXCEPT ![DemoEvent] = @ \ {s}]
<1> USE DEF redisVars
<1>1. CASE LoadStep \/ Loaded
    BY <1>1, DemoFacts DEF LoadStep, Loaded, PipeOpen, PipeSet, PipeZAdd, ZAdd, PipeSAdd,
                           PipeAgain, PipeBreaks, vars
<1>2. picked \subseteq Sessions
    BY DEF SimType
<1>3. CASE ExitStep
    BY <1>2, <1>3 DEF ExitStep, DrawExits, ExitRemove, ExitGet, ExitSet, ExitCount,
                      ExitDeactivate, vars
<1>4. CASE CheckoutsStep
    BY <1>2, <1>4 DEF CheckoutsStep, DrawCheckouts, FreeRemove, FreeGet, FreeSet, vars
<1> QED BY <1>1, <1>3, <1>4 DEF ScriptStep

\* The records the script stores, and what else of Redis it changes, have their types.
LEMMA ScriptStoreType ==
    ASSUME SimType, ScriptStep
    PROVE  StoreType'
<1>1. StoreType
    BY DEF SimType, TypeOK
<1>2. queue' \in [Events -> SUBSET Sessions] /\ processing' \in [Events -> SUBSET Sessions]
    BY <1>1, ScriptSets, DemoFacts, SessionsAssumption DEF Enqueued, Dequeued, StoreType
<1>3. session' \in [Sessions -> Record]
    <2>1. \/ UNCHANGED session
          \/ \E s \in Sessions : Stored(s, NewSession)
          \/ /\ scopy \in SessionRecord /\ guest \in Sessions
             /\ \E to \in {"abandoned", "completed", "failed"} : Stored(guest, WrittenBack(to))
        <3>1. CASE LoadStep \/ Loaded
            BY <3>1, DemoFacts DEF LoadStep, Loaded, PipeOpen, PipeSet, PipeZAdd, PipeSAdd,
                                   PipeAgain, PipeBreaks, vars, redisVars
        <3>2. CASE ExitStep
            BY <3>2 DEF ExitStep, DrawExits, ExitRemove, ExitGet, ExitSet, ExitCount,
                        ExitDeactivate, vars, redisVars, SimType
        <3>3. CASE CheckoutsStep
            BY <3>3 DEF CheckoutsStep, DrawCheckouts, FreeRemove, FreeGet, FreeSet, vars,
                        redisVars, SimType
        <3> QED BY <3>1, <3>2, <3>3 DEF ScriptStep
    <2>2. {"abandoned", "completed", "failed"} \subseteq Statuses
        BY DEF Statuses, Outcomes
    <2>3. session \in [Sessions -> Record]
        BY <1>1 DEF StoreType
    <2>4. ASSUME NEW s \in Sessions, Stored(s, NewSession) PROVE session' \in [Sessions -> Record]
        <3>1. NewSession \in Record
            BY NewSessionType DEF Record
        <3> QED BY <2>3, <2>4, <3>1, StoredType
    <2>5. ASSUME scopy \in SessionRecord, guest \in Sessions,
                 NEW to \in {"abandoned", "completed", "failed"}, Stored(guest, WrittenBack(to))
          PROVE  session' \in [Sessions -> Record]
        <3>1. WrittenBack(to) \in Record
            BY <2>2, <2>5, WrittenBackType DEF Record
        <3> QED BY <2>3, <2>5, <3>1, StoredType
    <2> QED BY <2>1, <2>3, <2>4, <2>5
<1>4. /\ UNCHANGED <<blacklist, ready, now, lapsed, crashes>>
      /\ UNCHANGED faults \/ Fault
      /\ active' \in {active, active \cup {DemoEvent}, active \ {DemoEvent}}
    <2>1. CASE LoadStep \/ Loaded
        BY <2>1 DEF LoadStep, Loaded, PipeOpen, PipeSet, PipeZAdd, PipeSAdd, PipeAgain,
                    PipeBreaks, vars, redisVars, envVars
    <2>2. CASE ExitStep
        BY <2>2 DEF ExitStep, DrawExits, ExitRemove, ExitGet, ExitSet, ExitCount,
                    ExitDeactivate, vars, redisVars, envVars
    <2>3. CASE CheckoutsStep
        BY <2>3 DEF CheckoutsStep, DrawCheckouts, FreeRemove, FreeGet, FreeSet, vars,
                    redisVars, envVars
    <2> QED BY <2>1, <2>2, <2>3 DEF ScriptStep
<1>5. faults' \in Nat /\ active' \subseteq Events
    BY <1>1, <1>4, DemoFacts, FaultType DEF StoreType
<1> QED BY <1>1, <1>2, <1>3, <1>4, <1>5 DEF StoreType

\* The script leaves the handlers and the processor alone, but for the entries of its
\* own sessions.
LEMMA ScriptHandlers ==
    ASSUME SimType, ScriptStep
    PROVE  /\ UNCHANGED <<procVars, leaveVars, hdlVars, ready>>
           /\ JoinType'
<1>1. JoinType /\ now \in Nat /\ StoreType
    BY DEF SimType, TypeOK, HandlerType, StoreType
<1>2. CASE PipeOpen
    <2>1. PICK B \in SUBSET Fresh : \E at \in [B -> {now, now + 1}] :
              queuedAt' = [s \in Sessions |-> IF s \in B THEN at[s] ELSE queuedAt[s]]
        BY <1>2 DEF PipeOpen
    <2>2. queuedAt' \in [Sessions -> Nat]
        BY <1>1, <2>1 DEF JoinType
    <2> QED BY <1>1, <1>2, <2>2 DEF PipeOpen, JoinType, envVars
<1>3. CASE Zadds
    <2>1. PICK s \in Demo : PipeZAdd(s)
        BY <1>3 DEF Zadds
    <2>2. /\ jpc' = [jpc EXCEPT ![s] = "piped"] /\ UNCHANGED queuedAt
          /\ entries' = [entries EXCEPT ![s] = @ + 1 - InQueue(s)]
        BY <2>1 DEF PipeZAdd, ZAddIsNext, JoinAt, ZAdd
    <2>3. entries' \in [Sessions -> Nat]
        <3>1. entries \in [Sessions -> Nat] /\ s \in Sessions
            BY <1>1, <2>1, DemoFacts DEF JoinType
        <3>2. InQueue(s) \in {0, 1}
            BY DEF InQueue
        <3> QED BY <2>2, <3>1, <3>2
    <2>4. JoinType'
        BY <1>1, <2>2, <2>3 DEF JoinType
    <2>5. UNCHANGED <<procVars, leaveVars, hdlVars, ready>>
        BY <2>1 DEF PipeZAdd, envVars
    <2> QED BY <2>4, <2>5
<1>4. CASE (\E s \in Demo : PipeSet(s)) \/ PipeSAdd \/ PipeAgain \/ PipeBreaks \/ Loaded
    BY <1>1, <1>4 DEF PipeSet, PipeSAdd, PipeAgain, PipeBreaks, Returned, Loaded, vars, joinVars,
                      envVars, JoinType
<1>5. CASE ExitStep
    BY <1>1, <1>5 DEF ExitStep, DrawExits, ExitRemove, ExitGet, ExitSet, ExitCount,
               ExitDeactivate, vars, joinVars, envVars, JoinType
<1>6. CASE CheckoutsStep
    BY <1>1, <1>6 DEF CheckoutsStep, DrawCheckouts, FreeRemove, FreeGet, FreeSet, vars,
               joinVars, envVars, JoinType
<1> QED BY <1>2, <1>3, <1>4, <1>5, <1>6 DEF ScriptStep, LoadStep, Zadds

\* The script's steps keep the types of the waiting room.
LEMMA ScriptTypes ==
    ASSUME SimType, ScriptStep
    PROVE  TypeOK'
BY ScriptStoreType, ScriptHandlers, KeptTypes DEF SimType, TypeOK, HandlerType

\* Its own variables keep theirs: a session it is to write back has been read.
LEMMA ScriptOwnTypes ==
    ASSUME SimType, [ServiceStep \/ ScriptStep]_demoVars, TypeOK'
    PROVE  SimType'
<1> USE DEF SimType
<1>1. CASE UNCHANGED scriptVars
    BY <1>1 DEF scriptVars, Loading
<1>2. CASE LoadStep \/ Loaded
    <2>1. UNCHANGED <<picked, guest, scopy>> /\ spc' \in {spc, "idle"}
          /\ (spc' = spc \/ spc = "loading")
        BY <1>2 DEF LoadStep, Loaded, PipeOpen, PipeSet, PipeZAdd, PipeSAdd, PipeAgain,
                    PipeBreaks, Loading
    <2>2. /\ piped' \subseteq Demo /\ stored' \subseteq Demo /\ tracked' \subseteq Demo
          /\ added' \subseteq piped'
        BY <1>2 DEF LoadStep, Loaded, PipeOpen, Fresh, PipeSet, PipeZAdd, ZAddIsNext, PipeSAdd,
                    PipeAgain, PipeBreaks, Returned, Loading
    <2> QED BY <2>1, <2>2
<1>3. ASSUME NEW left \in SUBSET picked, NEW more \in {"exit", "free"},
             NEW last \in {"count", "idle"}, NextGuest(more, last, left)
      PROVE  /\ picked' \subseteq Sessions /\ guest' = None /\ scopy' = None
             /\ spc' \in {"exit", "free", "count", "idle"}
    BY <1>3 DEF NextGuest
<1>4. \A x : picked \ {x} \in SUBSET picked
    OBVIOUS
<1>5. None \in Record
    BY DEF Record
<1>6. ExitStep \/ CheckoutsStep => UNCHANGED <<piped, stored, added>> /\ tracked' \subseteq tracked
    BY DEF ExitStep, DrawExits, ExitRemove, ExitGet, ExitSet, ExitCount, ExitDeactivate,
           CheckoutsStep, DrawCheckouts, FreeRemove, FreeGet, FreeSet, Loading
<1>7. CASE DrawExits \/ DrawCheckouts
    <2>1. processing[DemoEvent] \subseteq Sessions /\ tracked \subseteq Sessions
        BY DemoFacts DEF TypeOK, StoreType
    <2>2. picked' \subseteq Sessions /\ spc' \in {"exit", "free"} /\ UNCHANGED <<guest, scopy>>
        BY <1>7, <2>1 DEF DrawExits, DrawCheckouts, Goto
    <2> QED BY <1>6, <1>7, <2>2 DEF ExitStep, CheckoutsStep
<1>8. CASE ExitRemove \/ FreeRemove
    <2>1. \/ /\ guest' \in picked /\ UNCHANGED <<picked, scopy>>
             /\ spc' \in {"exit-get", "free-get"}
          \/ \E s \in picked : \/ NextGuest("exit", "count", picked \ {s})
                             \/ NextGuest("free", "idle", picked \ {s})
        BY <1>8 DEF ExitRemove, FreeRemove
    <2>2. guest' \in picked => guest' \in Sessions /\ guest' # None
        BY NoneAssumption
    <2> QED BY <1>3, <1>4, <1>5, <1>6, <1>8, <2>1, <2>2 DEF ExitStep, CheckoutsStep
<1>9. CASE ExitGet \/ FreeGet
    <2>1. guest \in Sessions
        BY <1>9 DEF ExitGet, FreeGet, Goto
    <2>2. session[guest] \in Record /\ NewSession \in SessionRecord
        BY <2>1, NewSessionType DEF TypeOK, StoreType
    <2>3. \/ /\ scopy' \in SessionRecord /\ UNCHANGED <<picked, guest>>
             /\ spc' \in {"exit-set", "free-set"}
          \/ NextGuest("free", "idle", picked \ {guest})
        BY <1>9, <2>2 DEF ExitGet, FreeGet, Goto, Record
    <2>4. SessionRecord \subseteq Record
        BY DEF Record
    <2> QED BY <1>3, <1>4, <1>5, <1>6, <1>9, <2>1, <2>3, <2>4, NoneAssumption
               DEF ExitStep, CheckoutsStep
<1>10. CASE ExitSet \/ FreeSet
    <2>1. NextGuest("exit", "count", picked \ {guest}) \/ NextGuest("free", "idle", picked \ {guest})
        BY <1>10 DEF ExitSet, FreeSet
    <2> QED BY <1>3, <1>4, <1>5, <1>6, <1>10, <2>1 DEF ExitStep, CheckoutsStep
<1>11. CASE ExitCount \/ ExitDeactivate
    <2>1. spc' \in {"deactivate", "idle"} /\ UNCHANGED <<picked, guest, scopy>>
        BY <1>11 DEF ExitCount, ExitDeactivate, Goto
    <2> QED BY <1>6, <1>11, <2>1 DEF ExitStep
<1> QED BY <1>1, <1>2, <1>7, <1>8, <1>9, <1>10, <1>11
           DEF ServiceStep, ScriptStep, ExitStep, CheckoutsStep, demoVars

\* The script starts with nothing of its own.
LEMMA SimTypeInit == SimInit => SimType
BY TypeInit DEF SimInit, SimType, Record

\* Every step of the service and of the script keeps every type.
LEMMA SimTypeStep == SimType /\ [ServiceStep \/ ScriptStep]_demoVars => SimType'
<1> SUFFICES ASSUME SimType, [ServiceStep \/ ScriptStep]_demoVars PROVE SimType'
    OBVIOUS
<1>1. CASE ScriptStep
    BY <1>1, ScriptTypes, ScriptOwnTypes
<1>2. CASE ServiceStep \/ UNCHANGED demoVars
    <2>1. TypeOK /\ [Next]_vars
        BY <1>2 DEF ServiceStep, demoVars, SimType
    <2> QED BY <2>1, TypeStep, ScriptOwnTypes
<1> QED BY <1>1, <1>2

\* The copies that the script and the service's handlers write back over each other
\* are always records.
THEOREM SimTypeHolds == SimSpec => []SimType
BY SimTypeInit, SimTypeStep, PTL DEF SimSpec

-----------------------------------------------------------------------------
(* What a step of the script does to the queues and the places.            *)

\* The four kinds of steps: a demo session enters, a session is taken out of its
\* queue, one is taken out of checkout, or the queues and places stay as they are.
LEMMA ScriptKinds ==
    ASSUME SimType, ScriptStep
    PROVE  \/ Zadds
           \/ /\ SameEntries /\ UNCHANGED entries
              /\ \/ UNCHANGED processing /\ \E s \in Sessions : queue' = Dequeued(s)
                 \/ /\ UNCHANGED queue
                    /\ \E s \in Sessions :
                           processing' = [processing EXCEPT ![DemoEvent] = @ \ {s}]
                 \/ UNCHANGED <<queue, processing>>
<1> USE DEF redisVars
<1>1. CASE PipeOpen
    <2>1. PICK B \in SUBSET Fresh : \E at \in [B -> {now, now + 1}] :
              queuedAt' = [s \in Sessions |-> IF s \in B THEN at[s] ELSE queuedAt[s]]
        BY <1>1 DEF PipeOpen
    <2>2. \A s \in B : ~Entered(s)
        BY DEF Fresh, Entered
    <2>3. SameEntries /\ UNCHANGED entries
        BY <1>1, <2>1, <2>2 DEF PipeOpen, SameEntries, Entered, askingBar
    <2> QED BY <1>1, <2>3 DEF PipeOpen
<1>2. CASE (\E s \in Demo : PipeSet(s)) \/ PipeSAdd \/ PipeAgain \/ PipeBreaks \/ Loaded
    <2>1. SameEntries /\ UNCHANGED entries
        BY <1>2 DEF PipeSet, PipeSAdd, PipeAgain, PipeBreaks, Returned, Loaded, vars, joinVars,
                    SameEntries, Entered, askingBar, SimType, TypeOK, HandlerType, JoinType
    <2> QED BY <1>2, <2>1 DEF PipeSet, PipeSAdd, PipeAgain, PipeBreaks, Loaded, vars
<1>3. picked \subseteq Sessions
    BY DEF SimType
<1>4. CASE ExitStep
    <2>1. SameEntries /\ UNCHANGED entries
        BY <1>4 DEF ExitStep, DrawExits, ExitRemove, ExitGet, ExitSet, ExitCount,
                    ExitDeactivate, vars, joinVars, SameEntries, Entered, askingBar
    <2> QED BY <1>3, <1>4, <2>1 DEF ExitStep, DrawExits, ExitRemove, ExitGet, ExitSet,
                    ExitCount, ExitDeactivate, vars
<1>5. CASE CheckoutsStep
    <2>1. SameEntries /\ UNCHANGED entries
        BY <1>5 DEF CheckoutsStep, DrawCheckouts, FreeRemove, FreeGet, FreeSet, vars, joinVars,
                    SameEntries, Entered, askingBar
    <2> QED BY <1>3, <1>5, <2>1 DEF CheckoutsStep, DrawCheckouts, FreeRemove, FreeGet, FreeSet,
                    vars
<1> QED BY <1>1, <1>2, <1>4, <1>5 DEF ScriptStep, LoadStep, Zadds

\* A ZADD of the script puts its session into the queue; the first lets it in, and one
\* that is sent again finds it where the first, unanswered, put it or what became of it.
LEMMA ZaddEnters ==
    ASSUME SimType, WhereInv, NEW s \in Demo, PipeZAdd(s)
    PROVE  /\ s \in Sessions /\ PutIn(s) /\ UNCHANGED <<processing, batch, event, ready>>
           /\ Entered(s)' /\ \A t \in Sessions : Entered(t) => Entered(t)'
           /\ OnlyEnters(s) \/ (s \in askingBar /\ SameEntries)
<1>1. s \in Sessions /\ EventOf[s] \in Events
    BY DemoFacts, SessionsAssumption
<1>2. TypeOK /\ DOMAIN jpc = Sessions
    BY DEF SimType, TypeOK, HandlerType, JoinType
<1>3. /\ jpc[s] \in {"idle", "piped"} /\ jpc' = [jpc EXCEPT ![s] = "piped"]
      /\ queue' = Enqueued(s) /\ UNCHANGED <<queuedAt, processing, batch, event, ready>>
    BY DEF PipeZAdd, ZAddIsNext, ZAdd, JoinAt, procVars, envVars
<1>4. /\ Entered(s)' /\ (Entered(s) <=> jpc[s] = "piped")
      /\ \A t \in Sessions \ {s} : /\ Entered(t)' <=> Entered(t)
                                   /\ Entered(t) => queuedAt'[t] = queuedAt[t]
    BY <1>1, <1>2, <1>3 DEF Entered
<1>5. PutIn(s)
    BY <1>1, <1>2, <1>3 DEF PutIn, Enqueued, TypeOK, StoreType, Holds, InFlight
<1>6. askingBar' = askingBar \cup {s}
    BY <1>1, <1>2, <1>3 DEF askingBar
<1>7. CASE jpc[s] = "idle"
    <2>1. OnlyEnters(s)
        BY <1>4, <1>5, <1>6, <1>7 DEF OnlyEnters
    <2> QED BY <1>1, <1>3, <1>4, <1>5, <2>1
<1>8. CASE jpc[s] = "piped"
    <2>1. s \in askingBar
        BY <1>1, <1>8 DEF askingBar
    <2>2. SameEntries
        BY <1>3, <1>4, <1>6, <1>8, <2>1 DEF SameEntries
    <2> QED BY <1>1, <1>3, <1>4, <1>5, <2>1, <2>2
<1> QED BY <1>3, <1>7, <1>8

\* The script frees places and never takes one.
LEMMA ScriptPlaces ==
    ASSUME SimType, TypeOK', PlacesInv, ScriptStep
    PROVE  PlacesInv'
<1>1. \A e \in Events : processing'[e] \subseteq processing[e]
    BY ScriptSets, DemoFacts DEF SimType, TypeOK, StoreType
<1>2. UNCHANGED procVars
    BY ScriptHandlers
<1> QED BY <1>1, <1>2, FreeingKeepsPlaces DEF SimType

\* It leaves every session where it belongs and the announcements few enough.
LEMMA ScriptWhere ==
    ASSUME SimType, WhereInv, NotifyInv, ScriptStep
    PROVE  WhereInv' /\ NotifyInv'
<1>1. TypeOK
    BY DEF SimType
<1>2. UNCHANGED <<batch, event, ready>>
    BY ScriptHandlers DEF procVars
<1>3. CASE Zadds
    <2>1. PICK s \in Demo : PipeZAdd(s)
        BY <1>3 DEF Zadds
    <2>2. ZAdd(s)
        BY <2>1 DEF PipeZAdd
    <2> QED BY <1>1, <2>1, <2>2, ZaddEnters, EntersKeeps
<1>4. CASE ~Zadds
    <2>1. SameEntries /\ UNCHANGED entries
        BY <1>4, ScriptKinds
    <2>2. \A e \in Events : queue'[e] \subseteq queue[e]
        BY <1>1, <1>4, ScriptKinds, SessionsAssumption DEF Dequeued, TypeOK, StoreType
    <2>3. \A e \in Events : processing'[e] \subseteq processing[e]
        BY <1>1, ScriptSets, DemoFacts DEF TypeOK, StoreType
    <2>4. Settling
        BY <1>2, <2>1, <2>2, <2>3 DEF Settling, SameEntries, InFlight
    <2> QED BY <1>1, <1>2, <2>4, SettlingKeepsWhere, SettlingKeepsNotify
<1> QED BY <1>3, <1>4

\* To AdmissionControl a step of the script is an arrival, a departure or nothing.
LEMMA ScriptPromises ==
    ASSUME SimType, TypeOK', WhereInv, ScriptStep
    PROVE  ACStep
<1>1. TypeOK
    BY DEF SimType
<1>2. \A e \in Events : InFlight(e)' = InFlight(e)
    BY ScriptHandlers DEF procVars, InFlight
<1>3. CASE Zadds
    <2>1. PICK s \in Demo : PipeZAdd(s)
        BY <1>3 DEF Zadds
    <2>2. s \in Sessions /\ PutIn(s) /\ (OnlyEnters(s) \/ (s \in askingBar /\ SameEntries))
        BY <2>1, ZaddEnters
    <2> QED BY <1>1, <2>2, Arrives, EntersAgain DEF ACStep
<1>4. ASSUME SameEntries, UNCHANGED processing, NEW s \in Sessions, queue' = Dequeued(s)
      PROVE  ACStep
    <2>1. EventOf[s] \in Events
        BY SessionsAssumption
    <2>2. \A f \in Events : /\ queue'[f] \subseteq queue[f] /\ Holds(f)' = Holds(f)
                            /\ f # EventOf[s] => queue'[f] = queue[f]
        BY <1>1, <1>2, <1>4, <2>1 DEF Dequeued, TypeOK, StoreType, Holds
    <2> QED BY <1>1, <1>4, <2>1, <2>2, WaitingLeave DEF ACStep
<1>5. ASSUME SameEntries, UNCHANGED queue, NEW s \in Sessions,
             processing' = [processing EXCEPT ![DemoEvent] = @ \ {s}]
      PROVE  ACStep
    <2>1. \A f \in Events : /\ queue'[f] = queue[f] /\ Holds(f)' \subseteq Holds(f)
                            /\ f # DemoEvent => Holds(f)' = Holds(f)
        BY <1>1, <1>2, <1>5, DemoFacts DEF TypeOK, StoreType, Holds
    <2> QED BY <1>1, <1>5, <2>1, DemoFacts, HoldersLeave DEF ACStep
<1>6. CASE SameEntries /\ UNCHANGED <<queue, processing>>
    <2>1. \A e \in Events : queue'[e] = queue[e] /\ Holds(e)' = Holds(e)
        BY <1>2, <1>6 DEF Holds
    <2> QED BY <1>6, <2>1, Stutters
<1> QED BY <1>3, <1>4, <1>5, <1>6, ScriptKinds

-----------------------------------------------------------------------------

\* The invariant of the service alone is one of the service and the script: the bound
\* on the sessions in checkout, that none is there without having left its queue before,
\* and that none is announced more often than it left.
THEOREM ScriptKeepsPlacesHolds ==
    ASSUME BatchSize > 0
    PROVE  SimSpec => []ScriptKeepsPlaces
<1> DEFINE Inv == SimType /\ ScriptKeepsPlaces
<1>1. SimInit => Inv
    BY SimTypeInit, PlacesInit, WhereInit DEF SimInit, ScriptKeepsPlaces
<1>2. Inv /\ [ServiceStep \/ ScriptStep]_demoVars => Inv'
    <2> SUFFICES ASSUME Inv, [ServiceStep \/ ScriptStep]_demoVars PROVE Inv'
        OBVIOUS
    <2>1. SimType /\ SimType' /\ TypeOK /\ TypeOK' /\ PlacesInv /\ WhereInv /\ NotifyInv
        BY SimTypeStep DEF ScriptKeepsPlaces, SimType
    <2>2. CASE ScriptStep
        BY <2>1, <2>2, ScriptPlaces, ScriptWhere DEF ScriptKeepsPlaces
    <2>3. CASE ServiceStep \/ UNCHANGED demoVars
        <3>1. [Next]_vars
            BY <2>3 DEF ServiceStep, demoVars
        <3> QED BY <2>1, <3>1, PlacesStep, WhereStep DEF ScriptKeepsPlaces
    <2> QED BY <2>2, <2>3
<1>3. Inv => ScriptKeepsPlaces
    OBVIOUS
<1> QED BY <1>1, <1>2, <1>3, PTL DEF SimSpec

\* What AdmissionControl promises, the service still keeps while the script writes past
\* it: in the order of the seconds, within the bound, and never back into the queue but
\* by a pipeline, or a request, that is sent again before it was answered.
THEOREM ScriptPromiseHolds ==
    ASSUME BatchSize > 0
    PROVE  SimSpec => Promise
<1>1. /\ SimType /\ SimType' /\ ScriptKeepsPlaces
      /\ [ServiceStep \/ ScriptStep]_demoVars
      => [AC!Next]_(AC!acVars)
    <2> SUFFICES ASSUME SimType, SimType', ScriptKeepsPlaces,
                        [ServiceStep \/ ScriptStep]_demoVars
                 PROVE  ACStep
        BY DEF ACStep
    <2>1. TypeOK /\ TypeOK' /\ PlacesInv /\ WhereInv
        BY DEF ScriptKeepsPlaces, SimType
    <2>2. CASE ScriptStep
        BY <2>1, <2>2, ScriptPromises
    <2>3. CASE ServiceStep \/ UNCHANGED demoVars
        <3>1. [Next]_vars
            BY <2>3 DEF ServiceStep, demoVars
        <3> QED BY <2>1, <3>1, ServicePromises
    <2> QED BY <2>2, <2>3
<1>2. SimInit => AC!Init
    BY PromiseInit DEF SimInit
<1> QED BY <1>1, <1>2, SimTypeHolds, ScriptKeepsPlacesHolds, PTL DEF SimSpec, Promise, AC!Spec
=============================================================================
