------------------------------ MODULE GrpcProofs ------------------------------
(***************************************************************************)
(* Proofs about GrpcService for every value of its constants: the waiting  *)
(* room behind the gRPC server is the one of Waitroom, the answer a        *)
(* refused request gets, and the order of the answers a poller gets.       *)
(***************************************************************************)
EXTENDS GrpcService, TLAPS, RecordProofs, PromiseProofs

\* The lookups and GetQueueStatus change nothing of the waiting room, and they only
\* delay and restrict its own steps.
THEOREM GrpcRefines == GrpcSpec => Spec
<1>1. GrpcInit => Init
    BY DEF GrpcInit
<1>2. [GrpcNext]_<<vars, apiVars>> => [Next]_vars
    BY DEF GrpcNext, WaitroomStep, FindEvent, GetEventConfig, GetQueueStatus
<1> QED BY <1>1, <1>2, PTL DEF GrpcSpec, Spec

\* So what holds of the waiting room holds of it behind the server: no more sessions
\* than places, and none waiting and in checkout at once, or announced twice, without a
\* ZADD that was applied again.
THEOREM GrpcIsSafe ==
    ASSUME BatchSize > 0
    PROVE  GrpcSpec => [](SlotBound /\ BothOnlyIfResent /\ NotifiedOncePerEntry)
BY GrpcRefines, SlotBoundHolds, BothOnlyIfResentHolds, NotifiedOncePerEntryHolds, PTL

\* And while no call fails it loses no session, a held place is live, and a spent token
\* stays invalid, whatever the clients poll.
THEOREM GrpcKeepsRecords == GrpcSpec => [](NoneLost /\ HeldPlaceIsLive /\ SpentTokenStaysInvalid)
BY GrpcRefines, NoneLostHolds, HeldPlaceIsLiveHolds, SpentTokenStaysInvalidHolds, PTL

\* The service behind its gRPC server implements AdmissionControl.
THEOREM GrpcPromiseHolds ==
    ASSUME BatchSize > 0
    PROVE  GrpcSpec => Promise
BY GrpcRefines, PromiseHolds, PTL

-----------------------------------------------------------------------------
(* The reason of a refusal. *)

Own == {"event not found", "event config not found"}

\* Without a failed call the group's error is one of the service's own.
ReasonInv ==
    /\ misses \in Nat /\ reason \in [Sessions -> Own \cup {None, "unavailable"}]
    /\ misses = 0 => \A s \in Sessions : reason[s] \in Own \cup {None}

\* A failed call is counted.
LEMMA MissType == ASSUME misses \in Nat, Miss PROVE misses' \in Nat /\ misses' # 0
BY DEF Miss

\* The first error of a group that waits for one more lookup.
LEMMA LookupKeeps ==
    ASSUME ReasonInv, NEW s \in Sessions, NEW missing \in Own, LookupFails(s, missing)
    PROVE  ReasonInv'
<1>1. PICK error \in {missing, "unavailable", "context canceled"} :
          /\ reason' = [reason EXCEPT ![s] = FirstError(s, error)]
          /\ IF error = "unavailable" THEN Miss ELSE UNCHANGED misses
          /\ error = "context canceled" => reason[s] # None
    BY DEF LookupFails
<1>2. misses' \in Nat /\ (misses' = 0 => misses = 0 /\ error # "unavailable")
    <2>1. CASE error = "unavailable"
        BY <1>1, <2>1, MissType DEF ReasonInv
    <2>2. CASE error # "unavailable"
        BY <1>1, <2>2 DEF ReasonInv
    <2> QED BY <2>1, <2>2
<1>3. FirstError(s, error) \in {reason[s], error}
    BY DEF FirstError
<1>4. error = "context canceled" => FirstError(s, error) = reason[s]
    BY <1>1 DEF FirstError
<1>5. FirstError(s, error) \in Own \cup {None, "unavailable"}
    BY <1>3, <1>4 DEF ReasonInv, Own
<1>6. misses' = 0 => FirstError(s, error) \in Own \cup {None}
    BY <1>2, <1>3, <1>4 DEF ReasonInv, Own
<1> QED BY <1>1, <1>2, <1>5, <1>6 DEF ReasonInv

\* Every step keeps it.
LEMMA ReasonStep == ReasonInv /\ [GrpcNext]_<<vars, apiVars>> => ReasonInv'
<1> SUFFICES ASSUME ReasonInv, [GrpcNext]_<<vars, apiVars>> PROVE ReasonInv'
    OBVIOUS
<1>1. CASE UNCHANGED <<misses, reason>>
    BY <1>1 DEF ReasonInv
<1>2. ASSUME NEW s \in Sessions, FindEvent(s) PROVE ReasonInv'
    <2>1. LookupFails(s, "event not found") \/ UNCHANGED <<misses, reason>>
        BY <1>2 DEF FindEvent
    <2> QED BY <2>1, <1>1, LookupKeeps DEF Own
<1>3. ASSUME NEW s \in Sessions, GetEventConfig(s) PROVE ReasonInv'
    <2>1. LookupFails(s, "event config not found") \/ UNCHANGED <<misses, reason>>
        BY <1>3 DEF GetEventConfig
    <2> QED BY <2>1, <1>1, LookupKeeps DEF Own
<1>4. ASSUME NEW s \in Sessions, GetQueueStatus(s) PROVE ReasonInv'
    <2>1. UNCHANGED reason /\ (Miss \/ UNCHANGED misses)
        BY <1>4 DEF GetQueueStatus, PollFails
    <2> QED BY <2>1 DEF ReasonInv, Miss
<1>5. CASE WaitroomStep \/ UNCHANGED <<vars, apiVars>>
    BY <1>5, <1>1 DEF WaitroomStep, apiVars
<1> QED BY <1>2, <1>3, <1>4, <1>5 DEF GrpcNext

\* Whatever the lookups of one request answer and in whatever order they return, a
\* refusal names its reason unless a call has failed.
THEOREM RefusalIsNamedHolds == GrpcSpec => []RefusalIsNamed
<1>1. GrpcInit => ReasonInv
    BY DEF GrpcInit, ReasonInv
<1>2. ReasonInv => RefusalIsNamed
    <2> SUFFICES ASSUME ReasonInv, misses = 0, NEW s \in Sessions, jpc[s] = "idle"
                 PROVE  JoinReply(s) # "Internal"
        BY DEF RefusalIsNamed
    <2>1. reason[s] # None => Code(reason[s]) # "Internal"
        BY DEF ReasonInv, Own, Code, mapGRPCError, ParseGRPCError, GRPCErrors
    <2>2. Code("wait room not allowed") # "Internal"
        BY DEF Code, mapGRPCError, ParseGRPCError, GRPCErrors
    <2> QED BY <2>1, <2>2 DEF JoinReply
<1> QED BY <1>1, <1>2, ReasonStep, PTL DEF GrpcSpec

-----------------------------------------------------------------------------
(* The types of what the gRPC handlers keep. *)

ApiType ==
    /\ found \in [Sessions -> {"asked", "ok", "failed"}]
    /\ config \in [Sessions -> {"asked", "failed"} \cup EventConfig]
    /\ gpc \in [Sessions -> {"idle", "copy", "rank", "queued", "popped"}]
    /\ seen \in [Sessions -> {"nothing"} \cup QueueStatus]
    /\ misses \in Nat

\* A poll moves the program counter of one client, and tells it what QueueStatus has.
LEMMA PollWrites ==
    ASSUME NEW s \in Sessions, GetQueueStatus(s)
    PROVE  \/ PollValidate(s) /\ UNCHANGED <<seen, misses>>
           \/ PollCopy(s) /\ UNCHANGED misses
           \/ PollRank(s) /\ UNCHANGED <<seen, misses>>
           \/ PollLength(s) /\ UNCHANGED misses
           \/ /\ PollFails(s) /\ Miss /\ UNCHANGED seen
              /\ gpc' = [gpc EXCEPT ![s] = "idle"]
BY DEF GetQueueStatus, PollValidate, PollRank, PollFails, Goes, Refused, PollAt

\* Every step keeps the types.
LEMMA ApiStep == ApiType /\ [GrpcNext]_<<vars, apiVars>> => ApiType'
<1> SUFFICES ASSUME ApiType, [GrpcNext]_<<vars, apiVars>> PROVE ApiType'
    OBVIOUS
<1>1. ASSUME NEW s \in Sessions, FindEvent(s) PROVE ApiType'
    <2>1. UNCHANGED <<config, gpc, seen>>
        BY <1>1 DEF FindEvent
    <2>2. \E r \in {"ok", "failed"} : found' = [found EXCEPT ![s] = r]
        BY <1>1 DEF FindEvent
    <2>3. Miss \/ UNCHANGED misses
        BY <1>1 DEF FindEvent, LookupFails
    <2> QED BY <2>1, <2>2, <2>3 DEF ApiType, Miss
<1>2. ASSUME NEW s \in Sessions, GetEventConfig(s) PROVE ApiType'
    <2>1. UNCHANGED <<found, gpc, seen>>
        BY <1>2 DEF GetEventConfig
    <2>2. \E r \in {"failed"} \cup EventConfig : config' = [config EXCEPT ![s] = r]
        BY <1>2 DEF GetEventConfig
    <2>3. Miss \/ UNCHANGED misses
        BY <1>2 DEF GetEventConfig, LookupFails
    <2> QED BY <2>1, <2>2, <2>3 DEF ApiType, Miss
<1>3. ASSUME NEW s \in Sessions, GetQueueStatus(s) PROVE ApiType'
    <2>1. UNCHANGED <<found, config>> /\ (Miss \/ UNCHANGED misses)
        BY <1>3, PollWrites DEF GetQueueStatus
    <2>2. \E pc \in {"idle", "copy", "rank", "queued", "popped"} : gpc' = [gpc EXCEPT ![s] = pc]
        BY <1>3, PollWrites DEF PollValidate, PollCopy, PollRank, PollLength, Goes, Told, Refused,
               PollAt
    <2>3. UNCHANGED seen \/ \E what \in QueueStatus : seen' = [seen EXCEPT ![s] = what]
        BY <1>3, PollWrites DEF PollCopy, PollLength, Goes, Told, Refused, QueueStatus
    <2> QED BY <2>1, <2>2, <2>3 DEF ApiType, Miss
<1>4. CASE WaitroomStep \/ UNCHANGED <<vars, apiVars>>
    BY <1>4 DEF WaitroomStep, apiVars, ApiType
<1> QED BY <1>1, <1>2, <1>3, <1>4 DEF GrpcNext

\* Types are kept by the lookups, the polls and the waiting room between them.
THEOREM GrpcTypeHolds == GrpcSpec => []GrpcType
<1>1. GrpcInit => ApiType
    BY DEF GrpcInit, ApiType
<1>2. TypeOK /\ ApiType => GrpcType
    BY DEF GrpcType, ApiType
<1> QED BY <1>1, <1>2, ApiStep, GrpcRefines, TypeCorrect, PTL DEF GrpcSpec

-----------------------------------------------------------------------------
(* The order of a poller's answers. *)

\* Only a client whose JoinQueue replied OK polls, and that reply is the last of it.
LEMMA PollsWhenDone ==
    ASSUME NEW s \in Sessions, GetQueueStatus(s)
    PROVE  jpc[s] = "done" /\ UNCHANGED vars
<1>1. JoinReply(s) = "OK" /\ UNCHANGED vars
    BY DEF GetQueueStatus
<1>2. \A error : Code(error) # "OK"
    BY DEF Code, ParseGRPCError, GRPCErrors
<1> QED BY <1>1, <1>2 DEF JoinReply

\* A session whose JoinQueue returned stays so, and does not enter the queue again.
LEMMA DoneStays ==
    ASSUME TypeOK, [Next]_vars, NEW s \in Sessions, jpc[s] = "done"
    PROVE  /\ jpc'[s] = "done"
           /\ s \in queue'[EventOf[s]] => s \in queue[EventOf[s]]
<1>1. /\ EventOf[s] \in Events /\ queue \in [Events -> SUBSET Sessions]
      /\ DOMAIN jpc = Sessions
    BY SessionsAssumption DEF TypeOK, StoreType, HandlerType, JoinType
<1>2. CASE RequestStep
    <2>1. PICK t \in Sessions : JoinQueue(t) \/ LeaveQueue(t)
        BY <1>2 DEF RequestStep
    <2>2. CASE JoinQueue(t)
        <3>1. /\ jpc[t] # "done" /\ \E to : jpc' = [jpc EXCEPT ![t] = to]
              /\ queue' = queue \/ queue' = Enqueued(t)
            BY <2>2 DEF JoinQueue, JoinCreate, JoinEnqueue, JoinActivate, JoinUpdate, JoinAt,
                   ZAdd
        <3> QED BY <1>1, <3>1, SessionsAssumption DEF Enqueued
    <2>3. CASE LeaveQueue(t)
        <3>1. UNCHANGED jpc /\ (queue' = queue \/ queue' = Dequeued(t))
            BY <2>3 DEF LeaveQueue, LeaveGet, LeaveRemove, LeaveCount, LeaveDeactivate,
                   LeaveMark, LeaveWrite, joinVars, redisVars
        <3> QED BY <1>1, <3>1, SessionsAssumption DEF Dequeued
    <2> QED BY <2>1, <2>2, <2>3
<1>3. CASE ProcessorStep
    <2>1. UNCHANGED jpc
        BY <1>3 DEF ProcessorStep, ProcessTick, ProcessCount, ProcessPop, AdmitCheck,
               AdmitToken, AdmitWrite, AdmitSlot, AdmitRollback, AdmitRestore, AdmitReady,
               AdmitTimeout, joinVars
    <2>2. CASE ProcessPop
        <3>1. \/ UNCHANGED queue
              \/ queue' = [queue EXCEPT ![event] = Left(queue[event])]
              \/ queue' = [queue EXCEPT ![event] = Left(Left(queue[event]))]
            BY <2>2 DEF ProcessPop
        <3>2. \A Q : Left(Q) \subseteq Q
            BY DEF Left
        <3> QED BY <1>1, <2>1, <3>1, <3>2
    <2>3. CASE ~ProcessPop
        <3>1. UNCHANGED queue
            BY <1>3, <2>3 DEF ProcessorStep, ProcessTick, ProcessCount, AdmitCheck, AdmitToken,
                   AdmitWrite, AdmitSlot, AdmitRollback, AdmitRestore, AdmitReady, AdmitTimeout,
                   redisVars
        <3> QED BY <2>1, <3>1
    <2> QED BY <2>2, <2>3
<1>4. CASE CheckoutStep \/ UNCHANGED vars
    <2>1. UNCHANGED <<jpc, queue>>
        BY <1>4 DEF CheckoutStep, CheckoutPublish, HandleCheckout, HandlerGet, HandlerToken,
               HandlerBlacklist, HandlerRelease, HandlerWrite, joinVars, redisVars, vars
    <2> QED BY <2>1
<1>5. CASE EnvironmentStep
    BY <1>1, <1>5 DEF EnvironmentStep, ClockTick, Crash, SessionLapse, SessionEvict,
           ProcessingExpire, joinVars, redisVars
<1> QED BY <1>2, <1>3, <1>4, <1>5 DEF Next

\* The record of a session whose JoinQueue returned is not made queued again, while no
\* call fails: nobody holds a copy that says so.
LEMMA NotQueuedAgain ==
    ASSUME TypeOK, RecordInv, [Next]_vars, Untroubled', NEW s \in Sessions, jpc[s] = "done",
           session[s] = None \/ session[s].status # "queued"
    PROVE  session'[s] = None \/ session'[s].status # "queued"
<1>1. ~Fault /\ QueuedHasNoToken /\ ppc \notin {"rollback", "restore"}
    BY NothingFailed DEF RecordInv
<1>2. lpc[s] = "write" => Abandoned(lcopy[s]).status = "abandoned"
    BY DEF Abandoned, TypeOK, HandlerType, LeaveType, Record, SessionRecord
<1>3. \A m \in Messages : m[2] # "queued"
    BY MessagesAssumption DEF Outcomes
<1> QED BY <1>1, <1>2, <1>3, RecordWrites DEF WrittenBy, QueuedHasNoToken

\* The stages in numbers.
LEMMA Stages ==
    /\ Stage["nothing"] = 0 /\ Stage["queued"] = 1 /\ Stage["popped"] = 2
    /\ Stage["admitted"] = 3 /\ Stage["blank"] = 3
BY DEF Stage

Forward(s) == Stage[seen'[s]] >= Stage[seen[s]]

\* A poll answers what its last read found, and keeps what the answers rest on.
LEMMA PollForward ==
    ASSUME ApiType, AnswersFollow, NEW s \in Sessions, GetQueueStatus(s)
    PROVE  AnswersFollow' /\ \A t \in Sessions : Forward(t)
<1>1. UNCHANGED <<session, queue>>
    BY DEF GetQueueStatus, vars, redisVars
<1>2. /\ gpc \in [Sessions -> {"idle", "copy", "rank", "queued", "popped"}]
      /\ seen \in [Sessions -> {"nothing", "queued", "popped", "admitted", "blank"}]
    BY DEF ApiType, QueueStatus
<1>3. /\ seen[s] \in {"admitted", "blank"} => session[s] = None \/ session[s].status # "queued"
      /\ gpc[s] \in {"rank", "queued", "popped"} => seen[s] \notin {"admitted", "blank"}
      /\ gpc[s] = "queued" => seen[s] # "popped"
      /\ "popped" \in {gpc[s], seen[s]} => s \notin queue[EventOf[s]]
    BY DEF AnswersFollow
<1> DEFINE Entry(to, what) ==
        gpc' = [gpc EXCEPT ![s] = to] /\ seen' = [seen EXCEPT ![s] = what]
<1>4. \/ Entry("copy", seen[s])
      \/ Entry("idle", seen[s])
      \/ session[s] # None /\ session[s].status = "queued" /\ Entry("rank", seen[s])
      \/ \E what \in {"admitted", "blank"} :
             session[s].status # "queued" /\ Entry("idle", what)
      \/ s \in queue[EventOf[s]] /\ gpc[s] = "rank" /\ Entry("queued", seen[s])
      \/ s \notin queue[EventOf[s]] /\ gpc[s] = "rank" /\ Entry("popped", seen[s])
      \/ \E what \in {"queued", "popped"} : gpc[s] = what /\ Entry("idle", what)
    <2>1. UNCHANGED seen => seen' = [seen EXCEPT ![s] = seen[s]]
        BY <1>2
    <2>2. CASE PollValidate(s)
        BY <2>1, <2>2 DEF PollValidate, Goes, PollAt
    <2>3. CASE PollCopy(s)
        BY <2>1, <2>3 DEF PollCopy, Goes, Told, Refused, PollAt, IsActive
    <2>4. CASE PollRank(s)
        BY <2>1, <2>4 DEF PollRank, Goes, PollAt
    <2>5. CASE PollLength(s)
        BY <2>5 DEF PollLength, Told, PollAt
    <2>6. CASE UNCHANGED seen /\ gpc' = [gpc EXCEPT ![s] = "idle"]
        BY <2>1, <2>6
    <2> QED BY <2>2, <2>3, <2>4, <2>5, <2>6, PollWrites
<1>5. \A t \in Sessions : t # s => gpc'[t] = gpc[t] /\ seen'[t] = seen[t]
    BY <1>2, <1>4
<1>6. \A t \in Sessions : Stage[seen[t]] \in Int
    BY <1>2, Stages
<1>7. /\ seen'[s] \in {"admitted", "blank"} => session[s] = None \/ session[s].status # "queued"
      /\ gpc'[s] \in {"rank", "queued", "popped"} => seen'[s] \notin {"admitted", "blank"}
      /\ gpc'[s] = "queued" => seen'[s] # "popped"
      /\ "popped" \in {gpc'[s], seen'[s]} => s \notin queue[EventOf[s]]
    BY <1>2, <1>3, <1>4
<1>8. Forward(s)
    <2>1. CASE seen'[s] = seen[s]
        BY <1>6, <2>1 DEF Forward
    <2>2. CASE seen'[s] \in {"admitted", "blank"}
        BY <1>2, <2>2, Stages DEF Forward
    <2>3. CASE seen'[s] \in {"queued", "popped"} /\ gpc[s] = seen'[s]
        BY <1>2, <1>3, <2>3, Stages DEF Forward
    <2>4. \/ seen'[s] = seen[s] \/ seen'[s] \in {"admitted", "blank"}
          \/ seen'[s] \in {"queued", "popped"} /\ gpc[s] = seen'[s]
        BY <1>2, <1>4
    <2> QED BY <2>1, <2>2, <2>3, <2>4
<1>9. AnswersFollow'
    BY <1>1, <1>5, <1>7 DEF AnswersFollow
<1>10. \A t \in Sessions : Forward(t)
    BY <1>5, <1>6, <1>8 DEF Forward
<1> QED BY <1>9, <1>10

\* The waiting room's own steps answer nobody and take back nothing that was answered.
LEMMA WaitroomKeepsAnswers ==
    ASSUME TypeOK, RecordInv, AnswerInv, WaitroomStep \/ UNCHANGED <<vars, apiVars>>
    PROVE  AnswerInv'
<1>1. [Next]_vars /\ UNCHANGED <<gpc, seen>>
    BY DEF WaitroomStep, apiVars
<1>2. AnsweredJoined'
    BY <1>1, DoneStays DEF AnswerInv, AnsweredJoined
<1>3. ASSUME Untroubled' PROVE AnswersFollow'
    <2>1. AnswersFollow
        BY <1>1, <1>3, NothingFailed DEF AnswerInv
    <2> SUFFICES ASSUME NEW s \in Sessions
                 PROVE  /\ seen[s] \in {"admitted", "blank"} =>
                               session'[s] = None \/ session'[s].status # "queued"
                        /\ "popped" \in {gpc[s], seen[s]} => s \notin queue'[EventOf[s]]
        BY <1>1, <2>1 DEF AnswersFollow
    <2>2. seen[s] \in {"admitted", "blank"} \/ "popped" \in {gpc[s], seen[s]} => jpc[s] = "done"
        BY DEF AnswerInv, AnsweredJoined
    <2>3. seen[s] \in {"admitted", "blank"} =>
              session'[s] = None \/ session'[s].status # "queued"
        BY <1>1, <1>3, <2>1, <2>2, NotQueuedAgain DEF AnswersFollow
    <2>4. "popped" \in {gpc[s], seen[s]} => s \notin queue'[EventOf[s]]
        BY <1>1, <2>1, <2>2, DoneStays DEF AnswersFollow
    <2> QED BY <2>3, <2>4
<1> QED BY <1>2, <1>3 DEF AnswerInv

\* Every step keeps the invariant, and while nothing failed moves no answer back.
LEMMA AnswerStep ==
    ASSUME TypeOK, RecordInv, ApiType, AnswerInv, [GrpcNext]_<<vars, apiVars>>
    PROVE  AnswerInv' /\ (Untroubled => \A s \in Sessions : Forward(s) \/ UNCHANGED seen)
<1>1. CASE WaitroomStep \/ UNCHANGED <<vars, apiVars>>
    <2>1. UNCHANGED seen
        BY <1>1 DEF WaitroomStep, apiVars
    <2> QED BY <1>1, <2>1, WaitroomKeepsAnswers
<1>2. ASSUME NEW s \in Sessions, FindEvent(s) \/ GetEventConfig(s)
      PROVE  AnswerInv' /\ UNCHANGED seen
    <2>1. UNCHANGED <<jpc, session, queue, faults, crashes, gpc, seen>>
        BY <1>2 DEF FindEvent, GetEventConfig, vars, joinVars, redisVars, envVars
    <2> QED BY <2>1 DEF AnswerInv, AnsweredJoined, AnswersFollow, Untroubled
<1>3. ASSUME NEW s \in Sessions, GetQueueStatus(s)
      PROVE  AnswerInv' /\ (Untroubled => \A t \in Sessions : Forward(t))
    <2>1. jpc[s] = "done" /\ UNCHANGED vars
        BY <1>3, PollsWhenDone
    <2>2. UNCHANGED <<jpc, faults, crashes>>
        BY <2>1 DEF vars, joinVars, envVars
    <2>3. \A t \in Sessions : t # s => gpc'[t] = gpc[t] /\ seen'[t] = seen[t]
        <3>1. /\ \E pc : gpc' = [gpc EXCEPT ![s] = pc]
              /\ UNCHANGED seen \/ \E what : seen' = [seen EXCEPT ![s] = what]
            BY <1>3, PollWrites DEF PollValidate, PollCopy, PollRank, PollLength, Goes, Told,
                   Refused, PollAt
        <3> QED BY <3>1 DEF ApiType
    <2>4. AnsweredJoined'
        BY <2>1, <2>2, <2>3 DEF AnswerInv, AnsweredJoined
    <2>5. Untroubled => AnswersFollow' /\ \A t \in Sessions : Forward(t)
        BY <1>3, PollForward DEF AnswerInv
    <2> QED BY <2>2, <2>4, <2>5 DEF AnswerInv, Untroubled
<1> QED BY <1>1, <1>2, <1>3 DEF GrpcNext

\* What the answers rest on holds in every run: who was told it is admitted is not queued
\* again, and who was told it was popped is not in the queue again (AnswerInv).
THEOREM AnswerInvHolds == GrpcSpec => []AnswerInv
<1>1. GrpcInit => ApiType /\ AnswerInv
    BY DEF GrpcInit, ApiType, AnswerInv, AnsweredJoined, AnswersFollow
<1>2. TypeOK /\ RecordInv /\ ApiType /\ AnswerInv /\ [GrpcNext]_<<vars, apiVars>> => AnswerInv'
    BY AnswerStep
<1> QED BY <1>1, <1>2, ApiStep, GrpcRefines, TypeCorrect, RecordCorrect, PTL DEF GrpcSpec

\* As long as no call fails a poller's answers only move forward, from waiting over popped
\* to admitted, although JoinQueue, LeaveQueue, the processor and the outcome handlers
\* write back records they read before.
THEOREM AnswersMoveForwardHolds == GrpcSpec => AnswersMoveForward
<1>1. GrpcInit => ApiType
    BY DEF GrpcInit, ApiType
<1>2. TypeOK /\ RecordInv /\ ApiType /\ AnswerInv /\ [GrpcNext]_<<vars, apiVars>>
      => [Untroubled => \A s \in Sessions : Stage[seen'[s]] >= Stage[seen[s]]]_seen
    BY AnswerStep DEF Forward
<1> QED BY <1>1, <1>2, ApiStep, GrpcRefines, TypeCorrect, RecordCorrect, AnswerInvHolds, PTL
        DEF GrpcSpec, AnswersMoveForward
=============================================================================
