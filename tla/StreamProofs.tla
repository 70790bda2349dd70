----------------------------- MODULE StreamProofs -----------------------------
(***************************************************************************)
(* For channels of any size, any number of messages and any number of      *)
(* failures: neither channel overflows, and a position stream ends without *)
(* an error only after the last change was handed over or with its client  *)
(* gone.                                                                   *)
(***************************************************************************)
EXTENDS PositionStream, TLAPS, SequenceTheorems

\* Once the context has ended it stays so, and only RpcEnd and RpcSend end the handler.
LEMMA OthersKeep ==
    ASSUME EndInv, Others
    PROVE  EndInv'
<1>1. UNCHANGED <<conv, errCh, handed, rpc>> /\ (gone' = gone \/ gone' = TRUE)
    BY DEF Others, AdmitRecord, AdmitUndo, AdmitPublish, LeavePublish, LeaveMark, CheckoutEnds,
           OtherEvent, ClientGoes, svcVars, convVars, rpcVars
<1>2. gone => gone'
    BY <1>1, Zenon
<1> QED BY <1>1, <1>2 DEF EndInv, OkMeansHanded, CtxDone

\* StreamSessionPosition returns without an error when it has handed the change over,
\* or finds the channel of processMessages closed.
LEMMA SvcKeeps ==
    ASSUME EndInv, SvcStep
    PROVE  EndInv'
<1> USE DEF EndInv, OkMeansHanded, CtxDone, Go, Return, GiveUp, rpcVars, convVars
<1>1. CASE SvcValidate
    BY <1>1 DEF SvcValidate
<1>2. CASE SvcRead
    BY <1>2 DEF SvcRead
<1>3. CASE SvcBuild
    BY <1>3 DEF SvcBuild
<1>4. CASE SvcSend
    BY <1>4 DEF SvcSend, Closes
<1>5. CASE SvcSubscribe
    BY <1>5 DEF SvcSubscribe
<1>6. CASE SvcListen
    BY <1>6 DEF SvcListen
<1>7. CASE SvcCancelled
    BY <1>7 DEF SvcCancelled
<1> QED BY <1>1, <1>2, <1>3, <1>4, <1>5, <1>6, <1>7 DEF SvcStep

\* processMessages ends with the context only.
LEMMA ConvKeeps ==
    ASSUME EndInv, ConvStep
    PROVE  EndInv'
BY DEF ConvStep, ConvTake, ConvPush, ConvEnd, EndInv, OkMeansHanded, CtxDone, svcVars, rpcVars

\* The handler, still running, returns without an error with that of errCh only.
LEMMA RpcKeeps ==
    ASSUME EndInv, RpcStep
    PROVE  EndInv'
BY DEF RpcStep, RpcEnd, RpcSend, EndInv, OkMeansHanded, CtxDone, convVars

\* In every run, a stream that ended without an error has handed the last change to
\* the channel of its handler, unless its client is gone.
THEOREM OkMeansHandedHolds == Spec => []OkMeansHanded
<1>1. Init => EndInv
    BY DEF Init, EndInv, OkMeansHanded
<1>2. EndInv /\ [Next]_svars => EndInv'
    <2> SUFFICES ASSUME EndInv, [Next]_svars PROVE EndInv'
        OBVIOUS
    <2>1. CASE Next
        BY <2>1, OthersKeep, SvcKeeps, ConvKeeps, RpcKeeps DEF Next
    <2>2. CASE UNCHANGED svars
        BY <2>2 DEF svars, svcVars, convVars, rpcVars, EndInv, OkMeansHanded, CtxDone
    <2> QED BY <2>1, <2>2
<1>3. EndInv => OkMeansHanded
    BY DEF EndInv
<1> QED BY <1>1, <1>2, <1>3, PTL DEF Spec

-----------------------------------------------------------------------------
(* Types, and the room in the channels. *)

\* A failed call is counted, whichever way it fails.
LEMMA FailType ==
    /\ faults \in Nat /\ Fault => faults' \in Nat
    /\ faults \in Nat /\ Fails => faults' \in Nat
BY DEF Fault, Fails

\* A message published leaves the types of the subscription and of due.
LEMMA PublishType ==
    ASSUME inbox \in Nat, due \in BOOLEAN, NEW st, NEW settled, Publish(st, settled)
    PROVE  inbox' \in Nat /\ due' \in BOOLEAN
<1>1. inbox' \in Nat
    BY DEF Publish
<1>2. due' \in BOOLEAN
    BY Zenon DEF Publish
<1> QED BY <1>1, <1>2

\* The rest of the waiting room changes the status, the messages and the failures.
LEMMA TypeOthers ==
    ASSUME TypeOK, Others
    PROVE  TypeOK'
<1> USE DEF TypeOK, PositionStreamUpdate
<1>1. CASE AdmitRecord \/ LeaveMark \/ CheckoutEnds \/ AdmitUndo
    <2>1. /\ UNCHANGED <<events, due, svcVars, convVars, rpcVars>>
          /\ status' \in PositionStreamUpdate /\ adm' \in {"waiting", "recorded", "settled"}
          /\ leave' \in {"no", "published", "done"} /\ faults' \in Nat
        BY <1>1, FailType DEF AdmitRecord, LeaveMark, CheckoutEnds, AdmitUndo
    <2> QED BY <2>1 DEF svcVars, convVars, rpcVars
<1>2. CASE AdmitPublish \/ LeavePublish \/ OtherEvent
    <2>1. /\ UNCHANGED <<status, svcVars, conv, ups, rpcVars>> /\ faults' \in Nat
          /\ adm' \in {"waiting", "recorded", "settled"}
          /\ leave' \in {"no", "published", "done"} /\ events' \in Nat
        <3>1. CASE AdmitPublish
            BY <3>1, FailType DEF AdmitPublish, Publish
        <3>2. CASE LeavePublish
            BY <3>2, FailType DEF LeavePublish, Publish
        <3>3. CASE OtherEvent
            BY <3>3 DEF OtherEvent, Publish
        <3> QED BY <1>2, <3>1, <3>2, <3>3
    <2>2. UNCHANGED <<inbox, due>> \/ \E st, settled : Publish(st, settled)
        BY <1>2 DEF AdmitPublish, LeavePublish, OtherEvent
    <2>3. inbox' \in Nat /\ due' \in BOOLEAN
        BY <2>2, PublishType
    <2> QED BY <2>1, <2>3 DEF svcVars, rpcVars
<1>3. CASE ClientGoes
    BY <1>3 DEF ClientGoes, envVars, svcVars, convVars
<1> QED BY <1>1, <1>2, <1>3 DEF Others

\* StreamSessionPosition puts an update into the channel only when there is room.
LEMMA TypeSvc ==
    ASSUME TypeOK, SvcStep
    PROVE  TypeOK'
<1>1. /\ UNCHANGED <<envVars, inbox, rpcVars>>
      /\ UNCHANGED faults \/ Fault \/ Fails
    BY DEF SvcStep, SvcValidate, SvcRead, SvcBuild, SvcSend, SvcSubscribe, SvcListen,
           SvcCancelled, convVars
<1>2. /\ svc' \in {"validate", "read", "build", "send", "subscribe", "listen", "done"}
      /\ sub' \in {"no", "open", "closed"} /\ errCh' \in {"empty", "ok", "error"}
      /\ conv' \in {"off", "run", "push", "ended"} /\ held' \in PositionStreamUpdate
    BY DEF SvcStep, SvcValidate, SvcRead, SvcBuild, SvcSend, SvcSubscribe, SvcListen,
           SvcCancelled, Go, Return, GiveUp, TypeOK, convVars
<1>3. ups' \in 0 .. Buffer
    BY StreamAssumption DEF SvcStep, SvcValidate, SvcRead, SvcBuild, SvcSend, SvcSubscribe,
           SvcListen, SvcCancelled, TypeOK, convVars
<1>4. UNCHANGED <<upds, handed>> \/ SvcSend
    BY DEF SvcStep, SvcValidate, SvcRead, SvcBuild, SvcSubscribe, SvcListen, SvcCancelled
<1>5. upds' \in Seq(PositionStreamUpdate) /\ Len(upds') <= Buffer
    BY <1>4, StreamAssumption DEF SvcSend, HasRoom, TypeOK
<1>6. handed' \in BOOLEAN
    BY <1>4, Zenon DEF SvcSend, TypeOK
<1> QED BY <1>1, <1>2, <1>3, <1>5, <1>6, FailType DEF TypeOK, envVars, rpcVars

\* processMessages puts a message into its channel only when there is room, and the
\* handler takes the updates out.
LEMMA TypeConvRpc ==
    ASSUME TypeOK, ConvStep \/ RpcStep
    PROVE  TypeOK'
<1>1. CASE ConvStep
    BY <1>1, StreamAssumption
       DEF ConvStep, ConvTake, ConvPush, ConvEnd, TypeOK, envVars, svcVars, rpcVars
<1>2. CASE RpcEnd
    BY <1>2 DEF RpcEnd, TypeOK, envVars, convVars
<1>3. CASE RpcSend
    <2>1. /\ Tail(upds) \in Seq(PositionStreamUpdate) /\ Len(Tail(upds)) <= Buffer
          /\ Head(upds) \in PositionStreamUpdate
        BY <1>3, StreamAssumption DEF RpcSend, TypeOK
    <2>2. ConvertStatus(Head(upds)) \in SessionStatus
        BY <2>1 DEF ConvertStatus, SessionStatus, PositionStreamUpdate
    <2>3. /\ upds' = Tail(upds) /\ client' \in {"none"} \cup SessionStatus
          /\ rpc' \in {"running", "ok", "error"}
          /\ UNCHANGED <<gone, svc, held, sub, errCh, handed, envVars, faults, convVars>>
        BY <1>3, <2>2 DEF RpcSend, TypeOK
    <2> QED BY <2>1, <2>3 DEF TypeOK, envVars, convVars
<1> QED BY <1>1, <1>2, <1>3 DEF RpcStep

\* Neither channel of a stream ever holds more than it has places for, and everything the
\* three goroutines keep has its type.
THEOREM StreamTypeHolds == Spec => []TypeOK
<1>1. Init => TypeOK
    <2> SUFFICES ASSUME Init PROVE TypeOK
        OBVIOUS
    <2>1. upds \in Seq(PositionStreamUpdate) /\ Len(upds) <= Buffer
        <3>1. upds = <<>>
            BY DEF Init
        <3>2. upds \in Seq(PositionStreamUpdate) /\ Len(upds) = 0
            BY <3>1, EmptySeq
        <3> QED BY <3>2, StreamAssumption
    <2>2. gone \in BOOLEAN /\ handed \in BOOLEAN /\ due \in BOOLEAN
        BY DEF Init
    <2> QED BY <2>1, <2>2, StreamAssumption DEF Init, TypeOK, PositionStreamUpdate
<1>2. TypeOK /\ [Next]_svars => TypeOK'
    <2>1. TypeOK /\ UNCHANGED svars => TypeOK'
        BY DEF svars, envVars, svcVars, convVars, rpcVars, TypeOK
    <2> QED BY <2>1, TypeOthers, TypeSvc, TypeConvRpc DEF Next
<1> QED BY <1>1, <1>2, PTL DEF Spec
=============================================================================
