---------------------------- MODULE PositionStream ----------------------------
(***************************************************************************)
(* The position stream of one session: the gRPC handler, the goroutine of  *)
(* StreamSessionPosition that feeds it through a channel of Buffer places, *)
(* and the goroutine processMessages that turns the messages of the Redis  *)
(* subscription into updates, through a channel of Buffer places too.      *)
(* What the rest of the waiting room does is reduced to the session's      *)
(* status and to the messages published for its event.  A message carries  *)
(* nothing the stream uses: the session is read anew for each.             *)
(***************************************************************************)
EXTENDS Integers, Sequences

CONSTANTS
    Buffer,     \* places of the two channels, 10 in the code
    MaxEvents,  \* bound on the messages published by other sessions
    MaxFaults   \* bound on failed calls and lost messages

ASSUME StreamAssumption == Buffer \in Nat \ {0} /\ MaxEvents \in Nat /\ MaxFaults \in Nat

VARIABLES
    status,   \* the session's status: "queued", "admitted" or "ended"
    adm,      \* its admission: "waiting", "recorded", "settled"
    leave,    \* its LeaveQueue: "no", "published", "done"
    events,   \* messages of other sessions so far
    faults,
    gone,     \* the client has disconnected
    svc,      \* where StreamSessionPosition stands
    held,     \* the status it read
    sub,      \* its subscription: "no", "open", "closed"
    conv,     \* where processMessages stands
    inbox,    \* messages the subscription has not given to processMessages
    ups,      \* messages in its channel
    upds,     \* updates in the channel to the gRPC handler, as statuses
    errCh,    \* "empty", or how StreamSessionPosition returned: "ok", "error"
    rpc,      \* "running", or how the handler ended: "ok", "error"
    client,   \* the status in the last update the client got, as the protocol names it
    handed,   \* an update with a status other than queued was put into upds
    due       \* a message was delivered after the status had changed for good

envVars == <<status, adm, leave, events, due>>
svcVars == <<svc, held, sub, upds, errCh, handed>>
convVars == <<conv, inbox, ups>>
rpcVars == <<rpc, client, gone>>
svars == <<envVars, faults, svcVars, convVars, rpcVars>>

Init ==
    /\ \/ status = "queued" /\ adm = "waiting"
       \/ status = "admitted" /\ adm = "settled"
    /\ leave = "no" /\ events = 0 /\ due = FALSE /\ faults = 0
    /\ svc = "validate" /\ held = "queued" /\ sub = "no" /\ errCh = "empty"
    /\ upds = <<>> /\ handed = FALSE
    /\ conv = "off" /\ inbox = 0 /\ ups = 0
    /\ rpc = "running" /\ client = "none" /\ gone = FALSE

\* The stream's context: gRPC cancels it when the client goes or the handler returns.
CtxDone == gone \/ rpc # "running"

Fault == faults < MaxFaults /\ faults' = faults + 1

\* A Redis call of the stream fails, which it does for sure with its context.
Fails == Fault \/ (CtxDone /\ UNCHANGED faults)

\* A PositionStreamUpdate, of which only the status matters here.  "ended" is any status a session ends with.
PositionStreamUpdate == {"queued", "admitted", "ended"}

\* Those of the protocol that are used.  "ENDED" is COMPLETED, EXPIRED, FAILED or
\* CANCELLED.
SessionStatus == {"QUEUED", "READY", "ENDED"}

\* convertSessionStatusToProto.
ConvertStatus(st) ==
    CASE st = "queued"   -> "QUEUED"
      [] st = "admitted" -> "READY"
      [] st = "ended"    -> "ENDED"

-----------------------------------------------------------------------------
(* The rest of the waiting room. *)

\* PUBLISH reaches a subscription that is open; st is the status it finds.
Publish(st, settled) ==
    IF sub = "open"
    THEN inbox' = inbox + 1 /\ due' = (due \/ (st # "queued" /\ settled))
    ELSE UNCHANGED <<inbox, due>>

\* UpdateCheckoutToken, which does not look at the status again.
AdmitRecord ==
    /\ adm = "waiting" /\ status # "admitted"
    /\ status' = "admitted" /\ adm' = "recorded"
    /\ UNCHANGED <<leave, events, due, faults, svcVars, convVars, rpcVars>>

\* The rollback when AddToProcessing fails.
AdmitUndo ==
    /\ adm = "recorded" /\ Fault
    /\ status' = "queued" /\ adm' = "waiting"
    /\ UNCHANGED <<leave, events, due, svcVars, convVars, rpcVars>>

\* After its batch the processor publishes user_admitted; a failure is only logged.
AdmitPublish ==
    /\ adm = "recorded" /\ adm' = "settled"
    /\ \/ Publish(status, TRUE) /\ UNCHANGED faults
       \/ Fault /\ UNCHANGED <<inbox, due>>
    /\ UNCHANGED <<status, leave, events, svcVars, conv, ups, rpcVars>>

\* DequeueSession publishes user_left before LeaveQueue marks the session.
LeavePublish ==
    /\ leave = "no" /\ leave' = "published"
    /\ \/ Publish(status, adm # "recorded") /\ UNCHANGED faults
       \/ Fault /\ UNCHANGED <<inbox, due>>
    /\ UNCHANGED <<status, adm, events, svcVars, conv, ups, rpcVars>>

LeaveMark ==
    /\ leave = "published" /\ leave' = "done" /\ status' = "ended"
    /\ UNCHANGED <<adm, events, due, faults, svcVars, convVars, rpcVars>>

\* The outcome of the checkout: the handlers publish nothing.
CheckoutEnds ==
    /\ adm = "settled" /\ status = "admitted" /\ status' = "ended"
    /\ UNCHANGED <<adm, leave, events, due, faults, svcVars, convVars, rpcVars>>

\* Another session of the event joins, leaves or is admitted.
OtherEvent ==
    /\ events < MaxEvents /\ events' = events + 1
    /\ Publish(status, adm # "recorded")
    /\ UNCHANGED <<status, adm, leave, faults, svcVars, conv, ups, rpcVars>>

ClientGoes ==
    /\ ~gone /\ gone' = TRUE
    /\ UNCHANGED <<envVars, faults, svcVars, convVars, rpc, client>>

Others == AdmitRecord \/ AdmitUndo \/ AdmitPublish \/ LeavePublish \/ LeaveMark
          \/ CheckoutEnds \/ OtherEvent \/ ClientGoes

-----------------------------------------------------------------------------
(* StreamSessionPosition. *)

Go(to) == svc' = to /\ UNCHANGED <<sub, errCh>>

\* It returns: the deferred Close of the subscription, then the result into errCh.
Return(result) ==
    /\ svc' = "done" /\ errCh' = result
    /\ sub' = IF sub = "open" THEN "closed" ELSE sub

\* A failed read or a failed build ends the stream before the subscription, and is
\* passed over after it.
GiveUp == IF sub = "no" THEN Return("error") ELSE Go("listen")

\* ValidateSession reads the session once ...
SvcValidate ==
    /\ svc = "validate"
    /\ \/ status # "ended" /\ Go("read") /\ UNCHANGED faults
       \/ status = "ended" /\ Return("error") /\ UNCHANGED faults
       \/ Fails /\ Return("error")
    /\ UNCHANGED <<held, upds, handed, envVars, convVars, rpcVars>>

\* A mutated form: after a message the stream goes on with the session it has.
SvcReadOnce ==
    /\ svc = "read" /\ Go("build")
    /\ held' = IF sub = "no" THEN status ELSE held
    /\ UNCHANGED <<faults, upds, handed, envVars, convVars, rpcVars>>

\* ... and GetSession again, as after every message.
SvcRead ==
    /\ svc = "read"
    /\ \/ held' = status /\ Go("build") /\ UNCHANGED faults
       \/ Fails /\ GiveUp /\ UNCHANGED held
    /\ UNCHANGED <<upds, handed, envVars, convVars, rpcVars>>

\* buildPositionUpdate asks Redis for the position of a queued session.
SvcBuild ==
    /\ svc = "build"
    /\ \/ Go("send") /\ UNCHANGED faults
       \/ held = "queued" /\ Fails /\ GiveUp
    /\ UNCHANGED <<held, upds, handed, envVars, convVars, rpcVars>>

\* Mutated forms: the channel takes one update more; any update is the last.
RoomForOneMore == Len(upds) <= Buffer
ClosesAlways == TRUE

HasRoom == Len(upds) < Buffer

\* Whether the update just sent is the last one.
Closes == held # "queued"

\* The update goes into the channel.  The first one does not close the stream,
\* whatever its status.
SvcSend ==
    /\ svc = "send" /\ HasRoom
    /\ upds' = Append(upds, held) /\ handed' = (handed \/ held # "queued")
    /\ \/ sub = "no" /\ Go("subscribe")
       \/ sub # "no" /\ Closes /\ Return("ok")
       \/ sub # "no" /\ ~Closes /\ Go("listen")
    /\ UNCHANGED <<held, faults, envVars, convVars, rpcVars>>

\* SUBSCRIBE and its confirmation; from here on messages are received.
SvcSubscribe ==
    /\ svc = "subscribe"
    /\ \/ svc' = "listen" /\ sub' = "open" /\ conv' = "run" /\ UNCHANGED <<errCh, faults>>
       \/ Fails /\ Return("error") /\ UNCHANGED conv
    /\ UNCHANGED <<held, upds, handed, inbox, ups, envVars, rpcVars>>

\* The next message, or the end of a closed channel.
SvcListen ==
    /\ svc = "listen"
    /\ \/ ups > 0 /\ ups' = ups - 1 /\ Go("read")
       \/ ups = 0 /\ conv = "ended" /\ Return("ok") /\ UNCHANGED ups
    /\ UNCHANGED <<held, upds, handed, conv, inbox, faults, envVars, rpcVars>>

\* A mutated form: the send does not wait for the end of the context.
SvcCancelledInListen ==
    /\ svc = "listen" /\ CtxDone /\ Return("error")
    /\ UNCHANGED <<held, upds, handed, faults, envVars, convVars, rpcVars>>

\* Both selects, of the loop and of the sends, also wait for the end of the context.
SvcCancelled ==
    /\ svc \in {"listen", "send"} /\ CtxDone /\ Return("error")
    /\ UNCHANGED <<held, upds, handed, faults, envVars, convVars, rpcVars>>

SvcStep == SvcValidate \/ SvcRead \/ SvcBuild \/ SvcSend \/ SvcSubscribe \/ SvcListen
           \/ SvcCancelled

-----------------------------------------------------------------------------
(* processMessages, and the gRPC handler. *)

ConvTake ==
    /\ conv = "run" /\ inbox > 0 /\ inbox' = inbox - 1 /\ conv' = "push"
    /\ UNCHANGED <<ups, envVars, faults, svcVars, rpcVars>>

ConvPush ==
    /\ conv = "push" /\ ups < Buffer /\ ups' = ups + 1 /\ conv' = "run"
    /\ UNCHANGED <<inbox, envVars, faults, svcVars, rpcVars>>

\* After Close of the subscription it spins on a closed channel until the context ends.
ConvEnd ==
    /\ conv \in {"run", "push"} /\ CtxDone /\ conv' = "ended"
    /\ UNCHANGED <<inbox, ups, envVars, faults, svcVars, rpcVars>>

ConvStep == ConvTake \/ ConvPush \/ ConvEnd

\* The select of StreamQueuePosition takes any case that is ready: the end of the
\* context, the return of StreamSessionPosition, or an update.
RpcEnd ==
    /\ rpc = "running"
    /\ \/ gone /\ rpc' = "error"
       \/ errCh # "empty" /\ rpc' = errCh
    /\ UNCHANGED <<client, gone, upds, svc, held, sub, errCh, handed>>
    /\ UNCHANGED <<envVars, faults, convVars>>

RpcSend ==
    /\ rpc = "running" /\ upds # <<>>
    /\ upds' = Tail(upds)
    /\ \/ ~gone /\ client' = ConvertStatus(Head(upds)) /\ UNCHANGED rpc
       \/ gone /\ rpc' = "error" /\ UNCHANGED client
    /\ UNCHANGED <<gone, svc, held, sub, errCh, handed, envVars, faults, convVars>>

RpcStep == RpcEnd \/ RpcSend

Next == Others \/ SvcStep \/ ConvStep \/ RpcStep

Spec == Init /\ [][Next]_svars

\* The three goroutines run; nothing is assumed of the session, its event or the client.
FairSpec == Spec /\ WF_svars(SvcStep) /\ WF_svars(ConvStep) /\ WF_svars(RpcStep)

-----------------------------------------------------------------------------

\* Every variable has a value of its type, and neither channel holds more than it has
\* places for.
TypeOK ==
    /\ status \in PositionStreamUpdate /\ adm \in {"waiting", "recorded", "settled"}
    /\ leave \in {"no", "published", "done"} /\ events \in Nat /\ faults \in Nat
    /\ gone \in BOOLEAN /\ handed \in BOOLEAN /\ due \in BOOLEAN
    /\ svc \in {"validate", "read", "build", "send", "subscribe", "listen", "done"}
    /\ held \in PositionStreamUpdate /\ sub \in {"no", "open", "closed"}
    /\ conv \in {"off", "run", "push", "ended"} /\ inbox \in Nat /\ ups \in 0 .. Buffer
    /\ upds \in Seq(PositionStreamUpdate) /\ Len(upds) <= Buffer
    /\ errCh \in {"empty", "ok", "error"} /\ rpc \in {"running", "ok", "error"}
    /\ client \in {"none"} \cup SessionStatus

\* A stream ends without an error only when the last change was put into the channel,
\* or the client is gone: a waiting client's stream is never closed on it.
OkMeansHanded == rpc = "ok" => handed \/ gone

\* Nothing is left running of a stream: when its handler has returned, the two
\* goroutines end, also when they wait for room in a channel.
StreamCleansUp == rpc # "running" ~> svc = "done" /\ conv \in {"off", "ended"}

\* The inductive invariant behind OkMeansHanded (StreamProofs): processMessages ends, and
\* StreamSessionPosition returns without an error, for no other reason.
EndInv ==
    /\ conv = "ended" => CtxDone
    /\ errCh = "ok" => handed \/ CtxDone
    /\ OkMeansHanded

\* Without failures, one message that follows the change of status is enough for an
\* update with that status, however many messages wait before it.
ChangeIsHanded == due /\ faults = 0 ~> handed \/ faults > 0 \/ CtxDone

\* STREAMING_IMPLEMENTATION_GUIDE.md:425 says that the user receives the checkout token
\* via the stream when admitted: without failures, a stream that ended without an error
\* has told its client of the change.
OkMeansTold == rpc = "ok" /\ faults = 0 => client \in {"READY", "ENDED"} \/ gone
=============================================================================
