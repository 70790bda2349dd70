------------------------------ MODULE GrpcService ------------------------------
(***************************************************************************)
(* What a client of the gRPC server sees: JoinQueue from the lookups at    *)
(* the event service on, and GetQueueStatus, which a client polls once it  *)
(* has its session id.  The handlers behind them are those of Waitroom.    *)
(* LeaveQueue and StreamQueuePosition, whose errors are all "Internal",    *)
(* are in JoinLeave and PositionStream.                                    *)
(***************************************************************************)
EXTENDS Waitroom

CONSTANT MaxMisses  \* bound on failed calls of the lookups and of GetQueueStatus

ASSUME MissesAssumption == MaxMisses \in Nat

VARIABLES
    found,     \* FindOne in JoinQueue's errgroup: "asked", "ok" or "failed"
    config,    \* GetConfig: "asked", "ok", "closed" (no AllowWaitRoom) or "failed"
    reason,    \* the error g.Wait() will return, None without one
    gpc,       \* where GetQueueStatus stands for the client of each session
    seen,      \* what the client was last told of its session
    misses     \* failed calls so far

apiVars == <<found, config, reason, gpc, seen, misses>>

GrpcInit ==
    /\ Init
    /\ found = [s \in Sessions |-> "asked"] /\ config = [s \in Sessions |-> "asked"]
    /\ reason = [s \in Sessions |-> None]
    /\ gpc = [s \in Sessions |-> "idle"]
    /\ seen = [s \in Sessions |-> "nothing"] /\ misses = 0

Miss == misses < MaxMisses /\ misses' = misses + 1

\* mapGRPCError replaces the service's own errors, compared by identity; JoinQueue
\* returns these three.  Any other error, a wrapped one too, stays what it is.
mapGRPCError(error) ==
    CASE error = "event not found"        -> "WTR006"
      [] error = "event config not found" -> "WTR008"
      [] error = "wait room not allowed"  -> "WTR009"
      [] OTHER                            -> error

\* The type GRPCError: what mapGRPCError makes of the service's own errors.
GRPCErrors == {"WTR006", "WTR008", "WTR009"}

\* A GRPCError keeps its code, with the status InvalidArgument; the rest is hidden.
ParseGRPCError(error) == IF error \in GRPCErrors THEN error ELSE "Internal"

Code(error) == ParseGRPCError(mapGRPCError(error))

-----------------------------------------------------------------------------
(* The lookups: two goroutines of an errgroup. *)

\* A mutated form: the group returns the error that came last.
LastError(s, error) == error

\* errgroup keeps the first error and cancels the context of the other goroutine.
FirstError(s, error) == IF reason[s] = None THEN error ELSE reason[s]

LookupFails(s, missing) ==
    \E error \in {missing, "unavailable", "context canceled"} :
        /\ reason' = [reason EXCEPT ![s] = FirstError(s, error)]
        /\ IF error = "unavailable" THEN Miss ELSE UNCHANGED misses
        /\ error = "context canceled" => reason[s] # None

\* An event's configuration, which is used for its AllowWaitRoom only.
EventConfig == {"ok", "closed"}

\* FindOne, of the event service; no event is an error.
FindEvent(s) ==
    /\ found[s] = "asked"
    /\ \/ found' = [found EXCEPT ![s] = "ok"] /\ UNCHANGED <<reason, misses>>
       \/ found' = [found EXCEPT ![s] = "failed"] /\ LookupFails(s, "event not found")
    /\ UNCHANGED <<vars, config, gpc, seen>>

\* GetConfig, of the event service; no configuration is an error.
GetEventConfig(s) ==
    /\ config[s] = "asked"
    /\ \/ \E c \in EventConfig : config' = [config EXCEPT ![s] = c]
          /\ UNCHANGED <<reason, misses>>
       \/ config' = [config EXCEPT ![s] = "failed"] /\ LookupFails(s, "event config not found")
    /\ UNCHANGED <<vars, found, gpc, seen>>

\* g.Wait() returned nil, and the event has a waiting room.
MayEnter(s) == found[s] = "ok" /\ config[s] = "ok"

\* A mutated form: JoinQueue replies before its UpdateSession.
JoinReplyEarly(s) ==
    CASE found[s] = "asked" \/ config[s] = "asked" -> "none"
      [] reason[s] # None                          -> Code(reason[s])
      [] config[s] = "closed"                      -> Code("wait room not allowed")
      [] jpc[s] \in {"update", "done"}             -> "OK"
      [] OTHER                                     -> "none"

\* The code JoinQueue replies with, once it has.
JoinReply(s) ==
    CASE found[s] = "asked" \/ config[s] = "asked" -> "none"
      [] reason[s] # None                          -> Code(reason[s])
      [] config[s] = "closed"                      -> Code("wait room not allowed")
      [] jpc[s] = "done"                           -> "OK"
      [] jpc[s] \in {"failed", "refused"}          -> "Internal"
      [] OTHER                                     -> "none"

-----------------------------------------------------------------------------
(* GetQueueStatus, one call at a time for each client. *)

\* What a reply of GetQueueStatus tells: a position, the position -1, a token, or none.
QueueStatus == {"queued", "popped", "admitted", "blank"}

PollAt(s, from, to) == gpc[s] = from /\ gpc' = [gpc EXCEPT ![s] = to]

\* The reply is an error, which tells the client nothing of its session's progress.
Refused(s, from) == PollAt(s, from, "idle") /\ UNCHANGED seen

Told(s, from, what) == PollAt(s, from, "idle") /\ seen' = [seen EXCEPT ![s] = what]

Goes(s, from, to) == PollAt(s, from, to) /\ UNCHANGED seen

\* A mutated form: an admitted session is not active.
ActiveWhileQueued(s) == session[s].status = "queued"

IsActive(s) == session[s].status \in {"queued", "admitted"}

\* ValidateSession refuses a session that is gone, has lapsed or is not active, and
\* the next call starts over.
PollValidate(s) ==
    /\ session[s] # None /\ s \notin lapsed /\ IsActive(s)
    /\ Goes(s, "idle", "copy")

\* GetSession reads the record anew.  The reply's status is never filled in: of a
\* session that has ended meanwhile it tells neither a position nor a token.
PollCopy(s) ==
    \/ session[s] = None /\ Refused(s, "copy")
    \/ /\ session[s] # None
       /\ \/ session[s].status = "queued" /\ Goes(s, "copy", "rank")
          \/ session[s].status = "admitted" /\ Told(s, "copy", "admitted")
          \/ ~IsActive(s) /\ Told(s, "copy", "blank")

\* ZRANK; the position of a session that was popped is -1 ...
PollRank(s) == Goes(s, "rank", IF s \in queue[EventOf[s]] THEN "queued" ELSE "popped")

\* ... and the reply, after a ZCARD.
PollLength(s) == \E what \in {"queued", "popped"} : Told(s, what, what)

\* One of the calls fails.
PollFails(s) == Miss /\ \E from \in {"copy", "rank", "queued", "popped"} : Refused(s, from)

GetQueueStatus(s) ==
    /\ s \in Pollers /\ JoinReply(s) = "OK"
    /\ \/ /\ PollValidate(s) \/ PollCopy(s) \/ PollRank(s) \/ PollLength(s)
          /\ UNCHANGED misses
       \/ PollFails(s)
    /\ UNCHANGED <<vars, found, config, reason>>

-----------------------------------------------------------------------------

\* A step of the waiting room: JoinQueue goes on after the lookups, and the client
\* that polls starts a checkout only when it was told its token.
WaitroomStep ==
    /\ Next
    /\ \A s \in Sessions : jpc[s] = "idle" /\ jpc'[s] # "idle" => MayEnter(s)
    /\ \A m \in Messages :
           hpc[m] = "none" /\ hpc'[m] # "none" =>
               m[1] \in Notified \/ seen[m[1]] = "admitted"
    /\ UNCHANGED apiVars

GrpcNext ==
    \/ WaitroomStep
    \/ \E s \in Sessions : FindEvent(s) \/ GetEventConfig(s) \/ GetQueueStatus(s)

GrpcSpec == GrpcInit /\ [][GrpcNext]_<<vars, apiVars>>

\* The Go scheduler runs every request that was accepted, the ticker keeps firing, a
\* set of places that is full gets no SADD, so that its TTL runs out, and a client
\* that polls goes on polling.
GrpcFair ==
    /\ GrpcSpec
    /\ WF_<<vars, apiVars>>(ProcessorStep /\ UNCHANGED apiVars)
    /\ \A s \in Sessions :
           WF_<<vars, apiVars>>((JoinEnqueue(s) \/ JoinActivate(s) \/ JoinUpdate(s))
                                /\ UNCHANGED apiVars)
    /\ \A s \in Pollers : WF_<<vars, apiVars>>(GetQueueStatus(s))
    /\ \A e \in Events :
           WF_<<vars, apiVars>>(Cardinality(processing[e]) >= MaxConcurrent
                                /\ ProcessingExpire(e) /\ UNCHANGED apiVars)

-----------------------------------------------------------------------------

\* Every variable has a value of its type.
GrpcType ==
    /\ TypeOK
    /\ found \in [Sessions -> {"asked", "ok", "failed"}]
    /\ config \in [Sessions -> {"asked", "failed"} \cup EventConfig]
    /\ gpc \in [Sessions -> {"idle", "copy", "rank", "queued", "popped"}]
    /\ seen \in [Sessions -> {"nothing"} \cup QueueStatus]
    /\ misses \in Nat

\* A request that the lookups refuse is told why, unless the event service cannot
\* be reached: when both lookups fail, neither the cancellation of one by the other
\* nor the missing entry in mapGRPCError hides the reason.
RefusalIsNamed ==
    misses = 0 =>
        \A s \in Sessions : jpc[s] = "idle" => JoinReply(s) # "Internal"

Stage == [nothing |-> 0, queued |-> 1, popped |-> 2, admitted |-> 3, blank |-> 3]

\* As long as no call of the service fails, a client that was told it is admitted is
\* never told later that it waits, nor one that it was popped that it is back in the
\* queue, although five handlers write back records they read before.
AnswersMoveForward ==
    [][Untroubled => \A s \in Sessions : Stage[seen'[s]] >= Stage[seen[s]]]_seen

-----------------------------------------------------------------------------
(* Why AnswersMoveForward holds: what every step preserves of the answers  *)
(* and the records they come from (GrpcProofs).                            *)

\* Only a client whose JoinQueue returned its session id gets answers.
AnsweredJoined ==
    \A s \in Sessions : gpc[s] # "idle" \/ seen[s] # "nothing" => jpc[s] = "done"

\* After the last position comes no earlier one: a session seen admitted or ended is
\* not queued again, and one seen popped does not come back.
AnswersFollow ==
    \A s \in Sessions :
        /\ seen[s] \in {"admitted", "blank"} => session[s] = None \/ session[s].status # "queued"
        /\ gpc[s] \in {"rank", "queued", "popped"} => seen[s] \notin {"admitted", "blank"}
        /\ gpc[s] = "queued" => seen[s] # "popped"
        /\ "popped" \in {gpc[s], seen[s]} => s \notin queue[EventOf[s]]

AnswerInv == AnsweredJoined /\ (Untroubled => AnswersFollow)

-----------------------------------------------------------------------------

\* A client that is in the queue when its JoinQueue returns, and goes on polling,
\* learns that it is admitted, unless its session ends.  Nobody leaves.
PollIsTold ==
    \A s \in Pollers :
        s \in queue[EventOf[s]] /\ jpc[s] = "done" ~>
            \/ seen[s] \in {"admitted", "blank"} \/ s \in lapsed \/ SomeoneLeft
            \/ session[s] # None /\ session[s].status \in Outcomes
=============================================================================
