# A verification model of the TicketBottle waiting room

The waiting room puts the users of a ticket sale into a queue per event, admits
them to checkout a batch at a time so that no more than a fixed number are in
checkout at once, and frees their places when the checkout service reports how
the checkout ended. This directory models the service in TLA+, from the start of
its process to the answer a polling client gets, checks the models with TLC and
proves their main safety properties with TLAPS. Line numbers refer to files under
`src/`.

## The system

| Component | Where | State it keeps | Operations |
|---|---|---|---|
| Join and leave requests | `internal/service/waitroom_service.go`, `queue_service.go` | local copies of a session record | `JoinQueue` (two lookups at the event service, then the queue), `LeaveQueue` |
| Status requests | `waitroom_service.go:143-159`, `queue_service.go:116-148` | a copy of the record | `GetQueueStatus`, `ValidateSession` |
| Queue processor | `internal/service/queue_processor.go` | the popped batch, the retry count; mutex, stop channel, counters | tick, `ProcessEventQueue`, `doAdmitUserToCheckout`, `withRetry`, `Start`, `Stop` |
| Outcome handlers | `waitroom_service.go:192-287`, `delivery/kafka/consumer/handlers.go` | the record read first | `HandleCheckoutCompleted`, `Failed`, `Expired` |
| Kafka consumer | `delivery/kafka/consumer/consumer.go`, `pkg/kafka/consumer.go` | the position in a partition, marks; in Kafka the committed offset | `Start`, `ConsumeClaim` |
| Session repository | `internal/repository/redis/session_repository.go` | `waitroom:session:<id>` (JSON, TTL two hours), token blacklist | create, get, update (read-modify-write, no transaction), invalidate token |
| Queue repository | `internal/repository/redis/queue_repository.go` | per event a sorted set (queue) and a set (processing, one TTL of 15 min); the set of active events | `ZADD`, `ZREM`, pop by script, `SADD`+`EXPIRE`, `SREM`, counts, pub/sub |
| Session service and model | `session_service.go`, `models/session.go` | none | tokens, `CanAdmit`, `GetQueueScore`, validation |
| Position stream | `waitroom_service.go:310-411`, `queue_service.go:206-264`, `delivery/grpc/service.go:83-148` | subscription, channels | `StreamSessionPosition` |
| gRPC handlers | `delivery/grpc`, `pkg/response`, `pkg/errors/grpc.go` | none | requests, `mapGRPCError`, `ParseGRPCError` |
| The process | `cmd/api/main.go`, `config/config.go`, `infra/redis`, `pkg/grpc` | connections, goroutines, the context | load and validate, connect, start, serve, shut down |
| Load script | `scripts/simulate-queue.go` | the demo sessions it knows | fills the queue by pipeline, makes users leave, ends checkouts, all on the service's keys |
| Kafka producer | `delivery/kafka/producer` | none | `QUEUE_READY`; `QUEUE_JOINED`, `QUEUE_LEFT` |
| Everything else | Redis wrapper, logging, generated code, commented-out HTTP handler, demo test | none of its own | |

All components meet in Redis. A request goroutine per call, one processor
goroutine per replica and one consumer goroutine per Kafka partition read and write
the same keys with no lock and no transaction beyond the pop script, so **each Redis
or Kafka call is the unit of interleaving**. The checkout service (outside the
repository) learns of a session from `QUEUE_READY` and answers on the three
checkout topics; a user may also poll the status, which returns the token.

What is hard here, and what must be right in spite of it:

- *Check and act apart*: the processor counts the places, pops and takes places
  in separate calls. The number of places must stay within the limit.
- *Read-modify-write of a whole record* by `JoinQueue`, `LeaveQueue`, the
  processor and the outcome handlers. A spent token must stay refused, an
  admission must not be forgotten, and a polling client must not be told that it
  waits after it was told that it is admitted.
- *Partial failure and retry*: an admission is repeated up to three times and
  rolled back at best effort; a client sees an error though the command was
  applied; a pipeline is applied in its first half; the driver sends a `ZADD` again
  after its session was popped. A session must not be announced twice or be in two
  places for any other reason, and an event must not stay full for ever.
- *Time*: one TTL for the whole processing set, renewed by every admission, must
  not run out before the token of a member.
- *Several writers*: replicas of the service, each with a processor, and the load
  script, which follows none of the service's orders.
- *Restart and redelivery*: popped sessions are only in memory; Kafka delivers
  again from the committed offset, which must not pass an outcome nobody handled.
- *Progress*: users may never end a checkout; the queue must still move.
- *Shutdown*: `Stop` waits for the processor's goroutine with a mutex locked that
  the goroutine needs; connections are closed while goroutines may use them.
- *Streams*: three goroutines and two bounded channels per client, messages that
  may be published before the subscription or be read in any order with the end.

`PROJECT.json` lists every hazard at its line, with the property that covers it
or the reason why none does.

## The modules

The waiting room, call by call:

- `WaitroomState`: constants and their assumptions, the variables, session
  records, the order of a Redis sorted set, the primitive writes.
- `JoinLeave`: `JoinCreate`, `JoinEnqueue`, `JoinActivate`, `JoinUpdate` are the
  calls of `JoinQueue`; `LeaveGet`, `LeaveRemove`, `LeaveCount`,
  `LeaveDeactivate`, `LeaveMark`, `LeaveWrite` those of `LeaveQueue`. `jpc` and
  `lpc` say which call comes next; `failed` is an error with the session in the
  queue, `refused` one without. In `resend` the reply of a `ZADD` was lost and the
  driver is about to send the command again, as often as it likes (`MaxRetries`).
- `Processor`: `ProcessTick`, `ProcessCount` (`SCARD`), `ProcessPop` (script),
  then for each session of the batch `AdmitCheck`, `AdmitToken`, `AdmitWrite`,
  `AdmitSlot`, `AdmitReady`, with `AdmitRollback`/`AdmitRestore` on a failed
  `SADD`. `Retry` is `withRetry`; `AdmitTimeout` is the ten-second context.
- `Checkout`: `CheckoutPublish` (the external service), then `HandlerGet`,
  `HandlerToken`, `HandlerBlacklist`, `HandlerRelease`, `HandlerWrite` for each
  message, several messages at once.
- `Environment`: the clock, the session's TTL, the TTL of the processing set, a
  restart (`Crash`) with redelivery of Kafka messages.
- `Waitroom`: composes them; type invariant, properties, the refinement mapping.
- `AdmissionControl`: the abstract specification. A session arrives once, waits,
  then holds a place or is lost; those who came in an earlier second get a place
  before those who came later; at most `MaxConcurrent` hold a place or have one set
  aside. Only while its request is not answered (`asking`) may a session that left
  the queue be put back into it (`Again`); `asking` does not grow after the arrival.
  `Waitroom` maps the requests in `resend` and the pipelines in `piped` to it, so a
  `ZADD` sent again is the only step of the program that may do so.

Around it, each EXTENDS `Waitroom`:

- `GrpcService`: what a client sees. `FindEvent` and `GetEventConfig` are the two
  goroutines of `JoinQueue`'s errgroup, `JoinReply` its answer; `PollValidate`,
  `PollCopy`, `PollRank`, `PollLength` are the calls of `GetQueueStatus`, whose
  answers `seen` remembers as classes (waiting, popped, admitted, nothing). The
  waiting room's own steps go on beside it (`WaitroomStep`).
- `Simulation`: the load script. `Pipe...` steps are the commands of a pipeline,
  one by one, with another writer in between, broken off half-way (`PipeBreaks`) or
  sent again as a whole by the driver (`PipeAgain`); `Exit...` is
  `simulateRandomExits`, `Free...` `simulateCheckoutCompletions`.

Beside it, looking inside what `Waitroom` sees as one step or leaves untimed:

- `OutcomeConsumer`: one partition of the outcome topics: the log, the group's
  owner, the position, the mark and the committed offset, rebalances and dying
  owners. `CheckoutPlaces` EXTENDS it: several replicas on one Redis, the token's
  and the set's 15 minutes counted down, `SADD`+`EXPIRE` applied in part, the
  handlers fed by the consumer.
- `ProcessorLifecycle`: `Start`, `Stop` and `main`'s exit (`StopEnter`, `StopDone`,
  `StopTimeout`, `MainCancel`, `MainExit`) against the goroutine (`LoopTick`,
  `LoopEvents`, `LoopPop`, `LoopAdmit`, `LoopLock`, `LoopQuit`). `mu` is only ever
  held across steps by `Stop`; other critical sections are one step.
- `Config`: the environment variables, `Load` and `Validate` as operators.
- `ServiceMain` EXTENDS `ProcessorLifecycle` and `Config`: the whole of `main`.
  `opened` counts the open connections in `main`'s order; `BootStep`, then RPCs,
  streams and messages, then `ShutdownStep`.
- `PositionStream`: one stream: `Svc...` steps are `StreamSessionPosition`, `Conv...`
  those of `processMessages`, `Rpc...` those of the gRPC handler; the rest is the
  session's status and the messages of its event.

`MCWaitroom`, `MCGrpcService`, `MCSimulation` and `MCServiceMain` are the instances
for TLC; `WaitroomProofs`, `RecordProofs`, `PromiseProofs`, `GrpcProofs`,
`SimulationProofs`, `PlacesProofs`, `ServiceProofs` and `StreamProofs` hold the
proofs. Operators named in comments as mutated forms are plausible bugs that the
properties are tried against; no specification uses them.

### Abstractions

- A record keeps `status`, `token` and `TokenInvalidated`. The tokens of a session
  are numbered in the order they are signed (`signed` counts them; attempts are at
  least a second apart, so the JWTs differ); 0 is the empty token. `entries` counts
  how often a `ZADD` put a session into the queue; no step reads it. Times, positions
  and user data are left out; the score `QueuedAt.Unix()` is the clock at `CreateSession`.
- Session ids are numbers; `<` stands for the order of the ids as strings, by
  which Redis sorts equal scores.
- A session is joined once, by the request that made its id, and a user leaves at
  most once, after the join returned. A lapse (two hours) comes after the join
  request has ended.
- A failing call (`Fault`) is any error the client sees: the command was applied
  or it was not. The driver sends a command whose reply was lost again
  (`REDIS_MAX_RETRIES`, 3). That is a `Fault` too, and modelled where the second time
  does what the first did not: the pop takes other sessions (`ProcessPop`), a `ZADD`
  puts a popped session back (`JoinEnqueue`, `PipeAgain`). What is left out is
  under *What is not modelled*.
  The `TTL` read inside `Update` is one call with its `SET`. In `Waitroom`
  `SADD`+`EXPIRE` is applied as a whole or not at all; the half is in
  `CheckoutPlaces`.
- An outcome handler of `Checkout` that returns an error leaves its message
  unmarked: it comes back after a restart or is passed over by a later mark
  (`sent`, `skipped`). The offsets behind that are in `OutcomeConsumer`.
- Where the handler's calls in a row are only reads, they are one step with the
  last of them or stay out (`ZRANK` and `GetQueueInfo` in `JoinQueue`, `SMEMBERS`).
- In `CheckoutPlaces` all sessions are in the queue from the start, a record is
  read and written in one step, and time is counted in parts of 15 minutes; a
  token may have lost some of its time when it is written. A usable token whose
  place is lost to a failed call of that very session is `exposed`.
- In `Simulation` the script draws its checkouts among real users too, as the
  program does. The demo sessions are those nobody joins.

## What is checked

The runs of `Waitroom` use one event (two events share nothing but the processor's goroutine
and the theorems hold for any number). All runs have `CHECK_DEADLOCK FALSE`: a
waiting room with no further users does stop, `main` returns, a stream ends.

| Run | Instance | Properties |
|---|---|---|
| `Slots` | `MCWaitroom`: 3 sessions, 2 places, batch 2, 2 attempts, 1 fault, 1 restart, TTL of the set | `TypeOK`, `IInv`, `SlotBound`, `BothOnlyIfResent`, `NotifiedOncePerEntry`, `Promise` |
| `Races` | `MCWaitroom`: 2 sessions, 1 place, two outcomes of one session, a leaver, a lapsing session, clock 0..1, no faults | `RecordInv`, `SpentTokenStaysInvalid`, `NoneLost`, `HeldPlaceIsLive` |
| `Live` | `MCGrpcService`: 2 sessions, 1 place, a polling client that may pay before its place is taken, 1 failed lookup or poll, fairness | `GrpcType`, `AnswerInv`, `RefusalIsNamed`, `SpentTokenStaysInvalid`, `AnswersMoveForward`, `QueuedIsNotified`, `PollIsTold` |
| `Places` | `CheckoutPlaces`: 2 replicas, one of which gets the partition, 2 sessions, 1 place, batch 2, 2 attempts, lifetime 2, 1 trouble, fairness | `TypeOK`, `PlaceOutlivesToken`, `AdmittedByOne`, `EachKeepsBound`, `CommitsFollowTries`, `OutcomeIsTried`, `FullFreesUp` |
| `Script` | `MCSimulation`: one demo session, one user who may leave, 1 place, 1 fault | `SimType`, `ScriptKeepsPlaces`, `Promise` |
| `Shutdown` | `MCServiceMain`: four environments, 2 events, batches up to 2, calls of any duration, 1 RPC and 1 stream at a time, fairness | `ServiceType`, `GracefulIsComplete`, `ClosedAfterUse`, `ShutdownEnds`, `ServedIsProcessed` |
| `Stream` | `PositionStream`: channels of 1 place, 2 messages of others, 1 fault, fairness | `TypeOK`, `OkMeansHanded`, `StreamCleansUp`, `ChangeIsHanded` |
| `StaleJoin`, `StrandedEvent`, `ZeroBatch`, `StopBlocks`, `LastUpdate` | the smallest instance of each | one statement of the documents or comments each, violated |

The queue and its places:

- `SlotBound`: never more than the limit in checkout, although the count, the pop
  and each `SADD` are apart and admissions fail, retry, roll back and restart.
- `BothOnlyIfResent`: a session is in the queue and in checkout (or being admitted)
  at once only when a `ZADD` sent again put it back after it had been popped. That
  does happen in the run, and the code has nothing against it; but no retry,
  rollback, second run of the pop or restart leads there.
- `NotifiedOncePerEntry`: the checkout service hears of a session at most once for
  each time it entered the queue: with one token, unless its `ZADD` was sent again.
  In the run it is announced a second time after `JoinUpdate` wrote the record it
  had built over the admission, so that the second pop finds it queued.
- `Promise`: the abstract specification, whatever fails or is sent again. It is about
  queue and places; what the records say is `RecordInv`.
- `NoneLost`: without failures and restarts, a joined session that did not leave
  is queued, being admitted or announced. With a failure the code does lose
  sessions: an admission that is given up is not queued again.
- `HeldPlaceIsLive`: without failures, a place is held only by a session just
  admitted or announced whose outcome has not been handled. The exception are
  the `Pollers`: a token read from the status before the place is taken can be
  used, and its outcome handled, before the `SADD`; that place is then freed by
  the TTL of the set only.
- `SpentTokenStaysInvalid`: without failures, once one outcome handler of a session has
  ended, no token of it validates, whatever stale record is written afterwards.
- `RecordInv`: the inductive invariant of these three (see *What is proved*).

Time, replicas and Kafka:

- `PlaceOutlivesToken`: a token that is still accepted has its place (or is one
  call before it), although every admission renews the TTL of the whole set and the
  outcome handlers take places back. `exposed` are the sessions for which a call
  failed just there: for them the code promises nothing.
- `AdmittedByOne`: replicas that pop the same queue never share a session.
- `EachKeepsBound`: a replica keeps the limit for the places it gave, also when the
  others fill the set between its `SCARD` and its `SADD`. Two replicas together
  may give twice as many; that is what the code does, not what it prevents.
- `CommitsFollowTries`, `OutcomeIsTried`: from its first commit on the group never
  commits past an outcome whose handler has not returned, and every outcome is
  handled in the end. Before the first commit `OffsetNewest` does skip outcomes.
- `FullFreesUp`: after one trouble of any kind (failed call, half a pipeline, lost
  outcome, evicted record, restart) a full event gets free places again. Two troubles
  may block it: a half-applied pipeline that left the key without a TTL, and a failed
  rollback or `SREM` for its only member.

Clients:

- `RefusalIsNamed`: when both lookups of a request fail, in any order, with one
  cancelling the other, the client is told the reason, unless the event service
  could not be reached.
- `AnswersMoveForward`: while no call of the service failed and nothing restarted, the
  answers one client gets never go back from admitted to waiting, although five
  handlers write back records they read before. With a failed `SADD` they may: the
  rollback makes the record queued again on purpose. `AnswerInv` is its inductive
  invariant.
- `QueuedIsNotified`, `PollIsTold`: liveness, below.
- `OkMeansHanded`: a waiting client's stream is not closed without the change that
  ends it being put into the channel. `StreamCleansUp`: no goroutine is left when
  the handler has returned, also when both channels are full. `ChangeIsHanded`:
  one message after the change is enough, however many wait before it.

The process and the script:

- `GracefulIsComplete`: a stop that reports success has outlived the goroutine and
  cost no popped session its admission, wherever the signal met the tick.
- `ClosedAfterUse`: the deferred calls close no connection that an RPC, the consumer
  or, after a graceful stop, the processor still uses.
- `ShutdownEnds`: after a signal the process ends once its streams do: the timeout
  breaks the circle of `Stop` and the tick.
- `ServedIsProcessed`: the service does not go on serving without a processor, also
  with `QUEUE_PROCESS_INTERVAL=0`, which `Validate` lets pass and which then panics.
- `ScriptKeepsPlaces`: the script's additions, removals and writes, between any two
  calls of the service and sent again after any of them, leave the service's inductive
  invariant intact.

### The bounds

Two or three sessions are enough for one admitted, one in the same batch and one
still waiting; two places let one be held while another is taken; one fault
reaches each error path and, with two attempts, the retry that follows it. The
bounds on the clock, faults and restarts (`MaxClock`, `MaxFaults`, `MaxCrashes`,
`MaxMisses`, `MaxTroubles`) and the sets `Messages`, `Pollers`, `Leavers`, `MayLapse`
only limit how much of the environment is explored. `RetryAttempts` is 3 in the code
and at most 2 in the runs; the theorems hold for any number. A lifetime of two ticks
has a token that is half-way when the key is renewed. One trouble in `Places` does
not reach a rollback that fails; one demo session in `Script` does not reach a
pipeline of two; the theorems about both do. A channel of one place is full as soon
as one of ten is after ten messages; two messages fill both channels and leave one
goroutine waiting. One RPC and one stream at a time are enough for `GracefulStop`
to wait for either.

### What the violated runs show

- `StaleJoin`: `JoinQueue` ends with `UpdateSession` of the record it built
  before the session entered the queue (`waitroom_service.go:124`). If the
  processor admits the session first, the admission is overwritten: the session
  holds a place and was announced, and its record says queued with no token.
- `StrandedEvent`: `LeaveQueue` counts the queue and then removes the event from
  the active set (`queue_service.go:90-95`). A join in between waits in an event
  the processor does not visit until somebody else joins.
- `ZeroBatch`: `QUEUE_DEFAULT_RELEASE_RATE=0` makes the pop take the whole queue.
- `StopBlocks`: a signal during a tick always costs the whole `ShutdownTimeout`,
  because `Stop` holds the mutex that the tick's deferred function locks. After the
  timeout the goroutine goes on with the events left, until `cancel()` fails its
  calls and the sessions it has popped are lost.
- `LastUpdate`: `StreamSessionPosition` returns right after it put the last update
  into the channel, and the handler's `select` may take the return first.

Met while modelling, with no run of their own: `LeaveQueue` and the stream do not
call `mapGRPCError`, and `ValidateSession` passes `redis.Nil` on, so that an unknown
session is `Internal` rather than `WTR001`; the reply of `GetQueueStatus` never has
its `Status` filled in; `SYSTEM_FLOW_README.md:203` gives each member of the
processing set its own 15 minutes where `EXPIRE` renews all of them; an admission
that is retried leaves the tokens of earlier attempts valid until the outcome; the
comment of `Client.Pipeline` says *atomically*, which a pipeline is not; the script's
`simulate-queue.go:121` spreads arrivals by milliseconds, which the score in whole
seconds does not see; the processor never takes an emptied event off the active set;
`main` never calls the consumer's `Close`.

### Fairness

- `GrpcFair` (`Live`): weak fairness of the processor's steps (its ticker keeps
  firing), of each started join (goroutines run), of the client that polls (it goes
  on polling, which `PollIsTold` is about) and of the expiry of a processing set
  *that is full*: nobody adds to a full set, so its `EXPIRE` is not renewed and Redis
  removes the key. Nothing is assumed of users: not that they join, leave or end a
  checkout. The run has no faults in the waiting room, because a failed admission
  does lose its session, and no leavers, because of `StrandedEvent`.
- `FairSpec` of `CheckoutPlaces`: each processor and handler that has started goes
  on, time passes, a member joins a group without an owner. Reading the next message
  is strongly fair, because a rebalance may interrupt it again and again. No
  rebalance, outcome or failure is made to happen.
- `ServiceFair`: the goroutines of the process run; the consumer's `select` between a
  message and the cancelled context is strongly fair, as Go's choice among ready
  cases is random. Nothing is assumed of the signal, clients and messages.
- `FairSpec` of `PositionStream`: the three goroutines run; nothing is assumed of the
  session, its event or the client.

## What is proved

All theorems hold for every value of the constants under the assumptions of the
modules, which TLC evaluates in the runs, and without any bound on faults, restarts,
troubles or the clock beyond their being natural numbers. Where the bound on places
is concerned they also assume `BatchSize > 0`, which the code does not check and
which `ZeroBatch` shows to be needed.

`WaitroomProofs`:

- `TypeCorrect`: `TypeOK`, one lemma per component's steps. `ProcType` also ties
  the copies to the program counters (a step that writes a record back has it).
- `SlotBoundHolds`: `SlotBound` alone is not inductive, because between `SCARD`
  and the last `SADD` the set is still small. `PlacesInv` counts the taken places
  *and* those set aside for the batch, and while a pop is pending also the quota.
  Only the processor adds to the set (`OthersOnlyFree`), its steps only turn
  places set aside into taken ones (`AdmissionShrinks`), a pop takes at most its
  quota (`PopBound`, from the ranks of a strict total order), also when its script
  ran twice (`PopKeepsPlaces`).
- `BothOnlyIfResentHolds` and `NotifiedOncePerEntryHolds` speak of every execution,
  those in which the driver sends a `ZADD` again included. `TakenOut(s)`, the entries
  of `s` less one if it is in the queue, counts how often it left. It never falls,
  because a `ZADD` counts as an entry only when it adds the session. `WhereInv`: a session
  is found only with its own event, and in checkout only with `TakenOut(s) > 0`, so in
  both with more than one entry. `NotifyInv`: its announcements, with the one being
  prepared, are at most `TakenOut(s)`. `EntriesInv`: every entry but the first cost
  a lost reply, so a session that no call failed for enters once. Steps that only
  remove (`Settling`) preserve all of them; `ZADD`, the pop and the announcement have a
  lemma each.
- `IInvHolds`: the conjunction, which `Slots` checks as `IInv`.

`PromiseProofs`: `PromiseHolds`, the refinement of `AdmissionControl`. With the
invariant, a session's phase is read off its event's queue and places (`PhaseSets`),
so each step of a handler is one of five things: nothing (`Stutters`), an arrival
(`Arrives`) or a second one of a request not yet answered, a departure from the
queue or the places of one event (`WaitingLeave`, `HoldersLeave`), or the setting aside
of a popped batch (`SetsAside`), which is the front of the queue (`PoppedFirst`) and
within the limit.

`RecordProofs`: `RecordCorrect`, and from it `NoneLostHolds`, `HeldPlaceIsLiveHolds` and
`SpentTokenStaysInvalidHolds`. Every handler writes back a record it read some calls
earlier, so none of the three is inductive. `RecordInv` adds what each step can rely on:

- `RecordKept`, whatever fails: a record is there until its session lapses, and only a
  client that polls can end a checkout before `QUEUE_READY`.
- `BeforeWrite`: until the processor's write no record and no copy of it has a token,
  and the status is still queued unless the user left. So the check of an admission
  passes, and what a late `LeaveQueue` or `JoinQueue` writes back is known.
- `AfterOutcome`: after a handler's last write a record is not both admitted and
  unmarked. A stale copy is either one from before the write, whose status is not
  admitted, or one that `InvalidateToken` marked itself.
- `QueuedHasNoToken`: a record that says queued has an empty token, so that the
  blacklist only marks records that were admitted.
- While no call has failed the processor never rolls back.

What a step can make of a record is said once (`WrittenBy`, a lemma per component), and
each part of the invariant has a lemma about all steps that rests on it.
These theorems assume `None \notin SessionRecord` (`RecordAssumption`): a missing key is
told from a record.

`GrpcProofs`: `GrpcRefines`, the handlers only delay and restrict the steps of
`Waitroom`, so its safety, its records and the promise hold behind them too (`GrpcIsSafe`,
`GrpcKeepsRecords`, `GrpcPromiseHolds`); `GrpcTypeHolds`; `RefusalIsNamedHolds` from
`ReasonInv`: without a failed call the errgroup's error is one of the service's own,
because a cancellation only ever comes second. `AnswersMoveForwardHolds` from
`AnswerInv`: only a client whose join returned gets answers, so no `ZADD` of it is to
come (`DoneStays`) and a position that is gone stays gone; and the record behind an
answer *admitted* never says queued again (`NotQueuedAgain`, from `RecordInv`). The middle
of a poll counts as well, because the record, the rank and the length are separate calls.

`SimulationProofs`: a step of the script lets a demo session in, takes one session
out of its queue or out of checkout, or leaves both as they are (`ScriptKinds`).
From that follow `ScriptKeepsPlacesHolds` and `ScriptPromiseHolds`.

`PlacesProofs`: `PlaceOutlivesToken`, `AdmittedByOne`, `EachKeepsBound` and `TypeOK`
from the invariant `PlacesInv`, for any number of replicas. None but the types is
inductive alone. `Placed` compares the token's time with the key's: a held place
lasts as long as the token. That a place is not taken back from a live token needs
`OutcomeSpends` (by the `SREM` the token is refused), which needs `ReportsFollow`
(outcomes concern announced sessions, which no replica admits again), which needs
`AdmittedByOne` and `Offsets`. `EachKeepsBound` needs `Reserved`, which adds the quota
of a pending pop, and `BatchIsTaken`.

`CommitsFollowTriesHolds` is about steps, and rests on `TriesFollow`: the owner has tried
everything from the mark, and from the committed offset, up to its position; a rebalance
sets the position back to the committed offset and drops the mark.

`ServiceProofs`: `GracefulIsComplete` from `LifeInv`: the wait group counts a
goroutine that started and has not ended, `Stop` waits exactly while it holds the
mutex, and the context is cancelled only after `Stop`. The whole process implements
that lifecycle (`ServiceRefines`), so the same holds of it (`GracefulInService`);
`ClosedAfterUse` from `ServiceInv`, which adds that nothing drains before everything is
open and that a drain follows `cancel()`.

`StreamProofs`: `OkMeansHanded` from `EndInv`: `processMessages` ends with the context
only. `StreamTypeHolds`: for channels of any capacity neither holds more than its
capacity, also when the subscription is dropped half-way.

Only model-checked are the liveness properties, which are beyond the prover:
`QueuedIsNotified`, `PollIsTold`, `OutcomeIsTried`, `FullFreesUp`, `ShutdownEnds`,
`ServedIsProcessed`, `StreamCleansUp` and `ChangeIsHanded`. Every invariant and every
action property of the runs, and the refinement, is a theorem.

## What is not modelled

- The driver's own retries of commands other than `ZADD` and the pop, that is, a
  command applied twice with steps of other handlers in between. For the queue and
  the places, `SlotBound` and `Promise`: a second `ZREM` or `SREM` takes out what is
  to leave anyway, and may free a place early, as `Release` allows at any time; between
  `AddToProcessing` and its second `SADD` the place is still set aside for that session,
  and the count already has it. For the active set: a repeated `SREM` may deactivate an
  event, which `StrandedEvent` has without it. For the records: a repeated `SET`
  is one more stale write, but `NoneLost`, `HeldPlaceIsLive`, `SpentTokenStaysInvalid` and
  `AnswersMoveForward` are stated for executions in which no reply was lost, so no
  command was sent twice. `CheckoutPlaces` begins after the joins: a session is announced
  once, a second `SREM` of its outcome finds no new place of it, and a second
  `SADD`+`EXPIRE` renews the key once more. The pop is run twice at most; each further
  run would drop one more batch in the same way.
- A signal before `signal.Notify`, which kills the process as a failed start does;
  sarama's rule that closing a group waits for `Consume` is taken as external.
- The minute after which the Redis client drops messages of a full subscription.
- `QUEUE_JOINED` and `QUEUE_LEFT`, which are only written, and never make a request
  fail.
- Users: `JoinQueue` does not look for an earlier session of the user.
- Functions nothing calls: of the session repository `Delete`, `Exists`,
  `GetByUserAndEvent`, `UpdatePosition`; of the queue repository `GetQueueMembers`,
  `IsProcessing`, `IsActiveEvent`; `GetProcessorStatus`; and `HealthCheck`, which
  answers a constant.
- Logging, date helpers, marshalling in the generated code, the printing of the load
  script and of the demo test: no state of the service. `http/handler.go` is
  commented out.

## Plan

In the order of importance:

1. *(done)* `WaitroomState`, `JoinLeave`, `Processor`, `Checkout`, `Environment`,
   `Waitroom`, `AdmissionControl`, their runs, `TypeCorrect` to `IInvHolds`.
2. *(done)* `ProcessorLifecycle` and `PositionStream` with their runs and proofs.
3. *(done)* `CheckoutPlaces` over `OutcomeConsumer`: time, replicas, half-applied
   pipelines, offsets; `PlacesProofs`.
4. *(done)* `GrpcService`, `ServiceMain` over `Config`, `Simulation`; each one's
   refinement or preservation theorem; `PromiseHolds`.
5. *(done)* `RecordProofs`: for each handler, how its copy of the record may differ from
   the stored one; the action properties and the remaining types as theorems.
6. *(done)* The driver's retry of `ZADD`, in `JoinLeave` and `Simulation`, and what the
   waiting room promises with it: `BothOnlyIfResent`, `NotifiedOncePerEntry`, `Again` in
   `AdmissionControl`.
7. *(open)* The driver's retry of `SET`, and which of the record properties survive a
   call that failed.
