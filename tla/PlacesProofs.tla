----------------------------- MODULE PlacesProofs -----------------------------
(***************************************************************************)
(* The safety invariants of CheckoutPlaces, proved for any number of       *)
(* replicas, sessions and places, any TTL and any number of troubles.      *)
(*                                                                         *)
(* PlaceOutlivesToken is not inductive.  A held place must not only be     *)
(* there but stay as long as the token (Placed: no member of the set has   *)
(* more time left than the key); the handler must not reach the SREM with  *)
(* a token that is still accepted (OutcomeSpends), and that needs the      *)
(* outcomes to concern sessions that were announced, which no replica      *)
(* admits any more (ReportsFollow).  EachKeepsBound needs the places the   *)
(* quota still allows to be counted in (Reserved).  CommitsFollowTries, of *)
(* the consumer's steps, rests on TriesFollow.                             *)
(***************************************************************************)
EXTENDS CheckoutPlaces, FiniteSetTheorems, SequenceTheorems, TLAPS

\* Offsets count from 1.
Offsets == /\ position \in Nat \ {0}
           /\ committed \in (Nat \ {0}) \cup {None}
           /\ marked \in (Nat \ {0}) \cup {None}

\* A place that is held lasts as long as the token it is held for.
Placed ==
    \A s \in Sessions \ exposed :
        Usable(s) => BeingPlaced(s) \/ (s \in held /\ (ttl = None \/ left[s] <= ttl))

\* Outcomes are reported of announced sessions, which have left the queue and
\* the batches for good.
ReportsFollow ==
    /\ \A i \in 1 .. Len(log) : log[i] \in reported
    /\ reported \subseteq announced
    /\ announced \cap waiting = {}
    /\ \A r \in Members : announced \cap batch[r] = {}

\* By the SREM the token of the session is no longer accepted.
OutcomeSpends == hstep \in {"place", "record"} => Handled \in spent \cup exposed

\* A session in a batch was taken by the replica whose batch it is.
BatchIsTaken == \A r \in Members : \A s \in batch[r] : takenBy[s] = r

\* What replica r has given and may still pop stays within the bound.
Reserved ==
    \A r \in Members :
        Cardinality(GivenBy(r)) + (IF pc[r] = "pop" THEN quota[r] ELSE 0) <= MaxConcurrent

PlacesInv == /\ TypeOK /\ Offsets /\ Placed /\ ReportsFollow /\ OutcomeSpends
             /\ AdmittedByOne /\ BatchIsTaken /\ Reserved

-----------------------------------------------------------------------------
(* The types. *)

\* The parts of TypeOK are TypeOK, before and after a step.
LEMMA TypeParts ==
    /\ TypeOK <=> ConsumerPart /\ StorePart /\ RecordPart /\ ProcPart
    /\ TypeOK' <=> ConsumerPart' /\ StorePart' /\ RecordPart' /\ ProcPart'
BY DEF TypeOK

\* None is neither a session nor a number.
LEMMA NoneApart == None \notin Sessions /\ None \notin Nat /\ None \notin Members
BY ReadersAssumption, PlacesAssumption

\* What a step of replica r leaves of the other replicas.
OthersStay(r) == \A q \in Members \ {r} : /\ pc'[q] = pc[q] /\ user'[q] = user[q]
                                          /\ batch'[q] = batch[q] /\ quota'[q] = quota[q]

\* The loop goes on with a set of sessions, or the replica is idle again.
LEMMA GoOnIsTyped ==
    ASSUME ProcPart, NEW r \in Members, NEW B \in SUBSET Sessions, GoOn(r, B)
    PROVE  ProcPart' /\ OthersStay(r) /\ batch'[r] = B /\ pc'[r] \in {"idle", "token"}
<1>1. /\ batch' \in [Members -> SUBSET Sessions] /\ quota' \in [Members -> Nat]
      /\ batch'[r] = B
      /\ \A q \in Members \ {r} : batch'[q] = batch[q] /\ quota'[q] = quota[q]
  BY DEF GoOn, ProcPart
<1>2. CASE /\ B = {} /\ user' = [user EXCEPT ![r] = None]
           /\ attempt' = [attempt EXCEPT ![r] = 0] /\ pc' = [pc EXCEPT ![r] = "idle"]
  BY <1>1, <1>2, PlacesAssumption DEF ProcPart, OthersStay
<1>3. ASSUME NEW s \in B, user' = [user EXCEPT ![r] = s],
             attempt' = [attempt EXCEPT ![r] = 1], pc' = [pc EXCEPT ![r] = "token"]
      PROVE  ProcPart' /\ OthersStay(r) /\ pc'[r] \in {"idle", "token"}
  BY <1>1, <1>3, PlacesAssumption DEF ProcPart, OthersStay
<1>4. QED
  BY <1>1, <1>2, <1>3 DEF GoOn

\* The admission again or the next session: the batch does not grow.
LEMMA TryAgainIsTyped ==
    ASSUME ProcPart, NEW r \in Members, pc[r] \notin {"idle", "pop"}, TryAgain(r)
    PROVE  /\ ProcPart' /\ OthersStay(r) /\ batch'[r] \subseteq batch[r]
           /\ pc'[r] \in {"idle", "token"}
<1>1. CASE HasRetry(r)
  <2>1. /\ attempt' = [attempt EXCEPT ![r] = @ + 1] /\ pc' = [pc EXCEPT ![r] = "token"]
        /\ UNCHANGED <<quota, batch, user>>
    BY <1>1 DEF TryAgain
  <2>2. attempt' \in [Members -> 0 .. RetryAttempts]
    <3>1. attempt[r] + 1 \in 0 .. RetryAttempts
      BY <1>1, PlacesAssumption DEF HasRetry, ProcPart
    <3>2. QED
      BY <2>1, <3>1 DEF ProcPart
  <2>3. QED
    BY <2>1, <2>2 DEF ProcPart, OthersStay
<1>2. CASE ~HasRetry(r)
  <2>1. batch[r] \ {user[r]} \in SUBSET Sessions /\ GoOn(r, batch[r] \ {user[r]})
    BY <1>2 DEF TryAgain, ProcPart
  <2>2. QED
    BY <2>1, GoOnIsTyped
<1>3. QED
  BY <1>1, <1>2

\* Going to another place of the admission.
LEMMA GotoIsTyped ==
    ASSUME ProcPart, NEW r \in Members, pc[r] \notin {"idle", "pop"},
           NEW to \in {"token", "slot", "rollback", "ready"}, Goto(r, to)
    PROVE  /\ ProcPart' /\ OthersStay(r) /\ batch' = batch /\ pc'[r] = to
           /\ user' = user
BY DEF Goto, ProcPart, OthersStay

\* A step outside the consumer leaves its part as it is.
LEMMA ConsumerStays ==
    ASSUME ConsumerPart, Offsets, UNCHANGED consumerVars
    PROVE  ConsumerPart' /\ Offsets'
BY DEF ConsumerPart, ConsumerType, Offsets, consumerVars

\* The session at hand is one of the sessions.
LEMMA HandledIsSession ==
    ASSUME ConsumerPart, hstep # "idle"
    PROVE  Handled \in Sessions /\ position \in 1 .. Len(log)
BY DEF ConsumerPart, ConsumerType, Handled

\* The handler returns with a mark: its offset, or the one before.
LEMMA ReturnIsTyped ==
    ASSUME ConsumerPart, Offsets, NEW mark \in (Nat \ {0}) \cup {None},
           HandlerReturns(mark)
    PROVE  ConsumerPart' /\ Offsets' /\ hstep' = "idle" /\ log' = log
BY DEF ConsumerPart, ConsumerType, Offsets, HandlerReturns

\* The two ways in which a handler returns.
LEMMA HandlerEnds ==
    ASSUME ConsumerPart, Offsets, MarkMessage \/ LeaveUnmarked
    PROVE  ConsumerPart' /\ Offsets' /\ hstep' = "idle" /\ log' = log
<1>1. position + 1 \in (Nat \ {0}) \cup {None} /\ marked \in (Nat \ {0}) \cup {None}
  BY DEF Offsets
<1>2. QED
  BY <1>1, ReturnIsTyped DEF MarkMessage, LeaveUnmarked

\* The handler goes on.
LEMMA HandlerGoesOn ==
    ASSUME ConsumerPart, Offsets, NEW from \in {"get", "token", "place", "record"},
           NEW to \in {"get", "token", "place", "record"}, HandlerGoes(from, to)
    PROVE  /\ ConsumerPart' /\ Offsets' /\ hstep = from /\ hstep' = to
           /\ log' = log /\ position' = position
BY DEF ConsumerPart, ConsumerType, Offsets, HandlerGoes

\* Membership of the group, taking a message and committing keep the part.
LEMMA GroupIsTyped ==
    ASSUME ConsumerPart, Offsets, GroupStep
    PROVE  /\ ConsumerPart' /\ Offsets' /\ log' = log
           /\ hstep' \in {"place", "record"} => hstep' = hstep /\ position' = position
<1>1. ASSUME NEW r \in Members, JoinGroup(r)
      PROVE  ConsumerPart' /\ Offsets' /\ log' = log /\ hstep' = "idle"
  <2>1. Len(log) \in Nat /\ hstep = "idle"
    BY <1>1 DEF ConsumerPart, ConsumerType, JoinGroup
  <2>2. position' \in Nat \ {0}
    BY <1>1, <2>1 DEF JoinGroup, Offsets
  <2>3. QED
    BY <1>1, <2>1, <2>2, ReadersAssumption
    DEF JoinGroup, ConsumerPart, ConsumerType, Offsets
<1>2. ASSUME TakeMessage
      PROVE  ConsumerPart' /\ Offsets' /\ log' = log /\ hstep' = "get"
  <2>1. position \in 1 .. Len(log)
    BY <1>2 DEF TakeMessage, Offsets, ConsumerPart, ConsumerType
  <2>2. QED
    BY <1>2, <2>1 DEF TakeMessage, ConsumerPart, ConsumerType, Offsets
<1>3. ASSUME CommitOffset
      PROVE  /\ ConsumerPart' /\ Offsets' /\ log' = log
             /\ hstep' = hstep /\ position' = position
  BY <1>3 DEF CommitOffset, ConsumerPart, ConsumerType, Offsets
<1>4. ASSUME NEW c \in {committed, FlushedAt}, SessionEnds(c)
      PROVE  ConsumerPart' /\ Offsets' /\ log' = log /\ hstep' = "idle"
  BY <1>4 DEF SessionEnds, FlushedAt, ConsumerPart, ConsumerType, Offsets
<1>5. QED
  BY <1>1, <1>2, <1>3, <1>4 DEF GroupStep

\* The steps of a processor keep the parts of TypeOK.
LEMMA ProcessorIsTyped ==
    ASSUME TypeOK, Offsets, NEW r \in Members,
           ProcessorStep(r) \/ DropBatch(r) \/ Restart(r)
    PROVE  TypeOK' /\ Offsets' /\ OthersStay(r)
<1>0. ConsumerPart /\ StorePart /\ RecordPart /\ ProcPart
  BY TypeParts
<1>1. CASE Count(r)
  <2>1. UNCHANGED consumerVars /\ StorePart' /\ RecordPart'
    BY <1>0, <1>1 DEF Count, StorePart, RecordPart, storeVars, recordVars, ghostVars
  <2>2. quota'[r] \in Nat
    <3>1. Cardinality(held) \in Nat
      BY <1>0, PlacesAssumption, FS_Subset, FS_CardinalityType DEF StorePart
    <3>2. QED
      BY <1>0, <1>1, <3>1, PlacesAssumption DEF Count, Free, ProcPart
  <2>3. ProcPart' /\ OthersStay(r)
    BY <1>0, <1>1, <2>2 DEF Count, At, ProcPart, OthersStay
  <2>4. QED
    BY <1>0, <2>1, <2>3, ConsumerStays, TypeParts
<1>2. CASE Pop(r)
  <2>1. PICK S \in SUBSET waiting :
            /\ waiting' = waiting \ S
            /\ \/ /\ GoOn(r, S)
                  /\ takenBy' = [s \in Sessions |-> IF s \in S THEN r ELSE takenBy[s]]
                  /\ UNCHANGED troubles
               \/ GoOn(r, {}) /\ Trouble /\ UNCHANGED takenBy
    BY <1>2 DEF Pop, WaitingWithout
  <2>2. ProcPart' /\ OthersStay(r)
    BY <1>0, <2>1, GoOnIsTyped DEF StorePart
  <2>3. StorePart' /\ RecordPart' /\ UNCHANGED consumerVars
    BY <1>0, <1>2, <2>1 DEF Pop, StorePart, RecordPart, recordVars, Trouble
  <2>4. QED
    BY <1>0, <2>2, <2>3, ConsumerStays, TypeParts
<1>3. CASE WriteToken(r)
  <2>1. pc[r] \notin {"idle", "pop"} /\ user[r] \in Sessions
    BY <1>0, <1>3 DEF WriteToken, At, ProcPart
  <2>2. ProcPart' /\ OthersStay(r)
    BY <1>0, <1>3, <2>1, GotoIsTyped, TryAgainIsTyped DEF WriteToken
  <2>3. StorePart' /\ UNCHANGED consumerVars
    BY <1>0, <1>3 DEF WriteToken, StorePart, storeVars
  <2>4. RecordPart'
    BY <1>0, <1>3, <2>1, PlacesAssumption DEF WriteToken, RecordPart, Trouble
  <2>5. QED
    BY <1>0, <2>2, <2>3, <2>4, ConsumerStays, TypeParts
<1>4. CASE TakePlace(r)
  <2>1. pc[r] \notin {"idle", "pop"} /\ user[r] \in Sessions
    BY <1>0, <1>4 DEF TakePlace, At, ProcPart
  <2>2. ProcPart' /\ OthersStay(r)
    BY <1>0, <1>4, <2>1, GotoIsTyped DEF TakePlace
  <2>3. StorePart' /\ UNCHANGED consumerVars
    <3>1. /\ UNCHANGED <<consumerVars, waiting>>
          /\ \/ UNCHANGED <<held, ttl>>
             \/ held' = held \cup {user[r]} /\ ttl' \in {ttl, Life}
      BY <1>4 DEF TakePlace, Renewed
    <3>2. Life \in 1 .. Life
      BY PlacesAssumption
    <3>3. QED
      BY <1>0, <2>1, <3>1, <3>2 DEF StorePart
  <2>4. RecordPart'
    BY <1>0, <1>4, <2>1 DEF TakePlace, RecordPart, recordVars, Trouble
  <2>5. QED
    BY <1>0, <2>2, <2>3, <2>4, ConsumerStays, TypeParts
<1>5. CASE RollBack(r)
  <2>1. pc[r] \notin {"idle", "pop"} /\ user[r] \in Sessions
    BY <1>0, <1>5 DEF RollBack, At, ProcPart
  <2>2. ProcPart' /\ OthersStay(r)
    BY <1>0, <1>5, <2>1, TryAgainIsTyped DEF RollBack
  <2>3. StorePart' /\ UNCHANGED consumerVars
    BY <1>0, <1>5 DEF RollBack, StorePart, storeVars
  <2>4. RecordPart'
    BY <1>0, <1>5, <2>1 DEF RollBack, RecordPart, ghostVars, Trouble
  <2>5. QED
    BY <1>0, <2>2, <2>3, <2>4, ConsumerStays, TypeParts
<1>6. CASE Announce(r)
  <2>1. pc[r] \notin {"idle", "pop"} /\ user[r] \in Sessions
        /\ batch[r] \ {user[r]} \in SUBSET Sessions
    BY <1>0, <1>6 DEF Announce, At, ProcPart
  <2>2. ProcPart' /\ OthersStay(r)
    BY <1>0, <1>6, <2>1, GoOnIsTyped DEF Announce
  <2>3. StorePart' /\ RecordPart' /\ UNCHANGED consumerVars
    BY <1>0, <1>6, <2>1
    DEF Announce, StorePart, RecordPart, storeVars, recordVars, ghostVars, Trouble
  <2>4. QED
    BY <1>0, <2>2, <2>3, ConsumerStays, TypeParts
<1>7. ASSUME DropBatch(r) \/ Restart(r)
      PROVE  TypeOK' /\ Offsets' /\ OthersStay(r)
  <2>1. {} \in SUBSET Sessions /\ GoOn(r, {})
    BY <1>7 DEF DropBatch, Restart
  <2>2. ProcPart' /\ OthersStay(r)
    BY <1>0, <2>1, GoOnIsTyped
  <2>3. StorePart' /\ RecordPart'
    <3>1. At(r, "slot") => user[r] \in Sessions
      BY <1>0 DEF ProcPart, At
    <3>2. QED
      BY <1>0, <1>7, <3>1
      DEF DropBatch, Restart, StorePart, RecordPart, storeVars, recordVars, Trouble
  <2>4. CASE UNCHANGED consumerVars
    BY <1>0, <2>2, <2>3, <2>4, ConsumerStays, TypeParts
  <2>5. CASE OwnerDies
    <3>1. ConsumerPart' /\ Offsets'
      BY <1>0, <2>5 DEF OwnerDies, ConsumerPart, ConsumerType, Offsets
    <3>2. QED
      BY <1>0, <2>2, <2>3, <3>1, TypeParts
  <2>6. QED
    BY <1>7, <2>4, <2>5 DEF DropBatch, Restart
<1>8. QED
  BY <1>1, <1>2, <1>3, <1>4, <1>5, <1>6, <1>7 DEF ProcessorStep

\* The steps of the outcomes, the handler and time keep the parts of TypeOK.
LEMMA OthersAreTyped ==
    ASSUME TypeOK, Offsets,
           \/ \E s \in Sessions : ReportOutcome(s)
           \/ GroupStep \/ HandlerStep \/ Tick
    PROVE  TypeOK' /\ Offsets'
<1>0. ConsumerPart /\ StorePart /\ RecordPart /\ ProcPart
  BY TypeParts
<1>1. ASSUME NEW s \in Sessions, ReportOutcome(s)
      PROVE  TypeOK' /\ Offsets'
  <2>1. ConsumerPart' /\ Offsets'
    <3>1. /\ log' = Append(log, s) /\ log \in Seq(Sessions)
          /\ UNCHANGED <<committed, owner, position, marked, hstep, tried>>
      BY <1>0, <1>1 DEF ReportOutcome, Publish, ConsumerPart, ConsumerType
    <3>2. log' \in Seq(Sessions) /\ Len(log') = Len(log) + 1 /\ Len(log) \in Nat
      BY <3>1, AppendProperties, LenProperties
    <3>3. QED
      BY <1>0, <3>1, <3>2 DEF ConsumerPart, ConsumerType, Offsets
  <2>2. StorePart' /\ RecordPart' /\ ProcPart'
    BY <1>0, <1>1 DEF ReportOutcome, storeVars, recordVars, procVars, ghostVars,
                      StorePart, RecordPart, ProcPart
  <2>3. QED
    BY <2>1, <2>2, TypeParts
<1>2. CASE GroupStep
  <2>1. StorePart' /\ RecordPart' /\ ProcPart'
    BY <1>0, <1>2 DEF GroupStep, storeVars, recordVars, procVars, ghostVars, Trouble,
                      StorePart, RecordPart, ProcPart
  <2>2. QED
    BY <1>0, <1>2, <2>1, GroupIsTyped, TypeParts
<1>3. CASE HandlerStep
  <2>1. ProcPart' /\ UNCHANGED waiting
    BY <1>0, <1>3 DEF HandlerStep, GetRecord, Invalidate, Release, EndRecord, procVars,
                      storeVars, ProcPart
  <2>2. ConsumerPart' /\ Offsets'
    BY <1>0, <1>3, HandlerEnds, HandlerGoesOn
    DEF HandlerStep, GetRecord, Invalidate, Release, EndRecord
  <2>3. Handled \in Sessions
    BY <1>0, <1>3, HandledIsSession
    DEF HandlerStep, GetRecord, Invalidate, Release, EndRecord, HandlerGoes
  <2>4. StorePart'
    BY <1>0, <1>3 DEF HandlerStep, GetRecord, Invalidate, Release, EndRecord, storeVars,
                      StorePart
  <2>5. RecordPart'
    BY <1>0, <1>3, <2>3 DEF HandlerStep, GetRecord, Invalidate, Release, EndRecord,
                            recordVars, ghostVars, Trouble, RecordPart
  <2>6. QED
    BY <2>1, <2>2, <2>4, <2>5, TypeParts
<1>4. CASE Tick
  <2>1. UNCHANGED consumerVars /\ ProcPart'
    BY <1>0, <1>4 DEF Tick, procVars, ProcPart
  <2>2. RecordPart'
    <3>1. \A s \in Sessions : LessOne(left[s]) \in 0 .. Life
      BY <1>0, PlacesAssumption DEF LessOne, RecordPart
    <3>2. QED
      BY <1>0, <1>4, <3>1 DEF Tick, ghostVars, RecordPart
  <2>3. StorePart'
    <3>1. ttl # None /\ ttl # 1 => ttl - 1 \in 1 .. Life
      BY <1>0, PlacesAssumption DEF StorePart
    <3>2. QED
      BY <1>0, <1>4, <3>1 DEF Tick, StorePart
  <2>4. QED
    BY <1>0, <2>1, <2>2, <2>3, ConsumerStays, TypeParts
<1>5. QED
  BY <1>1, <1>2, <1>3, <1>4

\* Every step keeps the types.
LEMMA TypeStep ==
    ASSUME TypeOK, Offsets, [Next]_vars
    PROVE  TypeOK' /\ Offsets'
<1>1. CASE UNCHANGED vars
  BY <1>1 DEF vars, consumerVars, storeVars, recordVars, procVars, ghostVars,
              TypeOK, ConsumerPart, StorePart, RecordPart, ProcPart, ConsumerType, Offsets
<1>2. CASE Next
  BY <1>2, ProcessorIsTyped, OthersAreTyped DEF Next
<1>3. QED
  BY <1>1, <1>2

-----------------------------------------------------------------------------
(* Who admits whom. *)

\* The steps of replica r that do not pop take nobody new into its batch.
NoPop(r) == \/ Count(r) \/ WriteToken(r) \/ TakePlace(r) \/ RollBack(r) \/ Announce(r)
            \/ DropBatch(r) \/ Restart(r)

\* Without a pop the batches do not grow; only Announce announces anybody.
LEMMA BatchesShrink ==
    ASSUME TypeOK, Offsets, NEW r \in Members, NoPop(r)
    PROVE  /\ \A q \in Members : batch'[q] \subseteq batch[q]
           /\ UNCHANGED <<waiting, takenBy, log, reported>>
           /\ \/ announced' = announced
              \/ /\ announced' = announced \cup {user[r]} /\ user[r] \in batch[r]
                 /\ user[r] \notin batch'[r]
<1>0. ProcPart
  BY TypeParts
<1>1. OthersStay(r)
  BY ProcessorIsTyped DEF NoPop, ProcessorStep
<1>2. UNCHANGED <<waiting, takenBy, log, reported>>
  BY DEF NoPop, Count, WriteToken, TakePlace, RollBack, Announce, DropBatch, Restart,
         consumerVars, storeVars, ghostVars, OwnerDies
<1>3. batch[r] \ {user[r]} \in SUBSET Sessions /\ {} \in SUBSET Sessions
  BY <1>0 DEF ProcPart
<1>4. CASE Count(r) \/ WriteToken(r) \/ TakePlace(r) \/ RollBack(r)
  <2>1. batch'[r] \subseteq batch[r]
    <3>1. CASE Count(r)
      BY <3>1 DEF Count
    <3>2. CASE WriteToken(r) \/ RollBack(r)
      BY <1>0, <3>2, TryAgainIsTyped DEF WriteToken, RollBack, At, Goto
    <3>3. CASE TakePlace(r)
      BY <3>3 DEF TakePlace, Goto
    <3>4. QED
      BY <1>4, <3>1, <3>2, <3>3
  <2>2. announced' = announced
    BY <1>4 DEF Count, WriteToken, TakePlace, RollBack
  <2>3. QED
    BY <1>1, <1>2, <2>1, <2>2 DEF OthersStay
<1>5. CASE Announce(r)
  <2>1. user[r] \in batch[r] /\ batch'[r] = batch[r] \ {user[r]}
    BY <1>0, <1>3, <1>5, GoOnIsTyped DEF Announce, At, ProcPart
  <2>2. announced' \in {announced, announced \cup {user[r]}}
    BY <1>5 DEF Announce
  <2>3. QED
    BY <1>1, <1>2, <2>1, <2>2 DEF OthersStay
<1>6. CASE DropBatch(r) \/ Restart(r)
  <2>1. batch'[r] = {} /\ announced' = announced
    BY <1>0, <1>3, <1>6, GoOnIsTyped DEF DropBatch, Restart
  <2>2. QED
    BY <1>1, <1>2, <2>1 DEF OthersStay
<1>7. QED
  BY <1>4, <1>5, <1>6 DEF NoPop

\* A pop takes at most quota sessions off the queue, into the batch or nowhere.
LEMMA PopTakes ==
    ASSUME TypeOK, Offsets, NEW r \in Members, Pop(r)
    PROVE  \E S \in SUBSET waiting :
               /\ waiting' = waiting \ S /\ Cardinality(S) <= quota[r]
               /\ \A q \in Members \ {r} : batch'[q] = batch[q]
               /\ \/ /\ batch'[r] = S
                     /\ takenBy' = [s \in Sessions |-> IF s \in S THEN r ELSE takenBy[s]]
                  \/ batch'[r] = {} /\ takenBy' = takenBy
               /\ pc'[r] # "pop"
<1>0. ProcPart /\ StorePart
  BY TypeParts
<1>1. PICK S \in SUBSET waiting :
          /\ Cardinality(S) <= quota[r]
          /\ waiting' = waiting \ S
          /\ \/ /\ GoOn(r, S)
                /\ takenBy' = [s \in Sessions |-> IF s \in S THEN r ELSE takenBy[s]]
                /\ UNCHANGED troubles
             \/ GoOn(r, {}) /\ Trouble /\ UNCHANGED takenBy
  BY DEF Pop, WaitingWithout
<1>2. S \in SUBSET Sessions /\ {} \in SUBSET Sessions
  BY <1>0 DEF StorePart
<1>3. /\ \A q \in Members \ {r} : batch'[q] = batch[q]
      /\ pc'[r] # "pop"
      /\ \/ /\ batch'[r] = S
            /\ takenBy' = [s \in Sessions |-> IF s \in S THEN r ELSE takenBy[s]]
         \/ batch'[r] = {} /\ takenBy' = takenBy
  BY <1>0, <1>1, <1>2, GoOnIsTyped DEF OthersStay
<1>4. QED
  BY <1>1, <1>3

\* The steps of a replica are its pops and the others.
LEMMA ReplicaSteps ==
    ASSUME NEW r \in Members, ProcessorStep(r) \/ DropBatch(r) \/ Restart(r)
    PROVE  Pop(r) \/ NoPop(r)
BY DEF ProcessorStep, NoPop

\* The steps of no replica leave the processors and the queue alone.
LEMMA ProcessorsStay ==
    ASSUME [Next]_vars,
           ~ \E r \in Members : ProcessorStep(r) \/ DropBatch(r) \/ Restart(r)
    PROVE  UNCHANGED <<procVars, waiting, takenBy, announced>>
BY DEF Next, vars, procVars, ReportOutcome, GroupStep, HandlerStep, GetRecord, Invalidate,
       Release, EndRecord, Tick, storeVars, ghostVars

\* A step keeps the batches apart from each other and from the queue.
LEMMA BatchStep ==
    ASSUME TypeOK, Offsets, AdmittedByOne, BatchIsTaken, [Next]_vars
    PROVE  AdmittedByOne' /\ BatchIsTaken'
<1>1. ASSUME NEW r \in Members, NoPop(r)
      PROVE  AdmittedByOne' /\ BatchIsTaken'
  BY <1>1, BatchesShrink DEF AdmittedByOne, BatchIsTaken
<1>2. ASSUME NEW r \in Members, Pop(r)
      PROVE  AdmittedByOne' /\ BatchIsTaken'
  <2>1. PICK S \in SUBSET waiting :
               /\ waiting' = waiting \ S
               /\ \A q \in Members \ {r} : batch'[q] = batch[q]
               /\ \/ /\ batch'[r] = S
                     /\ takenBy' = [s \in Sessions |-> IF s \in S THEN r ELSE takenBy[s]]
                  \/ batch'[r] = {} /\ takenBy' = takenBy
    BY <1>2, PopTakes
  <2>2. \A q \in Members : batch[q] \subseteq Sessions
    BY DEF TypeOK, ProcPart
  <2>3. AdmittedByOne'
    BY <2>1 DEF AdmittedByOne
  <2>4. BatchIsTaken'
    <3>1. waiting \subseteq Sessions
      BY DEF TypeOK, StorePart
    <3>2. QED
      BY <2>1, <2>2, <3>1 DEF AdmittedByOne, BatchIsTaken
  <2>5. QED
    BY <2>3, <2>4
<1>3. ASSUME ~ \E r \in Members : ProcessorStep(r) \/ DropBatch(r) \/ Restart(r)
      PROVE  AdmittedByOne' /\ BatchIsTaken'
  BY <1>3, ProcessorsStay DEF AdmittedByOne, BatchIsTaken, procVars
<1>4. QED
  BY <1>1, <1>2, <1>3, ReplicaSteps

\* A step keeps the outcomes to announced sessions, which nobody admits any more.
LEMMA ReportsStep ==
    ASSUME TypeOK, Offsets, AdmittedByOne, ReportsFollow, [Next]_vars
    PROVE  ReportsFollow'
<1>1. ASSUME NEW r \in Members, NoPop(r)
      PROVE  ReportsFollow'
  BY <1>1, BatchesShrink DEF ReportsFollow, AdmittedByOne
<1>2. ASSUME NEW r \in Members, Pop(r)
      PROVE  ReportsFollow'
  <2>1. UNCHANGED <<log, reported, announced>>
    BY <1>2 DEF Pop, consumerVars
  <2>2. QED
    BY <1>2, <2>1, PopTakes DEF ReportsFollow
<1>3. ASSUME ~ \E r \in Members : ProcessorStep(r) \/ DropBatch(r) \/ Restart(r)
      PROVE  ReportsFollow'
  <2>1. UNCHANGED <<batch, waiting, announced>>
    BY <1>3, ProcessorsStay DEF procVars
  <2>2. ASSUME NEW s \in Sessions, ReportOutcome(s)
        PROVE  ReportsFollow'
    <3>1. log' = Append(log, s) /\ log \in Seq(Sessions) /\ s \in announced
          /\ reported' = reported \cup {s}
      BY <2>2 DEF ReportOutcome, Publish, TypeOK, ConsumerPart, ConsumerType
    <3>2. /\ Len(log') = Len(log) + 1 /\ Len(log) \in Nat
          /\ \A i \in 1 .. Len(log) : log'[i] = log[i]
          /\ log'[Len(log) + 1] = s
      BY <3>1, AppendProperties, LenProperties
    <3>3. \A i \in 1 .. Len(log') : log'[i] \in reported'
      BY <3>1, <3>2 DEF ReportsFollow
    <3>4. QED
      BY <2>1, <3>1, <3>3 DEF ReportsFollow
  <2>3. CASE UNCHANGED <<log, reported>>
    BY <2>1, <2>3 DEF ReportsFollow
  <2>4. GroupStep => log' = log
    BY TypeParts, GroupIsTyped
  <2>5. HandlerStep \/ Tick \/ UNCHANGED vars => log' = log
    BY DEF HandlerStep, GetRecord, Invalidate, Release, EndRecord, Tick, vars,
           consumerVars, HandlerGoes, MarkMessage, LeaveUnmarked, HandlerReturns
  <2>6. GroupStep \/ HandlerStep \/ Tick \/ UNCHANGED vars => reported' = reported
    BY DEF GroupStep, HandlerStep, GetRecord, Invalidate, Release, EndRecord, Tick, vars
  <2>7. QED
    BY <1>3, <2>2, <2>3, <2>4, <2>5, <2>6 DEF Next
<1>4. QED
  BY <1>1, <1>2, <1>3, ReplicaSteps

-----------------------------------------------------------------------------
(* How many places a replica gives. *)

\* A set of sessions is finite, and a part of it is not larger.
LEMMA SmallerSet ==
    ASSUME NEW S \in SUBSET Sessions, NEW T \in SUBSET S
    PROVE  /\ IsFiniteSet(S) /\ Cardinality(S) \in Nat /\ Cardinality(T) \in Nat
           /\ Cardinality(T) <= Cardinality(S)
BY FS_Subset, FS_CardinalityType, PlacesAssumption

\* Only TakePlace adds to the set, and only a session of the batch.
LEMMA HeldGrows ==
    ASSUME TypeOK, Offsets, [Next]_vars
    PROVE  \/ held' \subseteq held
           \/ \E r \in Members : TakePlace(r) /\ user[r] \in batch[r]
                                 /\ held' \subseteq held \cup {user[r]}
<1>1. ASSUME NEW r \in Members, TakePlace(r)
      PROVE  user[r] \in batch[r] /\ held' \subseteq held \cup {user[r]}
  <2>1. user[r] \in batch[r]
    BY <1>1 DEF TypeOK, ProcPart, TakePlace, At
  <2>2. held' \subseteq held \cup {user[r]}
    BY <1>1 DEF TakePlace
  <2>3. QED
    BY <2>1, <2>2
<1>2. ASSUME NEW r \in Members, ProcessorStep(r) \/ DropBatch(r) \/ Restart(r),
             ~TakePlace(r)
      PROVE  held' \subseteq held
  BY <1>2 DEF ProcessorStep, Count, Pop, WriteToken, RollBack, Announce, DropBatch,
              Restart, storeVars
<1>3. (\E s \in Sessions : ReportOutcome(s)) \/ GroupStep \/ HandlerStep \/ Tick
         \/ UNCHANGED vars
      => held' \subseteq held
  BY DEF ReportOutcome, GroupStep, HandlerStep, GetRecord, Invalidate, Release, EndRecord,
         Tick, vars, storeVars
<1>4. QED
  BY <1>1, <1>2, <1>3 DEF Next

\* A step that is not a pop leaves the places of each replica as they are.
LEMMA GivenShrinks ==
    ASSUME TypeOK, Offsets, BatchIsTaken, [Next]_vars,
           ~ \E r \in Members : Pop(r), NEW q \in Members
    PROVE  GivenBy(q)' \subseteq GivenBy(q)
<1>1. batch'[q] \subseteq batch[q] /\ takenBy' = takenBy
  <2>1. CASE \E r \in Members : NoPop(r)
    BY <2>1, BatchesShrink
  <2>2. CASE ~ \E r \in Members : ProcessorStep(r) \/ DropBatch(r) \/ Restart(r)
    BY <2>2, ProcessorsStay DEF procVars
  <2>3. QED
    BY <2>1, <2>2, ReplicaSteps
<1>2. CASE held' \subseteq held
  BY <1>1, <1>2 DEF GivenBy
<1>3. ASSUME NEW r \in Members, user[r] \in batch[r], held' \subseteq held \cup {user[r]}
      PROVE  GivenBy(q)' \subseteq GivenBy(q)
  <2>1. takenBy[user[r]] = r
    BY <1>3 DEF BatchIsTaken
  <2>2. QED
    BY <1>1, <1>3, <2>1 DEF GivenBy
<1>4. QED
  BY <1>2, <1>3, HeldGrows

\* The quota of a replica that is about to pop is set by Count alone.
LEMMA QuotaStays ==
    ASSUME TypeOK, Offsets, [Next]_vars, NEW q \in Members, ~Count(q), pc'[q] = "pop"
    PROVE  pc[q] = "pop" /\ quota'[q] = quota[q]
<1>0. ProcPart
  BY TypeParts
<1>1. ASSUME NEW r \in Members, ProcessorStep(r) \/ DropBatch(r) \/ Restart(r), r # q
      PROVE  pc[q] = "pop" /\ quota'[q] = quota[q]
  BY <1>1, ProcessorIsTyped DEF OthersStay
<1>2. ~(ProcessorStep(q) \/ DropBatch(q) \/ Restart(q))
  <2>1. Pop(q) => FALSE
    BY PopTakes
  <2>2. WriteToken(q) \/ RollBack(q) => FALSE
    <3>1. WriteToken(q) \/ RollBack(q) => pc[q] \notin {"idle", "pop"}
      BY DEF WriteToken, RollBack, At
    <3>2. TryAgain(q) /\ pc[q] \notin {"idle", "pop"} => FALSE
      BY <1>0, TryAgainIsTyped
    <3>3. Goto(q, "slot") => FALSE
      BY <1>0 DEF Goto, ProcPart
    <3>4. QED
      BY <3>1, <3>2, <3>3 DEF WriteToken, RollBack
  <2>3. TakePlace(q) => FALSE
    BY <1>0 DEF TakePlace, Goto, ProcPart
  <2>4. Announce(q) \/ DropBatch(q) \/ Restart(q) => FALSE
    <3>1. batch[q] \ {user[q]} \in SUBSET Sessions /\ {} \in SUBSET Sessions
      BY <1>0 DEF ProcPart
    <3>2. QED
      BY <1>0, <3>1, GoOnIsTyped DEF Announce, DropBatch, Restart
  <2>5. QED
    BY <2>1, <2>2, <2>3, <2>4 DEF ProcessorStep
<1>3. CASE ~ \E r \in Members : ProcessorStep(r) \/ DropBatch(r) \/ Restart(r)
  BY <1>3, ProcessorsStay DEF procVars
<1>4. QED
  BY <1>1, <1>2, <1>3

\* A step keeps what each replica has given and may give within the bound.
LEMMA ReservedStep ==
    ASSUME TypeOK, Offsets, AdmittedByOne, BatchIsTaken, Reserved, [Next]_vars
    PROVE  Reserved'
<1>0. /\ \A q \in Members : GivenBy(q) \in SUBSET Sessions /\ batch[q] \subseteq Sessions
      /\ quota \in [Members -> Nat]
      /\ waiting \subseteq Sessions /\ held \subseteq Sessions
  BY DEF TypeOK, ProcPart, StorePart, GivenBy
<1>1. SUFFICES ASSUME NEW q \in Members
               PROVE  Cardinality(GivenBy(q)') + (IF pc'[q] = "pop" THEN quota'[q] ELSE 0)
                          <= MaxConcurrent
  BY DEF Reserved
<1>2. Cardinality(GivenBy(q)) \in Nat /\ MaxConcurrent \in Nat
  BY <1>0, SmallerSet, PlacesAssumption
<1>3. CASE Count(q)
  <2>1. /\ quota'[q] <= MaxConcurrent - Cardinality(held) /\ held' = held /\ batch' = batch
        /\ takenBy' = takenBy /\ pc[q] = "idle"
    <3>1. Cardinality(held) \in Nat
      BY <1>0, SmallerSet
    <3>2. QED
      BY <1>0, <1>3, <3>1, PlacesAssumption DEF Count, Free, At, storeVars, ghostVars
  <2>2. GivenBy(q)' \in SUBSET held
    BY <2>1 DEF GivenBy, TypeOK, ProcPart, RecordPart
  <2>3. /\ Cardinality(GivenBy(q)') \in Nat /\ Cardinality(held) \in Nat
        /\ Cardinality(GivenBy(q)') <= Cardinality(held)
    BY <1>0, <2>2, SmallerSet
  <2>4. quota'[q] \in Nat
    BY TypeStep DEF TypeOK, ProcPart
  <2>5. QED
    BY <1>2, <2>1, <2>3, <2>4
<1>4. ASSUME ~Count(q), ~ \E r \in Members : Pop(r)
      PROVE  Cardinality(GivenBy(q)') + (IF pc'[q] = "pop" THEN quota'[q] ELSE 0)
                 <= MaxConcurrent
  <2>1. GivenBy(q)' \in SUBSET GivenBy(q)
    BY <1>4, GivenShrinks
  <2>2. /\ Cardinality(GivenBy(q)') \in Nat
        /\ Cardinality(GivenBy(q)') <= Cardinality(GivenBy(q))
    BY <1>0, <2>1, SmallerSet
  <2>3. pc'[q] = "pop" => pc[q] = "pop" /\ quota'[q] = quota[q]
    BY <1>4, QuotaStays
  <2>4. quota[q] \in Nat
    BY <1>0
  <2>5. QED
    BY <1>2, <2>2, <2>3, <2>4 DEF Reserved
<1>5. ASSUME NEW r \in Members, Pop(r), ~Count(q)
      PROVE  Cardinality(GivenBy(q)') + (IF pc'[q] = "pop" THEN quota'[q] ELSE 0)
                 <= MaxConcurrent
  <2>1. PICK S \in SUBSET waiting :
             /\ Cardinality(S) <= quota[r]
             /\ \A p \in Members \ {r} : batch'[p] = batch[p]
             /\ \/ /\ batch'[r] = S
                   /\ takenBy' = [s \in Sessions |-> IF s \in S THEN r ELSE takenBy[s]]
                \/ batch'[r] = {} /\ takenBy' = takenBy
             /\ pc'[r] # "pop"
    BY <1>5, PopTakes
  <2>2. held' = held /\ pc[r] = "pop" /\ batch[r] = {}
    BY <1>5 DEF Pop, At, TypeOK, ProcPart
  <2>3. CASE q = r
    <3>1. GivenBy(q)' \in SUBSET (GivenBy(q) \cup S)
      BY <1>0, <2>1, <2>2, <2>3 DEF GivenBy
    <3>2. S \in SUBSET Sessions /\ GivenBy(q) \cup S \in SUBSET Sessions
      BY <1>0, <2>1
    <3>3. /\ IsFiniteSet(S) /\ IsFiniteSet(GivenBy(q)) /\ Cardinality(S) \in Nat
          /\ Cardinality(GivenBy(q)') \in Nat
          /\ Cardinality(GivenBy(q)') <= Cardinality(GivenBy(q) \cup S)
          /\ Cardinality(GivenBy(q) \cup S) \in Nat
      BY <1>0, <3>1, <3>2, SmallerSet
    <3>4. Cardinality(GivenBy(q) \cup S) <= Cardinality(GivenBy(q)) + Cardinality(S)
      <4>1. /\ IsFiniteSet(GivenBy(q) \cap S)
            /\ Cardinality(GivenBy(q) \cup S) = Cardinality(GivenBy(q)) + Cardinality(S)
                                                   - Cardinality(GivenBy(q) \cap S)
        BY <3>3, FS_Union, FS_Intersection
      <4>2. Cardinality(GivenBy(q) \cap S) \in Nat
        BY <4>1, FS_CardinalityType
      <4>3. QED
        BY <1>2, <3>3, <4>1, <4>2
    <3>5. quota[q] \in Nat /\ Cardinality(GivenBy(q)) + quota[q] <= MaxConcurrent
      BY <1>0, <2>2, <2>3 DEF Reserved
    <3>6. QED
      BY <1>2, <2>1, <2>3, <3>3, <3>4, <3>5
  <2>4. CASE q # r
    <3>1. GivenBy(q)' \in SUBSET GivenBy(q)
      BY <1>0, <2>1, <2>2, <2>4 DEF GivenBy, TypeOK, RecordPart
    <3>2. /\ Cardinality(GivenBy(q)') \in Nat
          /\ Cardinality(GivenBy(q)') <= Cardinality(GivenBy(q))
      BY <1>0, <3>1, SmallerSet
    <3>3. pc'[q] = "pop" => pc[q] = "pop" /\ quota'[q] = quota[q]
      BY <1>5, QuotaStays
    <3>4. quota[q] \in Nat
      BY <1>0
    <3>5. QED
      BY <1>2, <3>2, <3>3, <3>4 DEF Reserved
  <2>5. QED
    BY <2>3, <2>4
<1>6. QED
  BY <1>3, <1>4, <1>5

-----------------------------------------------------------------------------
(* Who has a token has a place. *)

\* The session whose outcome is at hand is in no batch.
LEMMA HandledIsDone ==
    ASSUME TypeOK, ReportsFollow, hstep # "idle"
    PROVE  Handled \in Sessions /\ \A r \in Members : Handled \notin batch[r]
<1>1. Handled \in Sessions /\ position \in 1 .. Len(log)
  BY TypeParts, HandledIsSession
<1>2. Handled \in announced
  BY <1>1 DEF ReportsFollow, Handled
<1>3. QED
  BY <1>1, <1>2 DEF ReportsFollow

\* A step keeps the SREM behind the end of the token.
LEMMA SpendsStep ==
    ASSUME TypeOK, Offsets, ReportsFollow, OutcomeSpends, [Next]_vars
    PROVE  OutcomeSpends'
<1>1. ASSUME NEW r \in Members, ProcessorStep(r) \/ DropBatch(r) \/ Restart(r)
      PROVE  OutcomeSpends'
  <2>1. spent' = spent
    BY <1>1 DEF ProcessorStep, Count, Pop, WriteToken, TakePlace, RollBack, Announce,
                DropBatch, Restart, recordVars
  <2>2. UNCHANGED <<log, position, hstep>> \/ hstep' = "idle"
    BY <1>1 DEF ProcessorStep, Count, Pop, WriteToken, TakePlace, RollBack, Announce,
                DropBatch, Restart, consumerVars, OwnerDies
  <2>3. \/ exposed \subseteq exposed'
        \/ exposed \ {user[r]} \subseteq exposed' /\ user[r] \in batch[r]
    <3>1. CASE TakePlace(r)
      <4>1. user[r] \in batch[r]
        BY <3>1 DEF TakePlace, At, TypeOK, ProcPart
      <4>2. QED
        BY <3>1, <4>1 DEF TakePlace
    <3>2. CASE ~TakePlace(r)
      BY <1>1, <3>2 DEF ProcessorStep, Count, Pop, WriteToken, RollBack, Announce,
                        DropBatch, Restart, ghostVars
    <3>3. QED
      BY <3>1, <3>2
  <2>4. CASE UNCHANGED <<log, position, hstep>> /\ hstep # "idle"
    <3>1. Handled' = Handled /\ \A q \in Members : Handled \notin batch[q]
      BY <2>4, HandledIsDone DEF Handled
    <3>2. QED
      BY <2>1, <2>3, <2>4, <3>1 DEF OutcomeSpends
  <2>5. CASE hstep' = "idle"
    BY <2>5 DEF OutcomeSpends
  <2>6. QED
    BY <2>2, <2>4, <2>5
<1>2. ASSUME NEW s \in Sessions, ReportOutcome(s)
      PROVE  OutcomeSpends'
  <2>1. UNCHANGED <<position, hstep, spent, exposed>> /\ log' = Append(log, s)
        /\ log \in Seq(Sessions)
    BY <1>2 DEF ReportOutcome, Publish, recordVars, ghostVars,
                TypeOK, ConsumerPart, ConsumerType
  <2>2. CASE hstep = "idle"
    BY <2>1, <2>2 DEF OutcomeSpends
  <2>3. CASE hstep # "idle"
    <3>1. position \in 1 .. Len(log)
      BY <2>3, TypeParts, HandledIsSession
    <3>2. Handled' = Handled
      BY <2>1, <3>1, AppendProperties DEF Handled
    <3>3. QED
      BY <2>1, <3>2 DEF OutcomeSpends
  <2>4. QED
    BY <2>2, <2>3
<1>3. CASE GroupStep
  <2>1. spent' = spent /\ exposed' = exposed /\ log' = log
        /\ (hstep' \in {"place", "record"} => hstep' = hstep /\ position' = position)
    BY <1>3, TypeParts, GroupIsTyped DEF GroupStep, recordVars, ghostVars
  <2>2. QED
    BY <2>1 DEF OutcomeSpends, Handled
<1>4. CASE GetRecord \/ EndRecord
  <2>1. hstep' \in {"idle", "token"}
    BY <1>4, TypeParts, HandlerEnds, HandlerGoesOn DEF GetRecord, EndRecord
  <2>2. QED
    BY <2>1 DEF OutcomeSpends
<1>5. CASE Invalidate
  <2>1. log' = log /\ position' = position
    BY <1>5 DEF Invalidate, HandlerGoes
  <2>2. Handled \in spent' \cup exposed'
    BY <1>5 DEF Invalidate
  <2>3. QED
    BY <2>1, <2>2 DEF OutcomeSpends, Handled
<1>6. CASE Release
  <2>1. UNCHANGED <<log, position, spent, exposed>> /\ hstep = "place"
    BY <1>6 DEF Release, HandlerGoes, recordVars, ghostVars
  <2>2. QED
    BY <2>1 DEF OutcomeSpends, Handled
<1>7. CASE Tick \/ UNCHANGED vars
  <2>1. UNCHANGED <<log, position, hstep, spent, exposed>>
    BY <1>7 DEF Tick, vars, consumerVars, recordVars, ghostVars
  <2>2. QED
    BY <2>1 DEF OutcomeSpends, Handled
<1>8. QED
  BY <1>1, <1>2, <1>3, <1>4, <1>5, <1>6, <1>7 DEF Next, HandlerStep

\* A session keeps its claim when nothing about it changes: its token is no
\* better than before, its replica still places it or its place lasts as long.
Kept(s) ==
    /\ s \notin exposed
    /\ Usable(s)' => Usable(s)
    /\ BeingPlaced(s) => BeingPlaced(s)'
    /\ s \in held /\ (ttl = None \/ left[s] <= ttl) /\ Usable(s)'
          => s \in held' /\ (ttl' = None \/ left'[s] <= ttl')

\* A session that keeps its claim is as placed as before.
LEMMA KeptIsPlaced ==
    ASSUME Placed, NEW s \in Sessions, Kept(s), Usable(s)'
    PROVE  BeingPlaced(s)' \/ (s \in held' /\ (ttl' = None \/ left'[s] <= ttl'))
BY DEF Kept, Placed

\* A replica that is not placing a session does not change who is being placed
\* elsewhere.
LEMMA PlacedElsewhere ==
    ASSUME TypeOK, Offsets, NEW r \in Members,
           ProcessorStep(r) \/ DropBatch(r) \/ Restart(r),
           NEW s \in Sessions, BeingPlaced(s), ~(pc[r] = "slot" /\ user[r] = s)
    PROVE  BeingPlaced(s)'
<1>1. OthersStay(r)
  BY ProcessorIsTyped
<1>2. QED
  BY <1>1 DEF BeingPlaced, OthersStay

\* A step of a replica leaves nobody with a token and without a place.
LEMMA ReplicaPlaces ==
    ASSUME TypeOK, Offsets, Placed, NEW r \in Members,
           ProcessorStep(r) \/ DropBatch(r) \/ Restart(r)
    PROVE  Placed'
<1>0. /\ status \in [Sessions -> {"queued", "admitted", "ended", "gone"}]
      /\ left \in [Sessions -> 0 .. Life] /\ Life \in Nat
      /\ user[r] \in Sessions \cup {None} /\ ttl \in 1 .. Life \cup {None}
  BY PlacesAssumption DEF TypeOK, RecordPart, ProcPart, StorePart
<1>1. SUFFICES ASSUME NEW s \in Sessions, s \notin exposed', Usable(s)'
               PROVE  BeingPlaced(s)' \/ (s \in held' /\ (ttl' = None \/ left'[s] <= ttl'))
  BY DEF Placed
<1>2. CASE Count(r) \/ Pop(r) \/ Announce(r)
  <2>1. UNCHANGED <<held, ttl, status, left, spent, exposed>> /\ pc[r] # "slot"
    BY <1>2 DEF Count, Pop, Announce, At, storeVars, recordVars, ghostVars
  <2>2. BeingPlaced(s) => BeingPlaced(s)'
    BY <1>2, <2>1, PlacedElsewhere DEF ProcessorStep
  <2>3. QED
    BY <1>1, <2>1, <2>2, KeptIsPlaced DEF Kept, Usable
<1>3. CASE DropBatch(r) \/ Restart(r)
  <2>1. /\ UNCHANGED <<held, ttl, status, left, spent>> /\ s \notin exposed
        /\ ~(pc[r] = "slot" /\ user[r] = s)
    BY <1>1, <1>3 DEF DropBatch, Restart, At, storeVars, recordVars
  <2>2. BeingPlaced(s) => BeingPlaced(s)'
    BY <1>3, <2>1, PlacedElsewhere
  <2>3. QED
    BY <1>1, <2>1, <2>2, KeptIsPlaced DEF Kept, Usable
<1>4. CASE RollBack(r)
  <2>1. /\ UNCHANGED <<held, ttl, left, spent, exposed>> /\ pc[r] # "slot"
        /\ \/ status' = status
           \/ status' = [status EXCEPT ![user[r]] = IF @ = "gone" THEN @ ELSE "queued"]
    BY <1>4 DEF RollBack, At, storeVars, ghostVars
  <2>2. status'[s] = "admitted" => status[s] = "admitted"
    BY <1>0, <2>1
  <2>3. BeingPlaced(s) => BeingPlaced(s)'
    BY <1>4, <2>1, PlacedElsewhere DEF ProcessorStep
  <2>4. QED
    BY <1>1, <2>1, <2>2, <2>3, KeptIsPlaced DEF Kept, Usable
<1>5. CASE WriteToken(r)
  <2>1. UNCHANGED <<held, ttl, spent>> /\ pc[r] = "token" /\ s \notin exposed
    BY <1>1, <1>5 DEF WriteToken, At, storeVars
  <2>2. BeingPlaced(s) => BeingPlaced(s)'
    BY <1>5, <2>1, PlacedElsewhere DEF ProcessorStep
  <2>3. CASE UNCHANGED <<status, left>>
    BY <1>1, <2>1, <2>2, <2>3, KeptIsPlaced DEF Kept, Usable
  <2>4. ASSUME NEW n \in 1 .. Life, status' = [status EXCEPT ![user[r]] = "admitted"],
               left' = [left EXCEPT ![user[r]] = n], s # user[r]
        PROVE  BeingPlaced(s)' \/ (s \in held' /\ (ttl' = None \/ left'[s] <= ttl'))
    <3>1. status'[s] = status[s] /\ left'[s] = left[s]
      BY <1>0, <2>4
    <3>2. QED
      BY <1>1, <2>1, <2>2, <3>1, KeptIsPlaced DEF Kept, Usable
  <2>5. CASE s = user[r] /\ Goto(r, "slot")
    <3>1. pc'[r] = "slot" /\ user'[r] = s
      BY <2>5 DEF Goto, TypeOK, ProcPart
    <3>2. QED
      BY <3>1 DEF BeingPlaced
  <2>6. Life \in 1 .. Life
    BY PlacesAssumption
  <2>7. QED
    BY <1>1, <1>5, <2>3, <2>4, <2>5, <2>6 DEF WriteToken
<1>6. CASE TakePlace(r)
  <2>1. /\ UNCHANGED <<status, left, spent>> /\ pc[r] = "slot"
        /\ \/ held' = held \cup {user[r]} /\ ttl' = Life /\ exposed' = exposed \ {user[r]}
           \/ /\ exposed' = exposed \cup {user[r]}
              /\ \/ UNCHANGED <<held, ttl>>
                 \/ held' = held \cup {user[r]} /\ ttl' \in {ttl, Life}
    BY <1>6 DEF TakePlace, At, recordVars, Renewed
  <2>2. left[s] \in 0 .. Life
    BY <1>0
  <2>3. CASE s = user[r]
    <3>1. s \in held' /\ ttl' = Life
      BY <1>1, <2>1, <2>3
    <3>2. QED
      BY <1>0, <2>1, <2>2, <3>1
  <2>4. CASE s # user[r]
    <3>1. s \notin exposed
      BY <1>1, <2>1, <2>4
    <3>2. BeingPlaced(s) => BeingPlaced(s)'
      BY <1>6, <2>4, PlacedElsewhere DEF ProcessorStep
    <3>3. s \in held /\ (ttl = None \/ left[s] <= ttl)
             => s \in held' /\ (ttl' = None \/ left'[s] <= ttl')
      BY <1>0, <2>1, <2>2
    <3>4. QED
      BY <1>1, <2>1, <3>1, <3>2, <3>3, KeptIsPlaced DEF Kept, Usable
  <2>5. QED
    BY <2>3, <2>4
<1>7. QED
  BY <1>2, <1>3, <1>4, <1>5, <1>6 DEF ProcessorStep

\* Nor does an outcome, a step of the group or a tick of time.
LEMMA OthersPlace ==
    ASSUME TypeOK, Offsets, Placed, ReportsFollow, OutcomeSpends,
           \/ \E s \in Sessions : ReportOutcome(s)
           \/ GroupStep \/ HandlerStep \/ Tick \/ UNCHANGED vars
    PROVE  Placed'
<1>0. /\ status \in [Sessions -> {"queued", "admitted", "ended", "gone"}]
      /\ left \in [Sessions -> 0 .. Life] /\ Life \in Nat
      /\ ttl \in 1 .. Life \cup {None} /\ None \notin Nat
  BY PlacesAssumption, NoneApart DEF TypeOK, RecordPart, StorePart
<1>1. SUFFICES ASSUME NEW s \in Sessions, s \notin exposed', Usable(s)'
               PROVE  BeingPlaced(s)' \/ (s \in held' /\ (ttl' = None \/ left'[s] <= ttl'))
  BY DEF Placed
<1>2. UNCHANGED <<pc, user>> /\ exposed \subseteq exposed'
  BY DEF ReportOutcome, GroupStep, HandlerStep, GetRecord, Invalidate, Release, EndRecord,
         Tick, vars, procVars, ghostVars
<1>3. BeingPlaced(s)' <=> BeingPlaced(s)
  BY <1>2 DEF BeingPlaced
<1>4. CASE UNCHANGED <<held, ttl, status, left, spent>>
  BY <1>1, <1>2, <1>3, <1>4, KeptIsPlaced DEF Kept, Usable
<1>5. CASE GetRecord \/ EndRecord
  <2>1. /\ UNCHANGED <<held, ttl, left, spent>>
        /\ \/ status' = status
           \/ status' = [status EXCEPT ![Handled] = "gone"]
           \/ status' = [status EXCEPT ![Handled] = "ended"]
    BY <1>5 DEF GetRecord, EndRecord, storeVars
  <2>2. status'[s] = "admitted" => status[s] = "admitted"
    BY <1>0, <2>1
  <2>3. QED
    BY <1>1, <1>2, <1>3, <2>1, <2>2, KeptIsPlaced DEF Kept, Usable
<1>6. CASE Invalidate
  <2>1. UNCHANGED <<held, ttl, status, left>> /\ spent \subseteq spent'
    BY <1>6 DEF Invalidate, storeVars
  <2>2. QED
    BY <1>1, <1>2, <1>3, <2>1, KeptIsPlaced DEF Kept, Usable
<1>7. CASE Release
  <2>1. /\ UNCHANGED <<status, left, spent, exposed>> /\ hstep = "place"
        /\ held' \in {held, held \ {Handled}} /\ ttl' = IF held' = {} THEN None ELSE ttl
    BY <1>7 DEF Release, HandlerGoes, recordVars, ghostVars
  <2>2. Handled # s
    BY <1>1, <2>1 DEF OutcomeSpends, Usable
  <2>3. QED
    BY <1>1, <1>2, <1>3, <2>1, <2>2, KeptIsPlaced DEF Kept, Usable
<1>8. CASE Tick
  <2>1. /\ UNCHANGED <<status, spent>> /\ left'[s] = LessOne(left[s])
        /\ IF ttl = None THEN UNCHANGED <<held, ttl>>
           ELSE IF ttl = 1 THEN held' = {} /\ ttl' = None
           ELSE UNCHANGED held /\ ttl' = ttl - 1
    BY <1>8 DEF Tick
  <2>2. left[s] \in Nat /\ left'[s] > 0 /\ (ttl = None \/ ttl \in Nat)
    BY <1>0, <1>1 DEF Usable
  <2>3. left'[s] = left[s] - 1 /\ left[s] > 1
    BY <2>1, <2>2 DEF LessOne
  <2>4. Usable(s)
    BY <1>1, <2>1, <2>2, <2>3 DEF Usable
  <2>5. s \in held /\ (ttl = None \/ left[s] <= ttl)
           => s \in held' /\ (ttl' = None \/ left'[s] <= ttl')
    BY <1>0, <2>1, <2>2, <2>3
  <2>6. QED
    BY <1>1, <1>2, <1>3, <2>4, <2>5, KeptIsPlaced DEF Kept
<1>9. (\E t \in Sessions : ReportOutcome(t)) \/ GroupStep \/ UNCHANGED vars
      => UNCHANGED <<held, ttl, status, left, spent>>
  BY DEF ReportOutcome, GroupStep, vars, storeVars, recordVars
<1>10. QED
  BY <1>4, <1>5, <1>6, <1>7, <1>8, <1>9 DEF HandlerStep

-----------------------------------------------------------------------------
(* The invariant and what follows from it. *)

\* A place that is held is in particular there.
LEMMA PlacedIsEnough == Placed => PlaceOutlivesToken
BY DEF Placed, PlaceOutlivesToken

\* What a replica reserves includes what it has given.
LEMMA ReservedIsEnough == TypeOK /\ Reserved => EachKeepsBound
<1>1. SUFFICES ASSUME TypeOK, Reserved, NEW r \in Members
               PROVE  Cardinality(GivenBy(r)) <= MaxConcurrent
  BY DEF EachKeepsBound
<1>2. quota[r] \in Nat /\ GivenBy(r) \in SUBSET Sessions
  BY <1>1 DEF TypeOK, StorePart, ProcPart, GivenBy
<1>3. Cardinality(GivenBy(r)) \in Nat /\ MaxConcurrent \in Nat
  BY <1>2, SmallerSet, PlacesAssumption
<1>4. QED
  BY <1>1, <1>2, <1>3 DEF Reserved

\* The processing set starts empty and all sessions queued.
LEMMA PlacesInit == Init => PlacesInv
<1>1. SUFFICES ASSUME Init PROVE PlacesInv
  OBVIOUS
<1>2. TypeOK /\ Offsets
  <2>1. log \in Seq(Sessions) /\ None \notin Nat
    BY <1>1, ReadersAssumption DEF Init, ConsumerInit
  <2>2. ConsumerPart /\ Offsets
    BY <1>1, <2>1 DEF Init, ConsumerInit, ConsumerPart, ConsumerType, Offsets
  <2>3. StorePart /\ RecordPart /\ ProcPart
    BY <1>1, PlacesAssumption DEF Init, StorePart, RecordPart, ProcPart
  <2>4. QED
    BY <2>2, <2>3, TypeParts
<1>3. Placed /\ OutcomeSpends
  BY <1>1 DEF Init, ConsumerInit, Placed, Usable, OutcomeSpends
<1>4. ReportsFollow /\ AdmittedByOne /\ BatchIsTaken
  BY <1>1 DEF Init, ConsumerInit, ReportsFollow, AdmittedByOne, BatchIsTaken
<1>5. Reserved
  <2>1. \A r \in Members : GivenBy(r) = {} /\ pc[r] # "pop"
    BY <1>1 DEF Init, GivenBy
  <2>2. Cardinality({}) = 0
    BY FS_EmptySet
  <2>3. QED
    BY <2>1, <2>2, PlacesAssumption DEF Reserved
<1>6. QED
  BY <1>2, <1>3, <1>4, <1>5 DEF PlacesInv

\* Every step keeps the invariant.
LEMMA PlacesStep == PlacesInv /\ [Next]_vars => PlacesInv'
<1>1. SUFFICES ASSUME PlacesInv, [Next]_vars PROVE PlacesInv'
  OBVIOUS
<1>2. TypeOK' /\ Offsets'
  BY <1>1, TypeStep DEF PlacesInv
<1>3. AdmittedByOne' /\ BatchIsTaken'
  BY <1>1, BatchStep DEF PlacesInv
<1>4. ReportsFollow'
  BY <1>1, ReportsStep DEF PlacesInv
<1>5. OutcomeSpends'
  BY <1>1, SpendsStep DEF PlacesInv
<1>6. Reserved'
  BY <1>1, ReservedStep DEF PlacesInv
<1>7. Placed'
  BY <1>1, ReplicaPlaces, OthersPlace DEF PlacesInv, Next
<1>8. QED
  BY <1>2, <1>3, <1>4, <1>5, <1>6, <1>7 DEF PlacesInv

\* The invariant holds in every reachable state.
THEOREM PlacesInvHolds == Spec => []PlacesInv
BY PlacesInit, PlacesStep, PTL DEF Spec

\* The variables have their types.
THEOREM TypeOKHolds == Spec => []TypeOK
BY PlacesInvHolds, PTL DEF PlacesInv

\* One TTL for the whole set never takes the place of a token that is accepted.
THEOREM PlaceOutlivesTokenHolds == Spec => []PlaceOutlivesToken
BY PlacesInvHolds, PlacedIsEnough, PTL DEF PlacesInv

\* However many replicas run, no session is admitted by two.
THEOREM AdmittedByOneHolds == Spec => []AdmittedByOne
BY PlacesInvHolds, PTL DEF PlacesInv

\* Each of them keeps the bound for the places it gives.
THEOREM EachKeepsBoundHolds == Spec => []EachKeepsBound
BY PlacesInvHolds, ReservedIsEnough, PTL DEF PlacesInv

-----------------------------------------------------------------------------
(* Commits and tries. *)

\* What the committed offset, the mark and the tried messages do in a step: nobody else
\* but the consumer's own steps moves them.
LEMMA ConsumerMoves ==
    ASSUME TypeOK, [Next]_vars
    PROVE  \/ UNCHANGED <<committed, owner, position, marked, tried>>
           \/ \E r \in Members : JoinGroup(r)
           \/ CommitOffset
           \/ \E c \in {committed, FlushedAt} : SessionEnds(c)
           \/ OwnerDies
           \/ owner # None /\ \E mark \in {position + 1, marked} : HandlerReturns(mark)
<1>1. CASE UNCHANGED vars
  BY <1>1 DEF vars, consumerVars
<1>2. ASSUME NEW r \in Members, ProcessorStep(r) \/ DropBatch(r) \/ Restart(r)
      PROVE  UNCHANGED <<committed, owner, position, marked, tried>> \/ OwnerDies
  BY <1>2 DEF ProcessorStep, Count, Pop, WriteToken, TakePlace, RollBack, Announce, DropBatch,
              Restart, consumerVars
<1>3. ASSUME NEW s \in Sessions, ReportOutcome(s)
      PROVE  UNCHANGED <<committed, owner, position, marked, tried>>
  BY <1>3 DEF ReportOutcome, Publish
<1>4. CASE GroupStep
  BY <1>4 DEF GroupStep, TakeMessage
<1>5. CASE HandlerStep
  <2>1. owner # None
    BY <1>5 DEF HandlerStep, GetRecord, Invalidate, Release, EndRecord, HandlerGoes, TypeOK,
                ConsumerPart
  <2>2. \/ UNCHANGED <<committed, owner, position, marked, tried>>
        \/ MarkMessage \/ LeaveUnmarked
    BY <1>5 DEF HandlerStep, GetRecord, Invalidate, Release, EndRecord, HandlerGoes
  <2>3. QED
    BY <2>1, <2>2 DEF MarkMessage, LeaveUnmarked
<1>6. CASE Tick
  BY <1>6 DEF Tick, consumerVars
<1>7. QED
  BY <1>1, <1>2, <1>3, <1>4, <1>5, <1>6 DEF Next

\* Every step keeps what lies between the commit, the mark and the position tried.
LEMMA TriesStep ==
    ASSUME TypeOK, Offsets, TriesFollow, [Next]_vars
    PROVE  TriesFollow'
<1>1. /\ position \in Nat /\ committed \in Nat \cup {None} /\ marked \in Nat \cup {None}
      /\ owner \in Members \cup {None} /\ Len(log) \in Nat
  BY LenProperties DEF TypeOK, ConsumerPart, ConsumerType
<1>2. CASE UNCHANGED <<committed, owner, position, marked, tried>>
  BY <1>2 DEF TriesFollow
<1>3. ASSUME NEW r \in Members, JoinGroup(r) PROVE TriesFollow'
  <2>1. /\ marked' = None /\ UNCHANGED <<committed, tried>>
        /\ committed # None => position' = committed
    BY <1>3 DEF JoinGroup
  <2>2. committed # None => committed .. (committed - 1) = {} /\ committed <= committed
    BY <1>1
  <2>3. QED
    BY <2>1, <2>2 DEF TriesFollow
<1>4. CASE CommitOffset
  <2>1. /\ owner # None /\ marked # None /\ committed' = marked
        /\ UNCHANGED <<owner, position, marked, tried>>
    BY <1>4 DEF CommitOffset
  <2>2. QED
    BY <1>1, <2>1 DEF TriesFollow
<1>5. CASE OwnerDies \/ \E c \in {committed, FlushedAt} : SessionEnds(c)
  BY <1>5 DEF OwnerDies, SessionEnds, TriesFollow
<1>6. ASSUME owner # None, NEW mark \in {position + 1, marked}, HandlerReturns(mark)
      PROVE  TriesFollow'
  <2>1. /\ tried' = tried \cup {position} /\ position' = position + 1 /\ marked' = mark
        /\ UNCHANGED <<committed, owner>>
    BY <1>6 DEF HandlerReturns
  <2>2. \A n \in Nat : n <= position /\ n .. (position - 1) \subseteq tried =>
            n <= position' /\ n .. (position' - 1) \subseteq tried'
    BY <1>1, <2>1
  <2>3. committed # None => /\ committed <= position'
                            /\ committed .. (position' - 1) \subseteq tried'
    BY <1>1, <1>6, <2>2 DEF TriesFollow
  <2>4. CASE mark = marked
    <3>1. marked # None => /\ marked <= position'
                           /\ marked .. (position' - 1) \subseteq tried'
      BY <1>1, <1>6, <2>2 DEF TriesFollow
    <3>2. QED
      BY <1>6, <2>1, <2>3, <2>4, <3>1 DEF TriesFollow
  <2>5. CASE mark = position + 1
    <3>1. /\ mark <= position' /\ mark .. (position' - 1) = {}
          /\ committed # None => committed <= mark
      BY <1>1, <1>6, <2>1, <2>5 DEF TriesFollow
    <3>2. QED
      BY <1>6, <2>1, <2>3, <3>1 DEF TriesFollow
  <2>6. QED
    BY <2>4, <2>5
<1>7. QED
  BY <1>2, <1>3, <1>4, <1>5, <1>6, ConsumerMoves

\* Whatever rebalances, restarts and failed handlers there are, and whichever replica owns
\* the partition: a committed offset never goes back and passes no outcome whose handler
\* has not returned.
THEOREM CommitsFollowTriesHolds == Spec => CommitsFollowTries
<1>1. Init => TriesFollow
  BY DEF Init, ConsumerInit, TriesFollow
<1>2. PlacesInv /\ TriesFollow /\ [Next]_vars => TriesFollow'
  BY TriesStep DEF PlacesInv
<1>3. PlacesInv /\ TriesFollow /\ [Next]_vars
      => [committed # None => /\ committed' >= committed
                              /\ committed .. (committed' - 1) \subseteq tried']_committed
  <2>1. SUFFICES ASSUME PlacesInv, TriesFollow, [Next]_vars, committed' # committed,
                        committed # None
                 PROVE  /\ committed' >= committed
                        /\ committed .. (committed' - 1) \subseteq tried'
    OBVIOUS
  <2>2. owner # None /\ marked # None /\ committed' = marked /\ tried' = tried
    BY <2>1, ConsumerMoves
    DEF PlacesInv, JoinGroup, CommitOffset, SessionEnds, FlushedAt, OwnerDies, HandlerReturns
  <2>3. position \in Nat /\ committed \in Nat /\ marked \in Nat
    BY <2>1, <2>2 DEF PlacesInv, TypeOK, ConsumerPart, ConsumerType
  <2>4. committed <= marked /\ marked <= position /\ committed .. (position - 1) \subseteq tried
    BY <2>1, <2>2 DEF TriesFollow
  <2>5. QED
    BY <2>2, <2>3, <2>4
<1>4. QED
  BY <1>1, <1>2, <1>3, PlacesInvHolds, PTL DEF Spec, CommitsFollowTries
=============================================================================
