----------------------------- MODULE Environment -----------------------------
(***************************************************************************)
(* What happens to the waiting room without being asked for: time passes,  *)
(* keys reach their TTL, the service restarts.                             *)
(***************************************************************************)
EXTENDS WaitroomState

ClockTick ==
    /\ now < MaxClock
    /\ now' = now + 1
    /\ UNCHANGED <<redisVars, ready, lapsed, faults, crashes>>
    /\ UNCHANGED <<joinVars, leaveVars, procVars, hdlVars>>

\* Two hours after CreateSession, so long after JoinQueue has returned, the
\* session's ExpiresAt has passed ...
SessionLapse(s) ==
    /\ s \in MayLapse \ lapsed
    /\ jpc[s] \in {"done", "failed", "refused"}
    /\ lapsed' = lapsed \cup {s}
    /\ UNCHANGED <<redisVars, ready, now, faults, crashes>>
    /\ UNCHANGED <<joinVars, leaveVars, procVars, hdlVars>>

\* ... and its key may reach its TTL.  A later write brings the record back.
SessionEvict(s) ==
    /\ s \in lapsed /\ session[s] # None
    /\ Stored(s, None)
    /\ UNCHANGED <<queue, processing, active, blacklist, envVars>>
    /\ UNCHANGED <<joinVars, leaveVars, procVars, hdlVars>>

\* A mutated form: AddToProcessing sets no TTL.
ProcessingStays(e) == processing[e] # processing[e] /\ UNCHANGED vars

\* The TTL of the processing key, set for the whole set by every SADD, runs out.
ProcessingExpire(e) ==
    /\ processing[e] # {}
    /\ processing' = [processing EXCEPT ![e] = {}]
    /\ UNCHANGED <<session, queue, active, blacklist, envVars>>
    /\ UNCHANGED <<joinVars, leaveVars, procVars, hdlVars>>

\* The service dies and starts again: requests in flight are gone, the
\* processor forgets the batch it popped, and Kafka delivers again every
\* message whose mark was not committed.
Crash ==
    /\ crashes < MaxCrashes /\ crashes' = crashes + 1
    /\ jpc' = [s \in Sessions |->
                  CASE jpc[s] = "enqueue" -> "refused"
                    [] jpc[s] \in {"resend", "activate", "update"} -> "failed"
                    [] OTHER -> jpc[s]]
    /\ lpc' = [s \in Sessions |-> IF lpc[s] \in {"idle", "done"} THEN lpc[s] ELSE "failed"]
    /\ LET settled == {m \in Messages : hpc[m] \in {"done", "skipped"}}
       IN  \E again \in SUBSET settled :
               hpc' = [m \in Messages |-> IF hpc[m] = "none" \/ m \in settled \ again
                                          THEN hpc[m] ELSE "sent"]
    /\ lcopy' = [s \in Sessions |-> None]
    /\ hcopy' = [m \in Messages |-> None]
    /\ hinv' = [m \in Messages |-> None]
    /\ ppc' = "idle" /\ todo' = {} /\ event' = None /\ quota' = 0
    /\ batch' = {} /\ user' = None /\ attempt' = 0 /\ ucopy' = None
    /\ UNCHANGED <<redisVars, queuedAt, entries, signed, ready, now, lapsed, faults>>
=============================================================================
