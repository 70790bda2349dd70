-------------------------------- MODULE Config --------------------------------
(***************************************************************************)
(* config.Load: what becomes of the environment variables.  A variable is  *)
(* unset (or empty), given with a value that parses, or garbage.  Of the   *)
(* fields that only configure a client nothing is kept; the port and the   *)
(* processor's interval decide how the service starts.  The two limits of  *)
(* the queue are loaded the same way and are as little checked: they are   *)
(* the constants BatchSize and MaxConcurrent of Waitroom.                  *)
(***************************************************************************)
EXTENDS Integers

Raw == [kind : {"unset", "given", "garbage"}, value : Int]

\* getEnvAsInt, getEnvAsDuration, getEnvAsBool, getEnvAsSlice: a value that does
\* not parse counts as not set.
Parsed(raw, default) == IF raw.kind = "given" THEN raw.value ELSE default

\* The fields of an environment, and what Load makes of it; intervals in seconds.
\* placeholder: ENV is production and JWT_SECRET still the example of the template.
Env == [port : Raw, interval : Raw, placeholder : BOOLEAN]

Load(env) == [port |-> Parsed(env.port, 50056), interval |-> Parsed(env.interval, 1),
              placeholder |-> env.placeholder]

\* Validate: the interval and the limits of the queue are not looked at; the Redis
\* address and the secret are never empty, because Load has defaults for them.
Valid(cfg) == cfg.port > 0 /\ cfg.port <= 65535 /\ ~cfg.placeholder
=============================================================================
