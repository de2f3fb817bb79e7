------------------------------- MODULE Config -------------------------------
(***************************************************************************)
(* The numbers the process runs with: environment variables as getEnvInt   *)
(* and getEnvDuration read them (api/main.go), and what NewServer makes of *)
(* them (server.go).  Durations are in seconds.                            *)
(***************************************************************************)
EXTENDS Integers

CONSTANTS
    Unset,      \* the variable is missing or empty
    Malformed   \* it does not parse

\* getEnvInt and getEnvDuration: a malformed value is only warned about.
getEnv(v, fallback) == IF v \in {Unset, Malformed} THEN fallback ELSE v

\* NewServer: zero and negative values mean the default.
OrDefault(n, default) == IF n <= 0 THEN default ELSE n

workerCount(v) == OrDefault(getEnv(v, 8), 8)

batchTimeout(v) == OrDefault(getEnv(v, 5), 5)

\* The API leaves the other timeouts of ServerConfig zero.
readTimeout == OrDefault(0, 10)

\* How long Run lets Shutdown wait for the handlers.
gracePeriod == 10
=============================================================================
