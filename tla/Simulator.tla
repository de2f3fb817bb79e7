----------------------------- MODULE Simulator ------------------------------
(***************************************************************************)
(* The load simulator (cmd/simulator/main.go): concurrent clients that     *)
(* send one batch each and count what comes back, then a report and an     *)
(* exit status that a deploy gate may use.                                 *)
(***************************************************************************)
EXTENDS Naturals, Integers, Sequences, FiniteSets, TLC

CONSTANT Clients

\* -concurrency is an int.
ASSUME ConcurrencyAssumption == IsFiniteSet(Clients)

Status == {"200", "400", "500", "504"}

VARIABLES
    urlOk,    \* http.NewRequest accepts the URL
    client,   \* each client goroutine: ready, waiting for the answer, done
    metrics,  \* the counters
    report    \* the last line printed, and the exit status

simVars == <<urlOk, client, metrics, report>>

concurrency == Cardinality(Clients)

newMetrics ==
    [requestsSent |-> 0, success |-> 0, serverError |-> 0, clientError |-> 0,
     timeout |-> 0, networkErr |-> 0,
     statusCodes |-> [code \in Status |-> 0], latencies |-> 0]

Metrics ==
    [requestsSent : Nat, success : Nat, serverError : Nat, clientError : Nat,
     timeout : Nat, networkErr : Nat, statusCodes : [Status -> Nat], latencies : Nat]

NoReport == [line |-> "none", exit |-> "none"]

SimTypeOK ==
    /\ urlOk \in BOOLEAN
    /\ client \in [Clients -> {"ready", "waiting", "done"}]
    /\ metrics \in Metrics
    /\ report \in [line : {"none", "clean", "non-success", "silent"}, exit : {"none", "0", "1"}]

SimInit ==
    /\ urlOk \in BOOLEAN
    /\ client = [c \in Clients |-> "ready"]
    /\ metrics = newMetrics
    /\ report = NoReport

-----------------------------------------------------------------------------
\* The updates of one client: number i of client c is for this rider, which
\* stands for the order as well.
riderID(c, i) == c * 1000 + i

\* A dense batch of WRITEs.
buildBatch(size, c) ==
    [i \in 1 .. size |-> [SeqID |-> i - 1, OperationType |-> "WRITE", RiderID |-> riderID(c, i - 1)]]

\* The request cannot be built: counted as a network error, not as sent.
ClientUnsent(c) ==
    /\ client[c] = "ready" /\ ~urlOk
    /\ client' = [client EXCEPT ![c] = "done"]
    /\ metrics' = [metrics EXCEPT !.networkErr = @ + 1]
    /\ UNCHANGED <<urlOk, report>>

\* httpClient.Do has a connection and waits.
ClientSend(c) ==
    /\ client[c] = "ready" /\ urlOk
    /\ client' = [client EXCEPT ![c] = "waiting"]
    /\ UNCHANGED <<urlOk, metrics, report>>

\* Do returns an error before or after the request went out; isTimeout tells a
\* timeout from the rest.
ClientError(c, timedOut) ==
    /\ client[c] \in {"ready", "waiting"} /\ urlOk
    /\ client' = [client EXCEPT ![c] = "done"]
    /\ metrics' = [metrics EXCEPT !.requestsSent = @ + 1,
                                  !.timeout = IF timedOut THEN @ + 1 ELSE @,
                                  !.networkErr = IF timedOut THEN @ ELSE @ + 1]
    /\ UNCHANGED <<urlOk, report>>

\* recordStatus.  Its three parts are guarded one by one, and nobody looks at
\* them before all clients are done.
recordStatus(m, code) ==
    [m EXCEPT !.statusCodes[code] = @ + 1,
              !.latencies = @ + 1,
              !.success = IF code = "200" THEN @ + 1 ELSE @,
              !.serverError = IF code \in {"500", "504"} THEN @ + 1 ELSE @,
              !.clientError = IF code = "400" THEN @ + 1 ELSE @]

\* Do returns a response.  The body is read and thrown away, and an error of
\* reading it as well: the status line alone counts.
ClientResponse(c, code) ==
    /\ client[c] = "waiting"
    /\ client' = [client EXCEPT ![c] = "done"]
    /\ metrics' = recordStatus([metrics EXCEPT !.requestsSent = @ + 1], code)
    /\ UNCHANGED <<urlOk, report>>

-----------------------------------------------------------------------------
\* The last line of printReport: errors of the client are not looked at.
ReportLine(m) ==
    IF m.serverError > 0 \/ m.timeout > 0 \/ m.networkErr > 0 THEN "non-success"
    ELSE IF m.success = concurrency THEN "clean" ELSE "silent"

\* Mutant: main does not wait for the clients.
ReportEarly ==
    /\ report = NoReport
    /\ report' = [line |-> ReportLine(metrics),
                  exit |-> IF metrics.success = concurrency THEN "0" ELSE "1"]
    /\ UNCHANGED <<urlOk, client, metrics>>

\* wg.Wait(), printReport and the exit status.
Report ==
    /\ report = NoReport
    /\ \A c \in Clients : client[c] = "done"
    /\ report' = [line |-> ReportLine(metrics),
                  exit |-> IF metrics.success = concurrency THEN "0" ELSE "1"]
    /\ UNCHANGED <<urlOk, client, metrics>>

-----------------------------------------------------------------------------
\* int(p * float64(n-1)), p in hundredths, in the range 0 .. n-1; and the three
\* percentiles of the report.
idx(p, n) ==
    LET i == (p * (n - 1)) \div 100
    IN  IF i < 0 THEN 0 ELSE IF i >= n THEN n - 1 ELSE i

percentiles(latencies) ==
    LET n == Len(latencies)
        sorted == SortSeq(latencies, <)
        At(p) == IF n = 0 THEN 0 ELSE sorted[1 + idx(p, n)]
    IN  [p50 |-> At(50), p95 |-> At(95), p99 |-> At(99)]

-----------------------------------------------------------------------------
\* The report accounts for every client exactly once, whatever the clients
\* met and in whatever order: the five classes add up to the number of
\* clients, the answered ones to the samples and the status codes; the clean
\* sweep is announced exactly when the exit status is 0.
ReportAccounts ==
    report # NoReport =>
      /\ metrics.success + metrics.serverError + metrics.clientError
           + metrics.timeout + metrics.networkErr = concurrency
      /\ metrics.success + metrics.serverError + metrics.clientError = metrics.latencies
      /\ metrics.latencies + metrics.timeout <= metrics.requestsSent
      /\ metrics.statusCodes["200"] = metrics.success
      /\ report.line = "clean" <=> report.exit = "0"
=============================================================================
