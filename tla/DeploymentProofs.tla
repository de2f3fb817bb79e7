-------------------------- MODULE DeploymentProofs --------------------------
(***************************************************************************)
(* The API process and the load simulator, for any number of requests and  *)
(* clients and any size of batch.                                          *)
(*                                                                         *)
(* The server's invariant ties what run() has reached to the state of the  *)
(* listener, the statements and the database (PhaseInv, StmtInv), and what *)
(* a request is doing to these (RequestInv).  The simulator's ties each    *)
(* counter to the set of clients it counts: the clients that are done, and *)
(* those among them that the server has answered with 200.                 *)
(***************************************************************************)
EXTENDS Deployment, FiniteSetTheorems, TLAPS

\* Before Server.Run; while it serves or waits for handlers; while run() returns.
Starting  == {"config", "open", "ping", "tick", "prepare", "preparing", "start"}
Serving   == {"serve", "shutdown"}
Returning == {"stop", "dbclose", "exit"}

\* The two ways to close the database under handlers that are still running.
Excused == cause \in {"forced", "serve"}

PhaseInv ==
    /\ exit = "none" <=> main # "exited"
    /\ main \in Starting \cup Serving \cup {"await"} => cause = "none"
    /\ main = "close" => cause \in {"none", "close"}
    /\ main \in Starting => serve = "off"
    /\ main \in Starting \cup {"serve"} => ~inShutdown
    /\ main = "serve" => serve # "closed"
    /\ serve \in {"starting", "listening"} /\ ~inShutdown => main = "serve"
    /\ exit = "0" => cause = "none"

StmtInv ==
    /\ main \in {"config", "open", "ping", "tick"} => \A s \in Stmts : stmt[s] = "none"
    /\ main \in {"prepare", "preparing"} =>
         stmt["delete"] = "none" /\ \A s \in Stmts : stmt[s] \in {"none", "open"}
    /\ main \in Serving \cup {"start"} => \A s \in Stmts : stmt[s] = "open"
    /\ main = "close" =>
         stmt["delete"] = "open" /\ \A s \in Stmts : stmt[s] \in {"open", "closed"}
    /\ main = "await" => \A s \in Stmts : stmt[s] = "closed"
    /\ main \in Returning \cup {"exited"} => Excused \/ \A s \in Stmts : stmt[s] # "open"
    /\ (main \in Returning \/ exit = "0") /\ cause = "none" =>
         \A s \in Stmts : stmt[s] = "closed"
    /\ serve # "off" => \A s \in Stmts : stmt[s] # "none"

DBInv ==
    /\ main \in {"ping", "tick", "prepare", "preparing", "start", "close", "await", "stop"}
                  \cup Serving => dbOpen
    /\ main \in {"config", "open", "exit"} \/ exit \in {"0", "1"} => ~dbOpen

\* A handler is active only before the drain, or after run() gave up on it; a
\* worker is only in an open statement; a handler that says that its batch is
\* finished left no worker behind.
RequestInv ==
    \A r \in Requests :
      /\ h[r] # "none" => serve # "off"
      /\ Active(r) => main \in Serving \/ Excused
      /\ closedErr[r] => Excused \/ h[r] \in {"400", "500", "504", "gone"}
      /\ h[r] \in {"none", "decode"} => ~closedErr[r]
      /\ ~WorkersLive(r) => RunReturned(r)
      /\ inCall[r] # NoStmt => stmt[inCall[r]] = "open"

ServerInv == LifecycleTypeOK /\ PhaseInv /\ StmtInv /\ DBInv /\ RequestInv

-----------------------------------------------------------------------------
Done == {c \in Clients : client[c] = "done"}
Sound == {c \in Done : h[c] = "200"}

\* The counters account for n clients, each in exactly one class.
Accounts(m, n) ==
    /\ m.success + m.serverError + m.clientError + m.timeout + m.networkErr = n
    /\ m.success + m.serverError + m.clientError = m.latencies
    /\ m.latencies + m.timeout <= m.requestsSent
    /\ m.statusCodes["200"] = m.success

ClassesInv == Accounts(metrics, Cardinality(Done))

\* A success is a client of its own that the server has answered with 200.
SuccessInv == metrics.success <= Cardinality(Sound)

ReportInv ==
    report # NoReport =>
      /\ Done = Clients
      /\ report = [line |-> ReportLine(metrics),
                   exit |-> IF metrics.success = concurrency THEN "0" ELSE "1"]

SimInv == SimTypeOK /\ ClassesInv /\ SuccessInv /\ ReportInv

DeploymentInv == ServerInv /\ SimInv

-----------------------------------------------------------------------------
\* StmtOrder lists the statements.
LEMMA OrderFacts ==
    /\ StmtOrder[1] = "get" /\ StmtOrder[2] = "set" /\ StmtOrder[3] = "delete"
    /\ \A i \in 1 .. 3 : StmtOrder[i] \in Stmts
  BY DEF StmtOrder, Stmts

\* FirstStmt is what its name says: while "delete" is in state st, one of the
\* three is the first, and it is "delete" only when no other one is in st.
LEMMA FirstStmtFacts ==
    ASSUME NEW st, stmt["delete"] = st
    PROVE  /\ FirstStmt(st) \in Stmts
           /\ stmt[FirstStmt(st)] = st
           /\ FirstStmt(st) = "delete" => stmt["get"] # st /\ stmt["set"] # st
  <1> DEFINE S == {i \in 1 .. 3 : stmt[StmtOrder[i]] = st}
  <1>1. 3 \in S /\ (1 \in S <=> stmt["get"] = st) /\ (2 \in S <=> stmt["set"] = st)
    BY OrderFacts
  <1>2. \E m \in S : \A y \in S : m <= y
    <2>1. CASE 1 \in S
      BY <2>1
    <2>2. CASE 1 \notin S /\ 2 \in S
      BY <2>2
    <2>3. CASE 1 \notin S /\ 2 \notin S
      BY <1>1, <2>3
    <2> QED BY <2>1, <2>2, <2>3
  <1>3. Min(S) \in S /\ \A y \in S : Min(S) <= y
    BY <1>2 DEF Min
  <1>4. FirstStmt(st) = StmtOrder[Min(S)]
    BY DEF FirstStmt
  <1> HIDE DEF S
  <1>5. Min(S) \in 1 .. 3 /\ stmt[StmtOrder[Min(S)]] = st
    BY <1>3 DEF S
  <1>6. ASSUME FirstStmt(st) = "delete" PROVE Min(S) = 3
    <2>1. Min(S) = 1 \/ Min(S) = 2 \/ Min(S) = 3
      BY <1>5
    <2>2. CASE Min(S) = 1
      <3>1. StmtOrder[Min(S)] = "get"
        BY <2>2, OrderFacts, Zenon
      <3> QED BY <1>4, <1>6, <3>1
    <2>3. CASE Min(S) = 2
      <3>1. StmtOrder[Min(S)] = "set"
        BY <2>3, OrderFacts, Zenon
      <3> QED BY <1>4, <1>6, <3>1
    <2> QED BY <2>1, <2>2, <2>3
  <1>7. FirstStmt(st) = "delete" => 1 \notin S /\ 2 \notin S
    BY <1>3, <1>6
  <1> QED BY <1>1, <1>4, <1>5, <1>7, OrderFacts

\* The steps of the main goroutine, of the one in ListenAndServe and of the
\* environment leave the requests alone.
LEMMA ProcessStepInv ==
    ASSUME ServerInv, MainStep \/ DeadlinePasses \/ ListenStep \/ Signal \/ SignalKills
    PROVE  ServerInv'
  <1> USE DEF Go, FailTo, setupVars, requestVars, Starting, Serving, Returning, Excused,
              Active, WorkersLive, RunReturned
  <1>1. CASE LoadConfig
    <2>1. LifecycleTypeOK'
      BY <1>1 DEF LoadConfig, ServerInv, LifecycleTypeOK
    <2>2. PhaseInv'
      BY <1>1 DEF LoadConfig, ServerInv, PhaseInv
    <2>3. StmtInv'
      BY <1>1 DEF LoadConfig, ServerInv, PhaseInv, StmtInv
    <2>4. DBInv'
      BY <1>1 DEF LoadConfig, ServerInv, DBInv, PhaseInv
    <2>5. RequestInv'
      BY <1>1 DEF LoadConfig, ServerInv, PhaseInv, StmtInv, RequestInv
    <2> QED BY <2>1, <2>2, <2>3, <2>4, <2>5 DEF ServerInv
  <1>2. CASE Open
    <2>1. LifecycleTypeOK'
      BY <1>2 DEF Open, ServerInv, LifecycleTypeOK
    <2>2. PhaseInv'
      BY <1>2 DEF Open, ServerInv, PhaseInv
    <2>3. StmtInv'
      BY <1>2 DEF Open, ServerInv, PhaseInv, StmtInv
    <2>4. DBInv'
      BY <1>2 DEF Open, ServerInv, DBInv, PhaseInv
    <2>5. RequestInv'
      BY <1>2 DEF Open, ServerInv, PhaseInv, StmtInv, RequestInv
    <2> QED BY <2>1, <2>2, <2>3, <2>4, <2>5 DEF ServerInv
  <1>3. CASE Ping
    <2>1. LifecycleTypeOK'
      BY <1>3 DEF Ping, ServerInv, LifecycleTypeOK
    <2>2. PhaseInv'
      BY <1>3 DEF Ping, ServerInv, PhaseInv
    <2>3. StmtInv'
      BY <1>3 DEF Ping, ServerInv, PhaseInv, StmtInv, Stmts
    <2>4. DBInv'
      BY <1>3 DEF Ping, ServerInv, DBInv, PhaseInv
    <2>5. RequestInv'
      BY <1>3 DEF Ping, ServerInv, PhaseInv, StmtInv, RequestInv
    <2> QED BY <2>1, <2>2, <2>3, <2>4, <2>5 DEF ServerInv
  <1>4. CASE Tick
    <2>1. LifecycleTypeOK'
      BY <1>4 DEF Tick, ServerInv, LifecycleTypeOK
    <2>2. PhaseInv'
      BY <1>4 DEF Tick, ServerInv, PhaseInv
    <2>3. StmtInv'
      BY <1>4 DEF Tick, ServerInv, PhaseInv, StmtInv
    <2>4. DBInv'
      BY <1>4 DEF Tick, ServerInv, DBInv, PhaseInv
    <2>5. RequestInv'
      BY <1>4 DEF Tick, ServerInv, PhaseInv, StmtInv, RequestInv
    <2> QED BY <2>1, <2>2, <2>3, <2>4, <2>5 DEF ServerInv
  <1>5. CASE GiveUp
    <2>1. LifecycleTypeOK'
      BY <1>5 DEF GiveUp, ServerInv, LifecycleTypeOK
    <2>2. PhaseInv'
      BY <1>5 DEF GiveUp, ServerInv, PhaseInv
    <2>3. StmtInv'
      BY <1>5 DEF GiveUp, ServerInv, PhaseInv, StmtInv
    <2>4. DBInv'
      BY <1>5 DEF GiveUp, ServerInv, DBInv, PhaseInv
    <2>5. RequestInv'
      BY <1>5 DEF GiveUp, ServerInv, PhaseInv, StmtInv, RequestInv
    <2> QED BY <2>1, <2>2, <2>3, <2>4, <2>5 DEF ServerInv
  <1>6. CASE DeadlinePasses
    <2>1. LifecycleTypeOK'
      BY <1>6 DEF DeadlinePasses, ServerInv, LifecycleTypeOK
    <2>2. PhaseInv'
      BY <1>6 DEF DeadlinePasses, ServerInv, PhaseInv
    <2>3. StmtInv'
      BY <1>6 DEF DeadlinePasses, ServerInv, PhaseInv, StmtInv
    <2>4. DBInv'
      BY <1>6 DEF DeadlinePasses, ServerInv, DBInv, PhaseInv
    <2>5. RequestInv'
      BY <1>6 DEF DeadlinePasses, ServerInv, PhaseInv, StmtInv, RequestInv
    <2> QED BY <2>1, <2>2, <2>3, <2>4, <2>5 DEF ServerInv
  <1>7. CASE PrepareStart
    <2>1. LifecycleTypeOK'
      BY <1>7 DEF PrepareStart, ServerInv, LifecycleTypeOK
    <2>2. PhaseInv'
      BY <1>7 DEF PrepareStart, ServerInv, PhaseInv
    <2>3. StmtInv'
      BY <1>7 DEF PrepareStart, ServerInv, PhaseInv, StmtInv
    <2>4. DBInv'
      BY <1>7 DEF PrepareStart, ServerInv, DBInv, PhaseInv
    <2>5. RequestInv'
      BY <1>7 DEF PrepareStart, ServerInv, PhaseInv, StmtInv, RequestInv
    <2> QED BY <2>1, <2>2, <2>3, <2>4, <2>5 DEF ServerInv
  <1>8. CASE PrepareOk
    <2>1. LifecycleTypeOK'
      BY <1>8 DEF PrepareOk, ServerInv, LifecycleTypeOK
    <2>2. PhaseInv'
      BY <1>8 DEF PrepareOk, ServerInv, PhaseInv
    <2>3. StmtInv'
      <3> DEFINE s == FirstStmt("none")
      <3>1. stmt["delete"] = "none" /\ stmt["get"] # "closed" /\ stmt["set"] # "closed"
        BY <1>8 DEF PrepareOk, ServerInv, StmtInv, Stmts
      <3>2. s \in Stmts /\ (s = "delete" => stmt["get"] # "none" /\ stmt["set"] # "none")
        BY <3>1, FirstStmtFacts
      <3>3. stmt' = [stmt EXCEPT ![s] = "open"] /\ main' = IF s = "delete" THEN "start" ELSE "prepare"
        BY <1>8 DEF PrepareOk
      <3> HIDE DEF s
      <3> QED BY <1>8, <3>1, <3>2, <3>3
              DEF PrepareOk, ServerInv, LifecycleTypeOK, PhaseInv, StmtInv, Stmts
    <2>4. DBInv'
      BY <1>8 DEF PrepareOk, ServerInv, DBInv, PhaseInv
    <2>5. RequestInv'
      BY <1>8 DEF PrepareOk, ServerInv, PhaseInv, StmtInv, RequestInv
    <2> QED BY <2>1, <2>2, <2>3, <2>4, <2>5 DEF ServerInv
  <1>9. CASE PrepareFails
    <2>1. LifecycleTypeOK'
      BY <1>9 DEF PrepareFails, ServerInv, LifecycleTypeOK
    <2>2. PhaseInv'
      BY <1>9 DEF PrepareFails, ServerInv, PhaseInv
    <2>3. StmtInv'
      BY <1>9 DEF PrepareFails, ServerInv, PhaseInv, StmtInv
    <2>4. DBInv'
      BY <1>9 DEF PrepareFails, ServerInv, DBInv, PhaseInv
    <2>5. RequestInv'
      BY <1>9 DEF PrepareFails, ServerInv, PhaseInv, StmtInv, RequestInv
    <2> QED BY <2>1, <2>2, <2>3, <2>4, <2>5 DEF ServerInv
  <1>10. CASE Run
    <2>1. LifecycleTypeOK'
      BY <1>10 DEF Run, ServerInv, LifecycleTypeOK
    <2>2. PhaseInv'
      BY <1>10 DEF Run, ServerInv, PhaseInv
    <2>3. StmtInv'
      BY <1>10 DEF Run, ServerInv, PhaseInv, StmtInv
    <2>4. DBInv'
      BY <1>10 DEF Run, ServerInv, DBInv, PhaseInv
    <2>5. RequestInv'
      BY <1>10 DEF Run, ServerInv, PhaseInv, StmtInv, RequestInv
    <2> QED BY <2>1, <2>2, <2>3, <2>4, <2>5 DEF ServerInv
  <1>11. CASE Listen
    <2>1. LifecycleTypeOK'
      BY <1>11 DEF Listen, ServerInv, LifecycleTypeOK
    <2>2. PhaseInv'
      BY <1>11 DEF Listen, ServerInv, PhaseInv
    <2>3. StmtInv'
      BY <1>11 DEF Listen, ServerInv, PhaseInv, StmtInv
    <2>4. DBInv'
      BY <1>11 DEF Listen, ServerInv, DBInv, PhaseInv
    <2>5. RequestInv'
      BY <1>11 DEF Listen, ServerInv, PhaseInv, StmtInv, RequestInv
    <2> QED BY <2>1, <2>2, <2>3, <2>4, <2>5 DEF ServerInv
  <1>12. CASE ListenFails
    <2>1. LifecycleTypeOK'
      BY <1>12 DEF ListenFails, ServerInv, LifecycleTypeOK
    <2>2. PhaseInv'
      BY <1>12 DEF ListenFails, ServerInv, PhaseInv
    <2>3. StmtInv'
      BY <1>12 DEF ListenFails, ServerInv, PhaseInv, StmtInv
    <2>4. DBInv'
      BY <1>12 DEF ListenFails, ServerInv, DBInv, PhaseInv
    <2>5. RequestInv'
      BY <1>12 DEF ListenFails, ServerInv, PhaseInv, StmtInv, RequestInv
    <2> QED BY <2>1, <2>2, <2>3, <2>4, <2>5 DEF ServerInv
  <1>13. CASE ListenClosed
    <2>1. LifecycleTypeOK'
      BY <1>13 DEF ListenClosed, ServerInv, LifecycleTypeOK
    <2>2. PhaseInv'
      BY <1>13 DEF ListenClosed, ServerInv, PhaseInv
    <2>3. StmtInv'
      BY <1>13 DEF ListenClosed, ServerInv, PhaseInv, StmtInv
    <2>4. DBInv'
      BY <1>13 DEF ListenClosed, ServerInv, DBInv, PhaseInv
    <2>5. RequestInv'
      BY <1>13 DEF ListenClosed, ServerInv, PhaseInv, StmtInv, RequestInv
    <2> QED BY <2>1, <2>2, <2>3, <2>4, <2>5 DEF ServerInv
  <1>14. CASE SelectServeErr
    <2>1. LifecycleTypeOK'
      BY <1>14 DEF SelectServeErr, ServerInv, LifecycleTypeOK
    <2>2. PhaseInv'
      BY <1>14 DEF SelectServeErr, ServerInv, PhaseInv
    <2>3. StmtInv'
      BY <1>14 DEF SelectServeErr, ServerInv, PhaseInv, StmtInv
    <2>4. DBInv'
      BY <1>14 DEF SelectServeErr, ServerInv, DBInv, PhaseInv
    <2>5. RequestInv'
      BY <1>14 DEF SelectServeErr, ServerInv, PhaseInv, StmtInv, RequestInv
    <2> QED BY <2>1, <2>2, <2>3, <2>4, <2>5 DEF ServerInv
  <1>15. CASE SelectSignal
    <2>1. LifecycleTypeOK'
      BY <1>15 DEF SelectSignal, ServerInv, LifecycleTypeOK
    <2>2. PhaseInv'
      BY <1>15 DEF SelectSignal, ServerInv, PhaseInv
    <2>3. StmtInv'
      BY <1>15 DEF SelectSignal, ServerInv, PhaseInv, StmtInv
    <2>4. DBInv'
      BY <1>15 DEF SelectSignal, ServerInv, DBInv, PhaseInv
    <2>5. RequestInv'
      BY <1>15 DEF SelectSignal, ServerInv, PhaseInv, StmtInv, RequestInv
    <2> QED BY <2>1, <2>2, <2>3, <2>4, <2>5 DEF ServerInv
  <1>16. CASE HTTPDrained
    <2>1. LifecycleTypeOK'
      BY <1>16 DEF HTTPDrained, ServerInv, LifecycleTypeOK
    <2>2. PhaseInv'
      BY <1>16 DEF HTTPDrained, ServerInv, PhaseInv
    <2>3. StmtInv'
      BY <1>16 DEF HTTPDrained, ServerInv, PhaseInv, StmtInv, Stmts
    <2>4. DBInv'
      BY <1>16 DEF HTTPDrained, ServerInv, DBInv, PhaseInv
    <2>5. RequestInv'
      BY <1>16 DEF HTTPDrained, ServerInv, PhaseInv, StmtInv, RequestInv
    <2> QED BY <2>1, <2>2, <2>3, <2>4, <2>5 DEF ServerInv
  <1>17. CASE GraceExpires
    <2>1. LifecycleTypeOK'
      BY <1>17 DEF GraceExpires, ServerInv, LifecycleTypeOK
    <2>2. PhaseInv'
      BY <1>17 DEF GraceExpires, ServerInv, PhaseInv
    <2>3. StmtInv'
      BY <1>17 DEF GraceExpires, ServerInv, PhaseInv, StmtInv
    <2>4. DBInv'
      BY <1>17 DEF GraceExpires, ServerInv, DBInv, PhaseInv
    <2>5. RequestInv'
      BY <1>17 DEF GraceExpires, ServerInv, PhaseInv, StmtInv, RequestInv
    <2> QED BY <2>1, <2>2, <2>3, <2>4, <2>5 DEF ServerInv
  <1>18. CASE CloseStmt
    <2>1. LifecycleTypeOK'
      BY <1>18 DEF CloseStmt, ServerInv, LifecycleTypeOK
    <2>2. PhaseInv'
      BY <1>18 DEF CloseStmt, ServerInv, PhaseInv
    <2>3. StmtInv'
      <3> DEFINE s == FirstStmt("open")
      <3>1. stmt["delete"] = "open" /\ stmt["get"] # "none" /\ stmt["set"] # "none"
        BY <1>18 DEF CloseStmt, ServerInv, StmtInv, Stmts
      <3>2. s \in Stmts /\ (s = "delete" => stmt["get"] # "open" /\ stmt["set"] # "open")
        BY <3>1, FirstStmtFacts
      <3>3. /\ stmt' = [stmt EXCEPT ![s] = "closed"] /\ cause' \in {cause, "close"}
            /\ main' = IF s # "delete" THEN "close"
                       ELSE IF cause' = "close" THEN "stop" ELSE "await"
        BY <1>18 DEF CloseStmt
      <3> HIDE DEF s
      <3> QED BY <1>18, <3>1, <3>2, <3>3
              DEF CloseStmt, ServerInv, LifecycleTypeOK, PhaseInv, StmtInv, Stmts
    <2>4. DBInv'
      BY <1>18 DEF CloseStmt, ServerInv, DBInv, PhaseInv
    <2>5. RequestInv'
      BY <1>18 DEF CloseStmt, ServerInv, PhaseInv, StmtInv, RequestInv
    <2> QED BY <2>1, <2>2, <2>3, <2>4, <2>5 DEF ServerInv
  <1>19. CASE AwaitServe
    <2>1. LifecycleTypeOK'
      BY <1>19 DEF AwaitServe, ServerInv, LifecycleTypeOK
    <2>2. PhaseInv'
      BY <1>19 DEF AwaitServe, ServerInv, PhaseInv
    <2>3. StmtInv'
      BY <1>19 DEF AwaitServe, ServerInv, PhaseInv, StmtInv
    <2>4. DBInv'
      BY <1>19 DEF AwaitServe, ServerInv, DBInv, PhaseInv
    <2>5. RequestInv'
      BY <1>19 DEF AwaitServe, ServerInv, PhaseInv, StmtInv, RequestInv
    <2> QED BY <2>1, <2>2, <2>3, <2>4, <2>5 DEF ServerInv
  <1>20. CASE Stop
    <2>1. LifecycleTypeOK'
      BY <1>20 DEF Stop, ServerInv, LifecycleTypeOK
    <2>2. PhaseInv'
      BY <1>20 DEF Stop, ServerInv, PhaseInv
    <2>3. StmtInv'
      BY <1>20 DEF Stop, ServerInv, PhaseInv, StmtInv
    <2>4. DBInv'
      BY <1>20 DEF Stop, ServerInv, DBInv, PhaseInv
    <2>5. RequestInv'
      BY <1>20 DEF Stop, ServerInv, PhaseInv, StmtInv, RequestInv
    <2> QED BY <2>1, <2>2, <2>3, <2>4, <2>5 DEF ServerInv
  <1>21. CASE DBClose
    <2>1. LifecycleTypeOK'
      BY <1>21 DEF DBClose, ServerInv, LifecycleTypeOK
    <2>2. PhaseInv'
      BY <1>21 DEF DBClose, ServerInv, PhaseInv
    <2>3. StmtInv'
      BY <1>21 DEF DBClose, ServerInv, PhaseInv, StmtInv
    <2>4. DBInv'
      BY <1>21 DEF DBClose, ServerInv, DBInv, PhaseInv
    <2>5. RequestInv'
      BY <1>21 DEF DBClose, ServerInv, PhaseInv, StmtInv, RequestInv
    <2> QED BY <2>1, <2>2, <2>3, <2>4, <2>5 DEF ServerInv
  <1>22. CASE Exit
    <2>1. LifecycleTypeOK'
      BY <1>22 DEF Exit, ServerInv, LifecycleTypeOK
    <2>2. PhaseInv'
      BY <1>22 DEF Exit, ServerInv, PhaseInv
    <2>3. StmtInv'
      BY <1>22 DEF Exit, ServerInv, PhaseInv, StmtInv
    <2>4. DBInv'
      BY <1>22 DEF Exit, ServerInv, DBInv, PhaseInv
    <2>5. RequestInv'
      BY <1>22 DEF Exit, ServerInv, PhaseInv, StmtInv, RequestInv
    <2> QED BY <2>1, <2>2, <2>3, <2>4, <2>5 DEF ServerInv
  <1>23. CASE Signal
    <2>1. LifecycleTypeOK'
      BY <1>23 DEF Signal, ServerInv, LifecycleTypeOK
    <2>2. PhaseInv'
      BY <1>23 DEF Signal, ServerInv, PhaseInv
    <2>3. StmtInv'
      BY <1>23 DEF Signal, ServerInv, PhaseInv, StmtInv
    <2>4. DBInv'
      BY <1>23 DEF Signal, ServerInv, DBInv, PhaseInv
    <2>5. RequestInv'
      BY <1>23 DEF Signal, ServerInv, PhaseInv, StmtInv, RequestInv
    <2> QED BY <2>1, <2>2, <2>3, <2>4, <2>5 DEF ServerInv
  <1>24. CASE SignalKills
    <2>1. LifecycleTypeOK'
      BY <1>24 DEF SignalKills, ServerInv, LifecycleTypeOK
    <2>2. PhaseInv'
      BY <1>24 DEF SignalKills, ServerInv, PhaseInv
    <2>3. StmtInv'
      BY <1>24 DEF SignalKills, ServerInv, PhaseInv, StmtInv
    <2>4. DBInv'
      BY <1>24 DEF SignalKills, ServerInv, DBInv, PhaseInv
    <2>5. RequestInv'
      BY <1>24 DEF SignalKills, ServerInv, PhaseInv, StmtInv, RequestInv
    <2> QED BY <2>1, <2>2, <2>3, <2>4, <2>5 DEF ServerInv
  <1> QED BY <1>1, <1>2, <1>3, <1>4, <1>5, <1>6, <1>7, <1>8, <1>9, <1>10, <1>11, <1>12, <1>13, <1>14, <1>15, <1>16, <1>17, <1>18, <1>19, <1>20, <1>21, <1>22, <1>23, <1>24
      DEF MainStep, ListenStep

\* A request's own step leaves the process alone.
LEMMA RequestKeepsProcess ==
    ASSUME ServerInv, NEW r \in Requests, RequestStep(r)
    PROVE  PhaseInv' /\ StmtInv' /\ DBInv'
  BY DEF RequestStep, setupVars, ServerInv, PhaseInv, StmtInv, DBInv, Excused

\* The steps of a handler, its workers and its client.
LEMMA RequestStepInv ==
    ASSUME ServerInv, NEW r \in Requests, HandlerStep(r) \/ Accept(r) \/ ClientGone(r)
    PROVE  ServerInv'
  <1> USE DEF RequestStep, setupVars, Excused, Active, WorkersLive, RunReturned
  <1>1. RequestStep(r)
    BY DEF HandlerStep, Accept, Decode, CallStart, CallEnd, BatchTimeout, ClientGone, Respond
  <1>2. PhaseInv' /\ StmtInv' /\ DBInv'
    BY <1>1, RequestKeepsProcess
  <1>3. CASE Accept(r)
    <2>1. LifecycleTypeOK'
      BY <1>3, MaxCallsAssumption DEF Accept, ServerInv, LifecycleTypeOK
    <2>2. RequestInv'
      BY <1>3 DEF Accept, ServerInv, LifecycleTypeOK, PhaseInv, StmtInv, DBInv, RequestInv, Serving
    <2> QED BY <1>2, <2>1, <2>2 DEF ServerInv
  <1>4. CASE Decode(r)
    <2>1. LifecycleTypeOK'
      BY <1>4, MaxCallsAssumption DEF Decode, ServerInv, LifecycleTypeOK
    <2>2. RequestInv'
      BY <1>4 DEF Decode, ServerInv, LifecycleTypeOK, PhaseInv, StmtInv, DBInv, RequestInv, Serving
    <2> QED BY <1>2, <2>1, <2>2 DEF ServerInv
  <1>5. CASE CallStart(r)
    <2>1. LifecycleTypeOK'
      <3>1. left' \in [Requests -> 0 .. MaxCalls]
        BY <1>5, MaxCallsAssumption DEF CallStart, ServerInv, LifecycleTypeOK
      <3>2. inCall' \in [Requests -> Stmts \cup {NoStmt}]
        BY <1>5 DEF CallStart, ServerInv, LifecycleTypeOK
      <3>3. closedErr' \in [Requests -> BOOLEAN]
        BY <1>5 DEF CallStart, ServerInv, LifecycleTypeOK
      <3> QED BY <1>5, <3>1, <3>2, <3>3 DEF CallStart, ServerInv, LifecycleTypeOK
    <2>2. RequestInv'
      BY <1>5 DEF CallStart, ServerInv, LifecycleTypeOK, PhaseInv, StmtInv, DBInv, RequestInv, Serving
    <2> QED BY <1>2, <2>1, <2>2 DEF ServerInv
  <1>6. CASE CallEnd(r)
    <2>1. LifecycleTypeOK'
      BY <1>6, MaxCallsAssumption DEF CallEnd, ServerInv, LifecycleTypeOK
    <2>2. RequestInv'
      BY <1>6 DEF CallEnd, ServerInv, LifecycleTypeOK, PhaseInv, StmtInv, DBInv, RequestInv, Serving
    <2> QED BY <1>2, <2>1, <2>2 DEF ServerInv
  <1>7. CASE BatchTimeout(r)
    <2>1. LifecycleTypeOK'
      BY <1>7, MaxCallsAssumption DEF BatchTimeout, ServerInv, LifecycleTypeOK
    <2>2. RequestInv'
      BY <1>7 DEF BatchTimeout, ServerInv, LifecycleTypeOK, PhaseInv, StmtInv, DBInv, RequestInv, Serving
    <2> QED BY <1>2, <2>1, <2>2 DEF ServerInv
  <1>8. CASE ClientGone(r)
    <2>1. LifecycleTypeOK'
      BY <1>8, MaxCallsAssumption DEF ClientGone, ServerInv, LifecycleTypeOK
    <2>2. RequestInv'
      BY <1>8 DEF ClientGone, ServerInv, LifecycleTypeOK, PhaseInv, StmtInv, DBInv, RequestInv, Serving
    <2> QED BY <1>2, <2>1, <2>2 DEF ServerInv
  <1>9. CASE Respond(r)
    <2>1. LifecycleTypeOK'
      BY <1>9, MaxCallsAssumption DEF Respond, ServerInv, LifecycleTypeOK
    <2>2. RequestInv'
      BY <1>9 DEF Respond, ServerInv, LifecycleTypeOK, PhaseInv, StmtInv, DBInv, RequestInv, Serving
    <2> QED BY <1>2, <2>1, <2>2 DEF ServerInv
  <1> QED BY <1>3, <1>4, <1>5, <1>6, <1>7, <1>8, <1>9 DEF HandlerStep

\* The process starts with nothing open and no request.
LEMMA ServerInitInv == ServerInit => ServerInv
  <1> SUFFICES ASSUME ServerInit PROVE ServerInv
    OBVIOUS
  <1>1. 0 \in 0 .. MaxCalls
    BY MaxCallsAssumption
  <1>4. LifecycleTypeOK
    BY <1>1, Zenon DEF ServerInit, LifecycleTypeOK, NoStmt
  <1>2. PhaseInv /\ StmtInv /\ DBInv
    BY DEF ServerInit, PhaseInv, StmtInv, DBInv, Starting, Serving, Returning
  <1>3. RequestInv
    BY DEF ServerInit, RequestInv, Active, WorkersLive, RunReturned
  <1> QED BY <1>2, <1>3, <1>4 DEF ServerInv

\* The variables of the server are all that its invariant is about.
LEMMA ServerStutterInv == ASSUME ServerInv, UNCHANGED serverVars PROVE ServerInv'
  BY DEF serverVars, setupVars, requestVars, ServerInv, LifecycleTypeOK, PhaseInv, StmtInv, DBInv,
         RequestInv, Excused, Active, WorkersLive, RunReturned

\* An answer is final.
LEMMA AnswersStay ==
    ASSUME ServerInv, DeploymentNext
    PROVE  \A r \in Requests : h[r] = "200" => h'[r] = "200"
  <1> USE DEF ServerInv, LifecycleTypeOK
  <1>1. CASE UNCHANGED h
    BY <1>1
  <1>2. CASE \E r \in Requests : HandlerStep(r) \/ Accept(r) \/ ClientGone(r)
    <2>1. PICK r \in Requests : HandlerStep(r) \/ Accept(r) \/ ClientGone(r)
      BY <1>2
    <2>2. CASE Accept(r)
      BY <2>2 DEF Accept
    <2>3. CASE Decode(r)
      BY <2>3 DEF Decode
    <2>4. CASE Respond(r)
      BY <2>4 DEF Respond
    <2>5. CASE CallStart(r) \/ CallEnd(r) \/ BatchTimeout(r) \/ ClientGone(r)
      BY <2>5 DEF CallStart, CallEnd, BatchTimeout, ClientGone
    <2> QED BY <2>1, <2>2, <2>3, <2>4, <2>5 DEF HandlerStep
  <1>3. CASE MainStep \/ DeadlinePasses \/ ListenStep \/ Signal \/ SignalKills
    <2>1. UNCHANGED requestVars
      BY <1>3 DEF MainStep, ListenStep, LoadConfig, Open, Ping, Tick, GiveUp, DeadlinePasses,
           PrepareStart, PrepareOk, PrepareFails, Run, Listen, ListenFails, ListenClosed,
           SelectServeErr, SelectSignal, HTTPDrained, GraceExpires, CloseStmt, AwaitServe, Stop,
           DBClose, Exit, Signal, SignalKills
    <2> QED BY <2>1 DEF requestVars
  <1>4. UNCHANGED serverVars => UNCHANGED h
    BY DEF serverVars, requestVars
  <1> QED
    BY <1>1, <1>2, <1>3, <1>4, ClientsAssumption
    DEF DeploymentNext, ServerStep, Connect, ClientStep, ConnectionLost, ClientTimeout, Answered,
        Disconnect, DeploymentDone, deploymentVars

-----------------------------------------------------------------------------
\* There are finitely many clients, so they can be counted.
LEMMA CountFacts ==
    /\ Cardinality(Clients) \in Nat
    /\ IsFiniteSet(Done) /\ Cardinality(Done) \in Nat
    /\ IsFiniteSet(Sound) /\ Cardinality(Sound) \in Nat
  <1>1. Done \in SUBSET Clients /\ Sound \in SUBSET Clients
    BY DEF Done, Sound
  <1>2. IsFiniteSet(Done) /\ IsFiniteSet(Sound)
    BY <1>1, FS_Subset, ConcurrencyAssumption
  <1> QED BY <1>2, FS_CardinalityType, ConcurrencyAssumption

\* A client is done once.
LEMMA DoneOnce ==
    ASSUME SimTypeOK, NEW c \in Clients, client[c] # "done",
           client' = [client EXCEPT ![c] = "done"]
    PROVE  Cardinality(Done') = Cardinality(Done) + 1
  <1>1. c \notin Done /\ Done' = Done \cup {c}
    BY DEF SimTypeOK, Done
  <1> QED BY <1>1, FS_AddElement, CountFacts

\* The clients answered with 200 stay so, and one that is answered with 200 now
\* is a new one.
LEMMA SoundGrows ==
    ASSUME SimTypeOK, \A r \in Requests : h[r] = "200" => h'[r] = "200",
           \A c \in Clients : client[c] = "done" => client'[c] = "done"
    PROVE  /\ Sound \subseteq Sound' /\ IsFiniteSet(Sound')
           /\ Cardinality(Sound) <= Cardinality(Sound') /\ Cardinality(Sound') \in Nat
           /\ (\E c \in Sound' : c \notin Sound) => Cardinality(Sound) + 1 <= Cardinality(Sound')
  <1>1. Sound \subseteq Sound'
    BY ClientsAssumption DEF Sound, Done
  <1>2. Sound' \in SUBSET Clients
    BY DEF Sound, Done
  <1>3. IsFiniteSet(Sound') /\ Cardinality(Sound') \in Nat
    BY <1>2, FS_Subset, FS_CardinalityType, ConcurrencyAssumption
  <1>4. Cardinality(Sound) <= Cardinality(Sound')
    BY <1>1, <1>3, FS_Subset
  <1>5. ASSUME NEW c \in Sound', c \notin Sound
        PROVE  Cardinality(Sound) + 1 <= Cardinality(Sound')
    <2>1. Cardinality(Sound \cup {c}) = Cardinality(Sound) + 1
      BY <1>5, FS_AddElement, CountFacts
    <2>2. Sound \cup {c} \in SUBSET Sound'
      BY <1>1, <1>5
    <2>3. Cardinality(Sound \cup {c}) <= Cardinality(Sound')
      BY <1>3, <2>2, FS_Subset
    <2> QED BY <2>1, <2>3
  <1> QED BY <1>1, <1>3, <1>4, <1>5

\* recordStatus adds the answer to its class, its code and the samples.
LEMMA RecordFacts ==
    ASSUME NEW m \in Metrics, NEW code \in Status
    PROVE  LET n == recordStatus(m, code) IN
           /\ n \in Metrics
           /\ n.requestsSent = m.requestsSent /\ n.timeout = m.timeout
           /\ n.networkErr = m.networkErr /\ n.latencies = m.latencies + 1
           /\ n.success + n.serverError + n.clientError
                = m.success + m.serverError + m.clientError + 1
           /\ n.success = IF code = "200" THEN m.success + 1 ELSE m.success
           /\ n.statusCodes["200"] = IF code = "200" THEN m.statusCodes["200"] + 1
                                     ELSE m.statusCodes["200"]
  <1> DEFINE n == recordStatus(m, code)
             codes == [m.statusCodes EXCEPT ![code] = @ + 1]
             succ == IF code = "200" THEN m.success + 1 ELSE m.success
             serr == IF code \in {"500", "504"} THEN m.serverError + 1 ELSE m.serverError
             cerr == IF code = "400" THEN m.clientError + 1 ELSE m.clientError
  <1>1. n = [m EXCEPT !.statusCodes = codes, !.latencies = @ + 1, !.success = succ,
                      !.serverError = serr, !.clientError = cerr]
    BY DEF recordStatus, Metrics
  <1>2. m.statusCodes \in [Status -> Nat] /\ "200" \in Status
    BY DEF Metrics, Status
  <1>3. /\ codes \in [Status -> Nat]
        /\ codes["200"] = IF code = "200" THEN m.statusCodes["200"] + 1 ELSE m.statusCodes["200"]
    BY <1>2
  <1>5. succ \in Nat /\ serr \in Nat /\ cerr \in Nat
    BY DEF Metrics
  <1> HIDE DEF n, codes, succ, serr, cerr
  <1> DEFINE m1 == [m EXCEPT !.statusCodes = codes]
             m2 == [m1 EXCEPT !.latencies = m.latencies + 1]
             m3 == [m2 EXCEPT !.success = succ]
             m4 == [m3 EXCEPT !.serverError = serr]
             m5 == [m4 EXCEPT !.clientError = cerr]
  <1>4. n \in Metrics /\ n.statusCodes = codes
    <2>1. m1 \in Metrics /\ m1.statusCodes = codes
      BY <1>3 DEF Metrics
    <2>2. m2 \in Metrics /\ m2.statusCodes = m1.statusCodes
      <3>1. m.latencies + 1 \in Nat
        BY DEF Metrics
      <3> HIDE DEF m1
      <3> QED BY <2>1, <3>1 DEF Metrics
    <2>3. m3 \in Metrics /\ m3.statusCodes = m2.statusCodes
      <3> HIDE DEF m2
      <3> QED BY <1>5, <2>2 DEF Metrics
    <2>4. m4 \in Metrics /\ m4.statusCodes = m3.statusCodes
      <3> HIDE DEF m3
      <3> QED BY <1>5, <2>3 DEF Metrics
    <2>5. m5 \in Metrics /\ m5.statusCodes = m4.statusCodes
      <3> HIDE DEF m4
      <3> QED BY <1>5, <2>4 DEF Metrics
    <2>6. n = m5
      BY <1>1
    <2> HIDE DEF m1, m2, m3, m4, m5
    <2> QED BY <2>1, <2>2, <2>3, <2>4, <2>5, <2>6
  <1>6. code \in {"200", "400", "500", "504"}
    BY DEF Status
  <1>7. /\ n.requestsSent = m.requestsSent /\ n.timeout = m.timeout
        /\ n.networkErr = m.networkErr /\ n.latencies = m.latencies + 1
        /\ n.success = succ /\ n.serverError = serr /\ n.clientError = cerr
    BY <1>1 DEF Metrics
  <1>8. n.success + n.serverError + n.clientError = m.success + m.serverError + m.clientError + 1
    BY <1>6, <1>7 DEF Metrics, succ, serr, cerr
  <1> QED BY <1>3, <1>4, <1>7, <1>8 DEF n, succ

\* Each way in which a client ends accounts for one more client.
LEMMA UnsentAccounts ==
    ASSUME metrics \in Metrics, NEW n \in Nat, Accounts(metrics, n), NEW c \in Clients,
           ClientUnsent(c)
    PROVE  metrics' \in Metrics /\ Accounts(metrics', n + 1) /\ metrics'.success = metrics.success
  BY DEF ClientUnsent, Metrics, Accounts

\* A client that fails without an answer is counted once, in its class.
LEMMA ErrorAccounts ==
    ASSUME metrics \in Metrics, NEW n \in Nat, Accounts(metrics, n), NEW c \in Clients,
           NEW timedOut \in BOOLEAN, ClientError(c, timedOut)
    PROVE  metrics' \in Metrics /\ Accounts(metrics', n + 1) /\ metrics'.success = metrics.success
  <1> DEFINE m1 == [metrics EXCEPT !.requestsSent = metrics.requestsSent + 1]
  <1>1. m1 \in Metrics /\ m1.requestsSent = metrics.requestsSent + 1
    BY DEF Metrics
  <1>2. /\ m1.success = metrics.success /\ m1.serverError = metrics.serverError
        /\ m1.clientError = metrics.clientError /\ m1.timeout = metrics.timeout
        /\ m1.networkErr = metrics.networkErr /\ m1.latencies = metrics.latencies
        /\ m1.statusCodes = metrics.statusCodes
    BY DEF Metrics
  <1>3. CASE timedOut = TRUE
    <2>1. metrics' = [m1 EXCEPT !.timeout = m1.timeout + 1, !.networkErr = m1.networkErr]
      BY <1>2, <1>3 DEF ClientError
    <2> HIDE DEF m1
    <2> DEFINE m2 == [m1 EXCEPT !.timeout = m1.timeout + 1]
    <2>2. metrics' \in Metrics
      <3>1. m2 \in Metrics
        BY <1>1 DEF Metrics
      <3>2. m1.networkErr \in Nat
        BY <1>1 DEF Metrics
      <3>3. metrics' = [m2 EXCEPT !.networkErr = m1.networkErr]
        BY <2>1
      <3> HIDE DEF m2
      <3> QED BY <3>1, <3>2, <3>3 DEF Metrics
    <2> QED BY <1>1, <1>2, <2>1, <2>2 DEF Metrics, Accounts
  <1>4. CASE timedOut = FALSE
    <2>1. metrics' = [m1 EXCEPT !.timeout = m1.timeout, !.networkErr = m1.networkErr + 1]
      BY <1>2, <1>4 DEF ClientError
    <2> HIDE DEF m1
    <2> DEFINE m2 == [m1 EXCEPT !.timeout = m1.timeout]
    <2>2. metrics' \in Metrics
      <3>1. m2 \in Metrics
        BY <1>1 DEF Metrics
      <3>2. m1.networkErr + 1 \in Nat
        BY <1>1 DEF Metrics
      <3>3. metrics' = [m2 EXCEPT !.networkErr = m1.networkErr + 1]
        BY <2>1
      <3> HIDE DEF m2
      <3> QED BY <3>1, <3>2, <3>3 DEF Metrics
    <2> QED BY <1>1, <1>2, <2>1, <2>2 DEF Metrics, Accounts
  <1> QED BY <1>3, <1>4

\* A client that gets an answer is counted once, in the class of its status.
LEMMA ResponseAccounts ==
    ASSUME metrics \in Metrics, NEW n \in Nat, Accounts(metrics, n), NEW c \in Clients,
           NEW code \in Status, ClientResponse(c, code)
    PROVE  /\ metrics' \in Metrics /\ Accounts(metrics', n + 1)
           /\ metrics'.success = IF code = "200" THEN metrics.success + 1 ELSE metrics.success
  <1> DEFINE m1 == [metrics EXCEPT !.requestsSent = metrics.requestsSent + 1]
  <1>1. m1 \in Metrics /\ m1.requestsSent = metrics.requestsSent + 1
    BY DEF Metrics
  <1>2. /\ m1.success = metrics.success /\ m1.serverError = metrics.serverError
        /\ m1.clientError = metrics.clientError /\ m1.timeout = metrics.timeout
        /\ m1.networkErr = metrics.networkErr /\ m1.latencies = metrics.latencies
        /\ m1.statusCodes = metrics.statusCodes
    BY DEF Metrics
  <1>3. metrics' = recordStatus(m1, code)
    BY DEF ClientResponse
  <1> HIDE DEF m1
  <1> DEFINE n1 == recordStatus(m1, code)
  <1>4. /\ n1 \in Metrics
        /\ n1.requestsSent = m1.requestsSent /\ n1.timeout = m1.timeout
        /\ n1.networkErr = m1.networkErr /\ n1.latencies = m1.latencies + 1
        /\ n1.success + n1.serverError + n1.clientError
             = m1.success + m1.serverError + m1.clientError + 1
        /\ n1.success = IF code = "200" THEN m1.success + 1 ELSE m1.success
        /\ n1.statusCodes["200"] = IF code = "200" THEN m1.statusCodes["200"] + 1
                                   ELSE m1.statusCodes["200"]
    BY <1>1, RecordFacts
  <1> HIDE DEF n1
  <1>5. Accounts(n1, n + 1)
    BY <1>1, <1>2, <1>4 DEF Metrics, Accounts
  <1> QED BY <1>2, <1>3, <1>4, <1>5 DEF n1

\* The simulator starts with all counters at zero and no client done.
LEMMA SimInitInv == SimInit => SimInv
  <1> SUFFICES ASSUME SimInit PROVE SimInv
    OBVIOUS
  <1>1. metrics \in Metrics
    BY DEF SimInit, Metrics, newMetrics
  <1>2. SimTypeOK /\ ReportInv
    BY <1>1 DEF SimInit, SimTypeOK, ReportInv, NoReport
  <1>3. Done = {} /\ Sound = {}
    BY DEF SimInit, Done, Sound
  <1>4. Accounts(metrics, 0) /\ metrics.success = 0
    BY DEF SimInit, newMetrics, Accounts, Status
  <1>5. ClassesInv /\ SuccessInv
    BY <1>3, <1>4, FS_EmptySet DEF ClassesInv, SuccessInv
  <1> QED BY <1>1, <1>2, <1>5 DEF SimInv

\* One more client is done, and one more is accounted for.
LEMMA ClientEndsInv ==
    ASSUME SimInv, NEW c \in Clients, client[c] # "done",
           client' = [client EXCEPT ![c] = "done"], UNCHANGED <<urlOk, report>>,
           \A r \in Requests : h[r] = "200" => h'[r] = "200",
           metrics' \in Metrics, Accounts(metrics', Cardinality(Done) + 1),
           \/ metrics'.success = metrics.success
           \/ metrics'.success = metrics.success + 1 /\ h'[c] = "200"
    PROVE  SimInv'
  <1>1. SimTypeOK'
    BY DEF SimInv, SimTypeOK
  <1>2. ClassesInv'
    BY DoneOnce DEF SimInv, ClassesInv
  <1>3. SuccessInv'
    <2>1. \A d \in Clients : client[d] = "done" => client'[d] = "done"
      BY DEF SimInv, SimTypeOK
    <2>2. /\ Cardinality(Sound) <= Cardinality(Sound') /\ Cardinality(Sound') \in Nat
          /\ (\E d \in Sound' : d \notin Sound) => Cardinality(Sound) + 1 <= Cardinality(Sound')
      BY <2>1, SoundGrows DEF SimInv
    <2>3. h'[c] = "200" => c \in Sound' /\ c \notin Sound
      BY DEF SimInv, SimTypeOK, Sound, Done
    <2>4. metrics.success \in Nat /\ metrics'.success \in Nat /\ metrics.success <= Cardinality(Sound)
      BY DEF SimInv, SimTypeOK, SuccessInv, Metrics
    <2> QED BY <2>2, <2>3, <2>4, CountFacts DEF SuccessInv
  <1>4. ReportInv'
    <2>1. Done # Clients
      BY DEF Done
    <2> QED BY <2>1 DEF SimInv, ReportInv
  <1> QED BY <1>1, <1>2, <1>3, <1>4 DEF SimInv

\* Nothing is counted: the clients that are done stay the same, and an answer
\* that comes too late for its client does no harm.
LEMMA NothingCountedInv ==
    ASSUME SimInv, SimTypeOK', UNCHANGED <<metrics, report>>, Done' = Done,
           \A r \in Requests : h[r] = "200" => h'[r] = "200"
    PROVE  SimInv'
  <1>1. SuccessInv'
    <2>1. \A d \in Clients : client[d] = "done" => client'[d] = "done"
      BY DEF Done
    <2>2. Cardinality(Sound) <= Cardinality(Sound') /\ Cardinality(Sound') \in Nat
      BY <2>1, SoundGrows DEF SimInv
    <2> QED BY <2>2, CountFacts DEF SimInv, SimTypeOK, SuccessInv, Metrics
  <1>2. ReportInv'
    BY DEF SimInv, ReportInv, ReportLine
  <1> QED BY <1>1, <1>2 DEF SimInv, ClassesInv

\* No step of the process or of a client breaks the simulator's accounts.
LEMMA SimStepInv == ASSUME ServerInv, SimInv, DeploymentNext PROVE SimInv'
  <1>1. \A r \in Requests : h[r] = "200" => h'[r] = "200"
    BY AnswersStay
  <1>2. Cardinality(Done) \in Nat /\ Accounts(metrics, Cardinality(Done)) /\ metrics \in Metrics
    BY CountFacts DEF SimInv, SimTypeOK, ClassesInv
  <1>3. CASE UNCHANGED simVars
    <2>1. SimTypeOK' /\ UNCHANGED <<metrics, report>> /\ Done' = Done
      BY <1>3 DEF simVars, SimInv, SimTypeOK, Done
    <2> QED BY <1>1, <2>1, NothingCountedInv
  <1>4. ASSUME NEW c \in Clients, ClientSend(c) PROVE SimInv'
    <2>1. SimTypeOK' /\ UNCHANGED <<metrics, report>> /\ Done' = Done
      BY <1>4 DEF ClientSend, SimInv, SimTypeOK, Done
    <2> QED BY <1>1, <2>1, NothingCountedInv
  <1>5. ASSUME NEW c \in Clients, ClientUnsent(c) PROVE SimInv'
    <2>1. /\ client[c] # "done" /\ client' = [client EXCEPT ![c] = "done"]
          /\ UNCHANGED <<urlOk, report>>
      BY <1>5 DEF ClientUnsent
    <2>2. /\ metrics' \in Metrics /\ Accounts(metrics', Cardinality(Done) + 1)
          /\ metrics'.success = metrics.success
      BY <1>2, <1>5, UnsentAccounts
    <2> QED BY <1>1, <2>1, <2>2, ClientEndsInv
  <1>6. ASSUME NEW c \in Clients, NEW timedOut \in BOOLEAN, ClientError(c, timedOut) PROVE SimInv'
    <2>1. /\ client[c] # "done" /\ client' = [client EXCEPT ![c] = "done"]
          /\ UNCHANGED <<urlOk, report>>
      BY <1>6 DEF ClientError
    <2>2. /\ metrics' \in Metrics /\ Accounts(metrics', Cardinality(Done) + 1)
          /\ metrics'.success = metrics.success
      BY <1>2, <1>6, ErrorAccounts
    <2> QED BY <1>1, <2>1, <2>2, ClientEndsInv
  <1>7. ASSUME NEW c \in Clients, Answered(c) PROVE SimInv'
    <2>1. /\ h[c] \in Status /\ ClientResponse(c, h[c]) /\ h' = h
      BY <1>7 DEF Answered, serverVars, requestVars
    <2>2. /\ client[c] # "done" /\ client' = [client EXCEPT ![c] = "done"]
          /\ UNCHANGED <<urlOk, report>>
      BY <2>1 DEF ClientResponse
    <2>3. /\ metrics' \in Metrics /\ Accounts(metrics', Cardinality(Done) + 1)
          /\ metrics'.success = IF h[c] = "200" THEN metrics.success + 1 ELSE metrics.success
      BY <1>2, <2>1, ResponseAccounts
    <2>4. \/ metrics'.success = metrics.success
          \/ metrics'.success = metrics.success + 1 /\ h'[c] = "200"
      BY <2>1, <2>3
    <2> QED BY <1>1, <2>2, <2>3, <2>4, ClientEndsInv
  <1>8. CASE Report /\ UNCHANGED serverVars
    <2>1. SimTypeOK' /\ UNCHANGED metrics /\ Done' = Done /\ Done = Clients /\ Sound' = Sound
      BY <1>8 DEF Report, SimInv, SimTypeOK, Done, Sound, ReportLine, serverVars, requestVars
    <2>2. ReportInv'
      BY <1>8, <2>1 DEF Report, ReportInv, ReportLine
    <2> QED BY <2>1, <2>2 DEF SimInv, ClassesInv, SuccessInv
  <1>9. UNCHANGED deploymentVars => UNCHANGED simVars
    BY DEF deploymentVars
  <1> QED
    BY <1>3, <1>4, <1>5, <1>6, <1>7, <1>8, <1>9
    DEF DeploymentNext, Connect, ClientStep, ConnectionLost, ClientTimeout, Disconnect, DeploymentDone

-----------------------------------------------------------------------------
\* No step of the process or of a client breaks the server's invariant.
LEMMA ServerStepInv == ASSUME ServerInv, DeploymentNext PROVE ServerInv'
  <1>1. CASE ServerStep
    BY <1>1, ProcessStepInv, RequestStepInv DEF ServerStep
  <1>2. CASE \E c \in Clients : Connect(c) \/ Disconnect(c)
    BY <1>2, RequestStepInv, ClientsAssumption DEF Connect, Disconnect
  <1>3. CASE UNCHANGED serverVars
    BY <1>3, ServerStutterInv
  <1>4. UNCHANGED deploymentVars => UNCHANGED serverVars
    BY DEF deploymentVars
  <1> QED
    BY <1>1, <1>2, <1>3, <1>4
    DEF DeploymentNext, ClientStep, ConnectionLost, ClientTimeout, Answered, DeploymentDone

\* The two invariants together are inductive.
LEMMA DeploymentNextInv == DeploymentInv /\ [DeploymentNext]_deploymentVars => DeploymentInv'
  <1> SUFFICES ASSUME DeploymentInv, [DeploymentNext]_deploymentVars PROVE DeploymentInv'
    OBVIOUS
  <1>1. CASE DeploymentNext
    BY <1>1, ServerStepInv, SimStepInv DEF DeploymentInv
  <1>2. CASE UNCHANGED deploymentVars
    <2>1. UNCHANGED serverVars /\ UNCHANGED simVars
      BY <1>2 DEF deploymentVars
    <2>2. ServerInv'
      BY <2>1, ServerStutterInv DEF DeploymentInv
    <2>3. SimTypeOK' /\ UNCHANGED <<metrics, report>> /\ Done' = Done /\ UNCHANGED h
      BY <2>1 DEF DeploymentInv, SimInv, SimTypeOK, simVars, Done, serverVars, requestVars
    <2>4. SimInv'
      BY <2>3, NothingCountedInv DEF DeploymentInv
    <2> QED BY <2>2, <2>4 DEF DeploymentInv
  <1> QED BY <1>1, <1>2

\* What run(), its handlers and the simulator's clients keep true together
\* (api/main.go, server.go, cmd/simulator/main.go).
THEOREM DeploymentInvariant == DeploymentSpec => []DeploymentInv
  <1>1. DeploymentInit => DeploymentInv
    BY ServerInitInv, SimInitInv DEF DeploymentInit, DeploymentInv
  <1> QED BY <1>1, DeploymentNextInv, PTL DEF DeploymentSpec

\* The variables keep their types: no counter of the simulator is lost or
\* falls below zero, whatever the clients meet (recordStatus, runClient), and
\* run() and the handlers stay in their phases.
THEOREM DeploymentTypeCorrect == DeploymentSpec => []DeploymentTypeOK
  <1>1. DeploymentInv => DeploymentTypeOK
    BY DEF DeploymentInv, ServerInv, SimInv, DeploymentTypeOK
  <1> QED BY <1>1, DeploymentInvariant, PTL

\* Exit status 0 of the API process is a clean end, and a statement left open
\* has its two excuses (run and Shutdown, Close of postgres_storage.go).
THEOREM CleanExitHolds == DeploymentSpec => []CleanExit
  <1>1. DeploymentInv => CleanExit
    <2> SUFFICES ASSUME ServerInv PROVE CleanExit
      BY DEF DeploymentInv
    <2>1. ASSUME exit = "0" PROVE \A s \in Stmts : stmt[s] = "closed"
      BY <2>1 DEF ServerInv, PhaseInv, StmtInv
    <2>2. ASSUME exit = "0", NEW r \in Requests PROVE ~Active(r) /\ inCall[r] = NoStmt
      BY <2>1, <2>2 DEF ServerInv, LifecycleTypeOK, PhaseInv, RequestInv, Serving, Excused
    <2>3. exit = "0" => ~dbOpen
      BY DEF ServerInv, DBInv
    <2>4. exit \in {"0", "1"} /\ (\E s \in Stmts : stmt[s] = "open") => Excused
      BY DEF ServerInv, PhaseInv, StmtInv
    <2> QED BY <2>1, <2>2, <2>3, <2>4 DEF CleanExit, Excused
  <1> QED BY <1>1, DeploymentInvariant, PTL

\* A batch is not answered with 200 after it met what Shutdown closed (Run and
\* Shutdown of server.go), but for the two excuses.
THEOREM AnswersUntouchedHolds == DeploymentSpec => []AnswersUntouched
  <1>1. DeploymentInv => AnswersUntouched
    BY DEF DeploymentInv, ServerInv, RequestInv, AnswersUntouched, Excused
  <1> QED BY <1>1, DeploymentInvariant, PTL

\* The simulator's report accounts for each client once (printReport, exit
\* status of cmd/simulator/main.go).
THEOREM ReportAccountsHolds == DeploymentSpec => []ReportAccounts
  <1>1. DeploymentInv => ReportAccounts
    <2> SUFFICES ASSUME SimInv, report # NoReport PROVE ReportAccounts
      BY DEF DeploymentInv, ReportAccounts
    <2>1. /\ Done = Clients
          /\ report = [line |-> ReportLine(metrics),
                       exit |-> IF metrics.success = concurrency THEN "0" ELSE "1"]
      BY DEF SimInv, ReportInv
    <2>2. Accounts(metrics, concurrency) /\ metrics \in Metrics
      BY <2>1 DEF SimInv, SimTypeOK, ClassesInv, concurrency
    <2>3. concurrency \in Nat
      BY CountFacts DEF concurrency
    <2>4. metrics.success = concurrency =>
            metrics.serverError = 0 /\ metrics.timeout = 0 /\ metrics.networkErr = 0
      BY <2>2, <2>3 DEF Accounts, Metrics
    <2>5. report.line = "clean" <=> report.exit = "0"
      BY <2>1, <2>2, <2>4 DEF ReportLine, Metrics
    <2> QED BY <2>2, <2>5 DEF ReportAccounts, Accounts
  <1> QED BY <1>1, DeploymentInvariant, PTL

\* Exit status 0 of the simulator means that the server answered every client's
\* request with 200 and is done with it.
THEOREM GateIsSoundHolds == DeploymentSpec => []GateIsSound
  <1>1. DeploymentInv => GateIsSound
    <2> SUFFICES ASSUME ServerInv, SimInv, report.exit = "0", NEW c \in Clients
                 PROVE  /\ h[c] = "200"
                        /\ left[c] = 0 /\ inCall[c] = NoStmt
                        /\ closedErr[c] => cause \in {"forced", "serve"}
      BY DEF DeploymentInv, GateIsSound
    <2>1. report # NoReport
      BY DEF NoReport
    <2>2. metrics.success = Cardinality(Clients)
      BY <2>1 DEF SimInv, ReportInv, concurrency
    <2>3. Sound \in SUBSET Clients /\ metrics.success <= Cardinality(Sound)
      BY DEF Sound, Done, SimInv, SuccessInv
    <2>4. Cardinality(Sound) <= Cardinality(Clients) /\ (Cardinality(Clients) = Cardinality(Sound) => Clients = Sound)
      BY <2>3, FS_Subset, ConcurrencyAssumption
    <2>5. Clients = Sound
      BY <2>2, <2>3, <2>4, CountFacts
    <2>6. h[c] = "200"
      BY <2>5 DEF Sound
    <2> QED BY <2>6, ClientsAssumption DEF ServerInv, RequestInv, WorkersLive, RunReturned, Excused
  <1> QED BY <1>1, DeploymentInvariant, PTL
=============================================================================
