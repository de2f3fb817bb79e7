-------------------------- MODULE ServerLifecycle ---------------------------
(***************************************************************************)
(* The API process from main to its exit: run and waitForDB (api/main.go), *)
(* NewPostgresStorageEngine and Close (postgres_storage.go), Run and       *)
(* Shutdown (server.go), together with what is alive meanwhile: the        *)
(* goroutine in ListenAndServe, the handlers, and the workers of batches   *)
(* whose handler has already answered.  The batch of a request is reduced  *)
(* to what shutting down can disturb: its storage calls, MaxCalls at most, *)
(* one at a time and each through one of the three prepared statements.    *)
(*                                                                         *)
(* net/http and database/sql are external.  http.Server.Shutdown closes    *)
(* the listener and waits for the handlers or for its context; Stmt.Close  *)
(* waits for the calls inside the statement and makes later ones fail;     *)
(* DB.Close makes later calls fail and waits for nothing.                  *)
(***************************************************************************)
EXTENDS Naturals, Sequences, FiniteSets, FiniteSetsExt

CONSTANTS
    Requests,
    MaxCalls   \* bound: operations of one batch

ASSUME MaxCallsAssumption == MaxCalls \in Nat

\* In the order in which they are prepared and closed.
StmtOrder == <<"get", "set", "delete">>
Stmts == {"get", "set", "delete"}
NoStmt == "none"

VARIABLES
    main,       \* where run() is
    signalled,  \* the context of NotifyContext is done
    expired,    \* waitForDB is waiting and its deadline has passed
    stmt,       \* the prepared statements: none, open, closed
    dbOpen,     \* the *sql.DB accepts calls
    serve,      \* ListenAndServe: off, starting, listening, or what it returned
    inShutdown, \* http.Server.Shutdown has been called
    cause,      \* the error run() returns: none, startup, serve, forced, close
    exit,       \* exit status of the process: none while it lives
    h,          \* the handler of each request, or what it answered
    ctx,        \* the batch context: live, deadline, cancelled
    left,       \* operations of the batch not yet executed
    inCall,     \* the statement a worker of the batch is inside, or NoStmt
    closedErr   \* an item of the batch failed on a closed statement or database

setupVars == <<expired, stmt, dbOpen>>
requestVars == <<h, ctx, left, inCall, closedErr>>
serverVars == <<main, signalled, setupVars, serve, inShutdown, cause, exit, requestVars>>

LifecycleTypeOK ==
    /\ main \in {"config", "open", "ping", "tick", "prepare", "preparing", "start", "serve",
                 "shutdown", "close", "await", "stop", "dbclose", "exit", "exited"}
    /\ {signalled, expired, dbOpen, inShutdown} \subseteq BOOLEAN
    /\ stmt \in [Stmts -> {"none", "open", "closed"}]
    /\ serve \in {"off", "starting", "listening", "failed", "closed"}
    /\ cause \in {"none", "startup", "serve", "forced", "close"}
    /\ exit \in {"none", "0", "1", "killed"}
    /\ h \in [Requests -> {"none", "decode", "running", "200", "400", "500", "504", "gone"}]
    /\ ctx \in [Requests -> {"live", "deadline", "cancelled"}]
    /\ left \in [Requests -> 0 .. MaxCalls]
    /\ inCall \in [Requests -> Stmts \cup {NoStmt}]
    /\ closedErr \in [Requests -> BOOLEAN]

ServerInit ==
    /\ main = "config"
    /\ signalled = FALSE /\ expired = FALSE /\ dbOpen = FALSE /\ inShutdown = FALSE
    /\ stmt = [s \in Stmts |-> "none"]
    /\ serve = "off"
    /\ cause = "none"
    /\ exit = "none"
    /\ h = [r \in Requests |-> "none"]
    /\ ctx = [r \in Requests |-> "live"]
    /\ left = [r \in Requests |-> 0]
    /\ inCall = [r \in Requests |-> NoStmt]
    /\ closedErr = [r \in Requests |-> FALSE]

\* run() goes on at l, or returns an error with its deferred calls from l on.
Go(l) == main' = l /\ UNCHANGED cause
FailTo(l, why) == main' = l /\ cause' = why

\* The first statement, in order, that is in state st.
FirstStmt(st) == StmtOrder[Min({i \in 1 .. 3 : stmt[StmtOrder[i]] = st})]

-----------------------------------------------------------------------------
\* loadConfig: the password is required.
LoadConfig ==
    /\ main = "config"
    /\ Go("open") \/ FailTo("exit", "startup")
    /\ UNCHANGED <<signalled, setupVars, serve, inShutdown, exit, requestVars>>

\* sql.Open, and the deferred db.Close.
Open ==
    /\ main = "open"
    /\ \/ Go("ping") /\ dbOpen' = TRUE
       \/ FailTo("exit", "startup") /\ UNCHANGED dbOpen
    /\ UNCHANGED <<signalled, expired, stmt, serve, inShutdown, exit, requestVars>>

\* waitForDB.  "ping" is a ping under way, "tick" the select after a failed
\* one.  A ping started after the deadline fails at once, so the loop comes
\* back to the select and nothing has changed: no step.  The context with its
\* deadline is gone when waitForDB returns.
Ping ==
    /\ main = "ping"
    /\ \/ Go("prepare") /\ expired' = FALSE
       \/ Go("tick") /\ UNCHANGED expired
    /\ UNCHANGED <<signalled, stmt, dbOpen, serve, inShutdown, exit, requestVars>>

Tick ==
    /\ main = "tick" /\ ~expired
    /\ Go("ping")
    /\ UNCHANGED <<signalled, setupVars, serve, inShutdown, exit, requestVars>>

\* Mutant: the select has no case for the end of the context.
GiveUpNever == FALSE

GiveUp ==
    /\ main = "tick" /\ expired
    /\ FailTo("dbclose", "startup")
    /\ expired' = FALSE
    /\ UNCHANGED <<signalled, stmt, dbOpen, serve, inShutdown, exit, requestVars>>

DeadlinePasses ==
    /\ main \in {"ping", "tick"} /\ ~expired
    /\ expired' = TRUE
    /\ UNCHANGED <<main, signalled, stmt, dbOpen, serve, inShutdown, cause, exit, requestVars>>

-----------------------------------------------------------------------------
\* NewPostgresStorageEngine, one db.PrepareContext after the other.  One that
\* is started after the signal fails; one under way may still succeed.
PrepareStart ==
    /\ main = "prepare" /\ ~signalled
    /\ Go("preparing")
    /\ UNCHANGED <<signalled, setupVars, serve, inShutdown, exit, requestVars>>

PrepareOk ==
    /\ main = "preparing"
    /\ stmt' = [stmt EXCEPT ![FirstStmt("none")] = "open"]
    /\ Go(IF FirstStmt("none") = "delete" THEN "start" ELSE "prepare")
    /\ UNCHANGED <<signalled, expired, dbOpen, serve, inShutdown, exit, requestVars>>

\* The database refuses, the setup timeout passes, or the signal has come: the
\* statements prepared before are closed.
PrepareFails ==
    /\ main = "preparing" \/ (main = "prepare" /\ signalled)
    /\ stmt' = [s \in Stmts |-> IF stmt[s] = "open" THEN "closed" ELSE stmt[s]]
    /\ FailTo("stop", "startup")
    /\ UNCHANGED <<signalled, expired, dbOpen, serve, inShutdown, exit, requestVars>>

-----------------------------------------------------------------------------
\* NewServer, and Server.Run up to its select.
Run ==
    /\ main = "start"
    /\ Go("serve")
    /\ serve' = "starting"
    /\ UNCHANGED <<signalled, setupVars, inShutdown, exit, requestVars>>

\* The goroutine in ListenAndServe.  What it returns waits in serveErrCh.
Listen ==
    /\ exit = "none"
    /\ serve = "starting" /\ ~inShutdown
    /\ serve' = "listening"
    /\ UNCHANGED <<main, signalled, setupVars, inShutdown, cause, exit, requestVars>>

ListenFails ==
    /\ exit = "none"
    /\ serve = "starting" \/ (serve = "listening" /\ ~inShutdown)
    /\ serve' = "failed"
    /\ UNCHANGED <<main, signalled, setupVars, inShutdown, cause, exit, requestVars>>

\* http.ErrServerClosed, also when Shutdown came before the listener was open.
ListenClosed ==
    /\ exit = "none"
    /\ serve \in {"starting", "listening"} /\ inShutdown
    /\ serve' = "closed"
    /\ UNCHANGED <<main, signalled, setupVars, inShutdown, cause, exit, requestVars>>

\* case err := <-serveErrCh.  The storage engine is not closed here.
SelectServeErr ==
    /\ main = "serve" /\ serve \in {"failed", "closed"}
    /\ IF serve = "closed" THEN Go("stop") ELSE FailTo("stop", "serve")
    /\ UNCHANGED <<signalled, setupVars, serve, inShutdown, exit, requestVars>>

\* case <-ctx.Done(): Shutdown.
SelectSignal ==
    /\ main = "serve" /\ signalled
    /\ Go("shutdown")
    /\ inShutdown' = TRUE
    /\ UNCHANGED <<signalled, setupVars, serve, exit, requestVars>>

Active(r) == h[r] \in {"decode", "running"}

\* Mutant: Shutdown does not wait for the handlers.
HTTPDrainedAtOnce ==
    /\ main = "shutdown"
    /\ Go("close")
    /\ UNCHANGED <<signalled, setupVars, serve, inShutdown, exit, requestVars>>

\* httpServer.Shutdown returns nil once no handler is active.
HTTPDrained ==
    /\ main = "shutdown"
    /\ \A r \in Requests : ~Active(r)
    /\ Go("close")
    /\ UNCHANGED <<signalled, setupVars, serve, inShutdown, exit, requestVars>>

\* The ten seconds pass: Shutdown returns before it comes to the storage engine.
GraceExpires ==
    /\ main = "shutdown"
    /\ FailTo("stop", "forced")
    /\ UNCHANGED <<signalled, setupVars, serve, inShutdown, exit, requestVars>>

\* Mutant: Close stops at the first error.
CloseStmtStops ==
    LET s == FirstStmt("open") IN
    /\ main = "close"
    /\ \A r \in Requests : inCall[r] # s
    /\ stmt' = [stmt EXCEPT ![s] = "closed"]
    /\ \/ main' = (IF s = "delete" THEN "await" ELSE "close") /\ UNCHANGED cause
       \/ FailTo("stop", "close")
    /\ UNCHANGED <<signalled, expired, dbOpen, serve, inShutdown, exit, requestVars>>

\* PostgresStorageEngine.Close: every statement is closed, whatever the errors
\* of the others, and they are joined.  Nothing bounds the wait for a call.
CloseStmt ==
    LET s == FirstStmt("open") IN
    /\ main = "close"
    /\ \A r \in Requests : inCall[r] # s
    /\ stmt' = [stmt EXCEPT ![s] = "closed"]
    /\ cause' \in {cause, "close"}
    /\ main' = IF s # "delete" THEN "close"
               ELSE IF cause' = "close" THEN "stop" ELSE "await"
    /\ UNCHANGED <<signalled, expired, dbOpen, serve, inShutdown, exit, requestVars>>

\* Run's last receive from serveErrCh: the listener may have failed by itself.
AwaitServe ==
    /\ main = "await" /\ serve \in {"failed", "closed"}
    /\ IF serve = "failed" THEN FailTo("stop", "serve") ELSE Go("stop")
    /\ UNCHANGED <<signalled, setupVars, serve, inShutdown, exit, requestVars>>

-----------------------------------------------------------------------------
\* The deferred calls of run(), last one first: cancelSetup and stop, db.Close.
Stop ==
    /\ main = "stop"
    /\ Go("dbclose")
    /\ UNCHANGED <<signalled, setupVars, serve, inShutdown, exit, requestVars>>

DBClose ==
    /\ main = "dbclose"
    /\ Go("exit")
    /\ dbOpen' = FALSE
    /\ UNCHANGED <<signalled, expired, stmt, serve, inShutdown, exit, requestVars>>

\* main() returns, or calls os.Exit(1).
Exit ==
    /\ main = "exit"
    /\ Go("exited")
    /\ exit' = IF cause = "none" THEN "0" ELSE "1"
    /\ UNCHANGED <<signalled, setupVars, serve, inShutdown, requestVars>>

\* SIGINT or SIGTERM while NotifyContext is in force; a second one changes
\* nothing.
Signal ==
    /\ main \in {"prepare", "preparing", "start", "serve", "shutdown", "close", "await", "stop"}
    /\ ~signalled
    /\ signalled' = TRUE
    /\ UNCHANGED <<main, setupVars, serve, inShutdown, cause, exit, requestVars>>

\* Before NotifyContext and after stop() it ends the process.
SignalKills ==
    /\ main \in {"config", "open", "ping", "tick", "dbclose", "exit"}
    /\ Go("exited")
    /\ exit' = "killed"
    /\ UNCHANGED <<signalled, setupVars, serve, inShutdown, requestVars>>

MainStep ==
    \/ LoadConfig \/ Open \/ Ping \/ Tick \/ GiveUp
    \/ PrepareStart \/ PrepareOk \/ PrepareFails
    \/ Run \/ SelectServeErr \/ SelectSignal
    \/ HTTPDrained \/ GraceExpires \/ CloseStmt \/ AwaitServe
    \/ Stop \/ DBClose \/ Exit

ListenStep == Listen \/ ListenFails \/ ListenClosed

-----------------------------------------------------------------------------
\* A step of request r's handler or workers, in a process that lives.
RequestStep(r) ==
    /\ exit = "none"
    /\ UNCHANGED <<main, signalled, setupVars, serve, inShutdown, cause, exit>>

Accept(r) ==
    /\ RequestStep(r)
    /\ h[r] = "none"
    /\ serve = "listening" /\ ~inShutdown
    /\ h' = [h EXCEPT ![r] = "decode"]
    /\ UNCHANGED <<ctx, left, inCall, closedErr>>

\* Decode, translateRequest and Build: 400, the empty batch, or a batch.  One
\* with operations that never get to a statement stands for a smaller one.
Decode(r) ==
    /\ RequestStep(r)
    /\ h[r] = "decode"
    /\ \/ /\ left' = [left EXCEPT ![r] = MaxCalls]
          /\ h' = [h EXCEPT ![r] = "running"]
       \/ \E a \in {"200", "400"} : h' = [h EXCEPT ![r] = a] /\ UNCHANGED left
    /\ UNCHANGED <<ctx, inCall, closedErr>>

\* The workers run until Run returns: beyond the handler when it did not wait.
WorkersLive(r) == h[r] \in {"running", "504", "gone"}

\* A worker executes the next operation: Set refuses the value, or the call goes
\* to its statement.  There a Stmt.Close that waits makes it wait; a closed
\* statement or database is an error of the item; so is an ended context.
CallStart(r) ==
    /\ RequestStep(r)
    /\ WorkersLive(r) /\ left[r] > 0 /\ inCall[r] = NoStmt
    /\ left' = [left EXCEPT ![r] = @ - 1]
    /\ \/ UNCHANGED <<inCall, closedErr>>
       \/ \E s \in Stmts :
            /\ ~(main = "close" /\ s = FirstStmt("open"))
            /\ IF stmt[s] = "closed" \/ ~dbOpen
               THEN closedErr' = [closedErr EXCEPT ![r] = TRUE] /\ UNCHANGED inCall
               ELSE /\ inCall' = [inCall EXCEPT ![r] = IF ctx[r] = "live" THEN s ELSE @]
                    /\ UNCHANGED closedErr
    /\ UNCHANGED <<h, ctx>>

\* Mutant: the statement is executed without the context of the batch.
CallEndUncancelled(r) ==
    /\ RequestStep(r)
    /\ inCall[r] # NoStmt /\ ctx[r] = "live"
    /\ inCall' = [inCall EXCEPT ![r] = NoStmt]
    /\ UNCHANGED <<h, ctx, left, closedErr>>

\* The database answers, or the end of the context stops the call.
CallEnd(r) ==
    /\ RequestStep(r)
    /\ inCall[r] # NoStmt
    /\ inCall' = [inCall EXCEPT ![r] = NoStmt]
    /\ UNCHANGED <<h, ctx, left, closedErr>>

\* The batch timeout passes; the client goes away.
BatchTimeout(r) ==
    /\ RequestStep(r)
    /\ h[r] = "running" /\ ctx[r] = "live"
    /\ ctx' = [ctx EXCEPT ![r] = "deadline"]
    /\ UNCHANGED <<h, left, inCall, closedErr>>

ClientGone(r) ==
    /\ RequestStep(r)
    /\ h[r] = "running" /\ ctx[r] = "live"
    /\ ctx' = [ctx EXCEPT ![r] = "cancelled"]
    /\ UNCHANGED <<h, left, inCall, closedErr>>

RunReturned(r) == left[r] = 0 /\ inCall[r] = NoStmt

\* Mutant: the handler answers when its context ends as if the batch were done.
RespondBlindly(r) ==
    /\ RequestStep(r)
    /\ h[r] = "running"
    /\ h' = [h EXCEPT ![r] = IF ctx[r] = "cancelled" THEN "gone" ELSE "200"]
    /\ ctx' = [ctx EXCEPT ![r] = "cancelled"]
    /\ UNCHANGED <<left, inCall, closedErr>>

\* The end of handleBatch.  While the context lives only a Run that has
\* returned ends it; afterwards the handler may answer at once, and leave the
\* workers to themselves.  The deferred cancel ends the context.
Respond(r) ==
    /\ RequestStep(r)
    /\ h[r] = "running"
    /\ \/ ctx[r] = "live" /\ RunReturned(r) /\ h' = [h EXCEPT ![r] = "200"]
       \/ ctx[r] # "live" /\ RunReturned(r) /\ h' = [h EXCEPT ![r] = "500"]
       \/ ctx[r] = "deadline" /\ h' = [h EXCEPT ![r] = "504"]
       \/ ctx[r] = "cancelled" /\ h' = [h EXCEPT ![r] = "gone"]
    /\ ctx' = [ctx EXCEPT ![r] = "cancelled"]
    /\ UNCHANGED <<left, inCall, closedErr>>

\* What happens to request r inside the process, the loss of its client aside.
HandlerStep(r) ==
    Decode(r) \/ CallStart(r) \/ CallEnd(r) \/ BatchTimeout(r) \/ Respond(r)

ServerStep ==
    \/ MainStep \/ DeadlinePasses \/ ListenStep \/ Signal \/ SignalKills
    \/ \E r \in Requests : HandlerStep(r)

\* The main goroutine and the one in ListenAndServe are scheduled; timeouts
\* pass; reading a body is bounded by the read timeout; handlers are scheduled
\* and the database driver returns from its calls.  Nothing makes a signal or a
\* request come, or an operation start.
ServerFairness ==
    /\ WF_serverVars(MainStep)
    /\ WF_serverVars(DeadlinePasses)
    /\ WF_serverVars(ListenStep)
    /\ \A r \in Requests :
         /\ WF_serverVars(Decode(r))
         /\ WF_serverVars(CallEnd(r))
         /\ WF_serverVars(BatchTimeout(r))
         /\ WF_serverVars(Respond(r))

-----------------------------------------------------------------------------
\* Exit status 0 means a clean end: no handler was cut off, no worker was
\* inside the database, statements and database are closed.  A process that
\* ends by itself leaves a statement open only when it gave up waiting for
\* handlers or lost its listener.
CleanExit ==
    /\ exit = "0" =>
         /\ \A r \in Requests : ~Active(r) /\ inCall[r] = NoStmt
         /\ \A s \in Stmts : stmt[s] = "closed"
         /\ ~dbOpen
    /\ exit \in {"0", "1"} /\ (\E s \in Stmts : stmt[s] = "open") =>
         cause \in {"forced", "serve"}

\* Shutting down never shows in an answer: a 200 with an item that failed on a
\* closed statement or database is sent only after the grace period was
\* exceeded or the listener failed, when db.Close does not wait for handlers.
AnswersUntouched ==
    \A r \in Requests : (h[r] = "200" /\ closedErr[r]) => cause \in {"forced", "serve"}

\* A signal ends the process, whatever requests and left-over workers do.
SignalEnds == signalled ~> (exit # "none")

\* The process comes to serve or ends, also when the database never answers.
StartsOrExits == <>(main = "serve" \/ exit # "none")
=============================================================================
