----------------------------- MODULE Deployment -----------------------------
(***************************************************************************)
(* The load simulator against the API process, each with its own life: the *)
(* server may not be up yet, may be told to stop, may give up its handlers *)
(* or die, while clients connect, wait, time out and go away.              *)
(***************************************************************************)
EXTENDS ServerLifecycle, Simulator

\* Client c makes request c.
ASSUME ClientsAssumption == Clients = Requests

deploymentVars == <<serverVars, simVars>>

DeploymentTypeOK == LifecycleTypeOK /\ SimTypeOK

DeploymentInit == ServerInit /\ SimInit

\* The connection is accepted.
Connect(c) == ClientSend(c) /\ Accept(c)

Listening == exit = "none" /\ serve = "listening" /\ ~inShutdown

\* No listener, or the process ends before an answer is on its way.  The
\* answers of a process that has ended may still arrive.
ConnectionLost(c) ==
    /\ \/ client[c] = "ready" /\ ~Listening
       \/ client[c] = "waiting" /\ exit # "none"
    /\ ClientError(c, FALSE)
    /\ UNCHANGED serverVars

\* The client's own timeout, before or after the request has gone out.
ClientTimeout(c) == ClientError(c, TRUE) /\ UNCHANGED serverVars

\* The server notices that the connection of a client that left is closed.
Disconnect(c) == client[c] = "done" /\ ClientGone(c) /\ UNCHANGED simVars

Answered(c) ==
    /\ h[c] \in Status
    /\ ClientResponse(c, h[c])
    /\ UNCHANGED serverVars

ClientStep(c) == ConnectionLost(c) \/ ClientTimeout(c) \/ Answered(c)

\* Both processes have ended.
DeploymentDone ==
    /\ exit # "none" /\ report # NoReport
    /\ UNCHANGED deploymentVars

DeploymentNext ==
    \/ ServerStep /\ UNCHANGED simVars
    \/ \E c \in Clients : Connect(c) \/ ClientStep(c) \/ Disconnect(c)
    \/ \E c \in Clients : ClientUnsent(c) /\ UNCHANGED serverVars
    \/ Report /\ UNCHANGED serverVars
    \/ DeploymentDone

\* Of the simulator nothing is assumed: it may hang as long as it likes.
DeploymentSpec == DeploymentInit /\ [][DeploymentNext]_deploymentVars /\ ServerFairness

-----------------------------------------------------------------------------
\* A deploy gate can trust exit status 0: the server has answered every
\* request with 200, nothing of them is still running, and no item failed
\* because the process was shutting down, unless the grace period was exceeded
\* or the listener failed.  (Items may have failed for other reasons: the
\* simulator does not look into the answers.)
GateIsSound ==
    report.exit = "0" =>
      \A c \in Clients : /\ h[c] = "200"
                         /\ left[c] = 0 /\ inCall[c] = NoStmt
                         /\ closedErr[c] => cause \in {"forced", "serve"}
=============================================================================
