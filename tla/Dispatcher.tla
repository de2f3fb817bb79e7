----------------------------- MODULE Dispatcher -----------------------------
(***************************************************************************)
(* KhaosDispatcher (php/KhaosDispatcher.php) against the gateway: rider    *)
(* pings are buffered, sent as one batch of WRITEs, and the buffer is      *)
(* cleared on a decoded HTTP 200.  After any failure the caller may add    *)
(* pings and dispatch again while the gateway still works on the request   *)
(* the client has given up.                                                *)
(*                                                                         *)
(* A request in the gateway is what BatchEngine establishes of it: items   *)
(* of one rider are executed in order; a storage call starts only while    *)
(* the request's context lasts but may take effect later; a 200 is sent    *)
(* only when every item has been executed and the context has not ended.   *)
(* A ping is its position in the history of addRiderUpdate calls, so of    *)
(* two pings of a rider the larger is the newer.  A rider is both the key  *)
(* that orders its items and its row: rider IDs of one spelling each.      *)
(***************************************************************************)
EXTENDS Integers, Sequences, FiniteSets, Functions

CONSTANTS
    Riders,
    MaxPings,     \* bound on addRiderUpdate calls
    MaxRequests,  \* bound on dispatchBatch calls that reach the gateway
    BodyLimit     \* items that fit into the body limit of withMaxBody

ASSUME DispatcherAssumption == {MaxPings, MaxRequests, BodyLimit} \subseteq Nat

VARIABLES
    pings,     \* the rider of every ping ever added
    pending,   \* the buffer $this->pending, as ping numbers
    waiting,   \* dispatchBatch is blocked in curl_exec
    requests,  \* requests that reached the gateway, oldest first
    table,     \* active_rider_tracking: rider -> ping in its row, 0 if none
    overlap    \* some request was sent while an older one was unsettled

dispatcherVars == <<pings, pending, waiting, requests, table, overlap>>

Item == {"queued", "calling", "ok", "failed"}

\* A request names pings of the history.
Request == [items : Seq(DOMAIN pings), item : Seq(Item), ctx : BOOLEAN,
            status : {"running", "200", "error"}]

\* The buffer, every request and every row name pings that were really added.
DispatcherTypeOK ==
    /\ pings \in Seq(Riders)
    /\ pending \in Seq(DOMAIN pings)
    /\ waiting \in BOOLEAN
    /\ requests \in Seq(Request)
    /\ table \in [Riders -> {0} \cup DOMAIN pings]
    /\ overlap \in BOOLEAN

DispatcherInit ==
    /\ pings = << >>
    /\ pending = << >>
    /\ waiting = FALSE
    /\ requests = << >>
    /\ table = [r \in Riders |-> 0]
    /\ overlap = FALSE

-----------------------------------------------------------------------------
\* addRiderUpdate, with arguments that pass its checks.
addRiderUpdate(r) ==
    /\ ~waiting
    /\ Len(pings) < MaxPings
    /\ pings' = Append(pings, r)
    /\ pending' = Append(pending, Len(pings) + 1)
    /\ UNCHANGED <<waiting, requests, table, overlap>>

Unsettled(q) == \E i \in DOMAIN requests[q].item :
                   requests[q].item[i] \in {"queued", "calling"}

\* dispatchBatch sends the whole buffer.  A body over the limit fails to
\* decode and is answered with 400 before anything is executed.
dispatchBatch ==
    /\ ~waiting
    /\ pending # << >>
    /\ Len(requests) < MaxRequests
    /\ waiting' = TRUE
    /\ requests' = Append(requests,
         IF Len(pending) > BodyLimit
         THEN [items |-> << >>, item |-> << >>, ctx |-> FALSE, status |-> "error"]
         ELSE [items |-> pending, item |-> [i \in DOMAIN pending |-> "queued"],
               ctx |-> TRUE, status |-> "running"])
    /\ overlap' = (overlap \/ \E q \in DOMAIN requests : Unsettled(q))
    /\ UNCHANGED <<pings, pending, table>>

Answer == requests[Len(requests)].status

\* A 200 that decodes: the buffer is cleared.  The items are not looked at.
DispatchConfirmed ==
    /\ waiting
    /\ Answer = "200"
    /\ waiting' = FALSE
    /\ pending' = << >>
    /\ UNCHANGED <<pings, requests, table, overlap>>

\* Mutant: the buffer is cleared whatever the answer.
DispatchFailedClears ==
    /\ waiting
    /\ waiting' = FALSE
    /\ pending' = << >>
    /\ UNCHANGED <<pings, requests, table, overlap>>

\* KhaosDispatchException: another status, a transport error, the client's own
\* timeout, or an answer that is lost.  The buffer stays as it is.
DispatchFailed ==
    /\ waiting
    /\ waiting' = FALSE
    /\ UNCHANGED <<pings, pending, requests, table, overlap>>

-----------------------------------------------------------------------------
\* Mutant: no order between the items of one rider.
ItemReadyUnordered(q, i) == requests[q].item[i] = "queued"

\* No earlier item of the same rider is still to be executed.
ItemReady(q, i) ==
    /\ requests[q].item[i] = "queued"
    /\ \A j \in 1 .. (i - 1) :
         pings[requests[q].items[j]] = pings[requests[q].items[i]]
           => requests[q].item[j] \in {"ok", "failed"}

SetItem(q, i, to) == requests' = [requests EXCEPT ![q].item[i] = to]

\* A worker takes the item: its storage call starts, or is refused because the
\* context has ended.
ItemStart(q, i) ==
    /\ ItemReady(q, i)
    /\ SetItem(q, i, IF requests[q].ctx THEN "calling" ELSE "failed")
    /\ UNCHANGED <<pings, pending, waiting, table, overlap>>

\* The call ends: the upsert has replaced the row.
ItemWritten(q, i) ==
    LET p == requests[q].items[i] IN
    /\ requests[q].item[i] = "calling"
    /\ SetItem(q, i, "ok")
    /\ table' = [table EXCEPT ![pings[p]] = p]
    /\ UNCHANGED <<pings, pending, waiting, overlap>>

\* The call fails: Set refuses the status (the client only checks that it is
\* not empty), the database refuses the row, or the connection breaks before
\* or after the upsert.  The item carries the error; the request goes on.
ItemFailed(q, i) ==
    LET p == requests[q].items[i] IN
    /\ requests[q].item[i] = "calling"
    /\ SetItem(q, i, "failed")
    /\ table' \in {table, [table EXCEPT ![pings[p]] = p]}
    /\ UNCHANGED <<pings, pending, waiting, overlap>>

\* The batch timeout expires, or the server notices that the client is gone.
ContextEnds(q) ==
    /\ requests[q].status = "running"
    /\ requests[q].ctx
    /\ requests' = [requests EXCEPT ![q].ctx = FALSE]
    /\ UNCHANGED <<pings, pending, waiting, table, overlap>>

Respond200(q) ==
    /\ requests[q].status = "running"
    /\ requests[q].ctx
    /\ ~Unsettled(q)
    /\ requests' = [requests EXCEPT ![q].status = "200", ![q].ctx = FALSE]
    /\ UNCHANGED <<pings, pending, waiting, table, overlap>>

\* 504 as soon as the context has ended, or 500 when all results are in.
RespondError(q) ==
    /\ requests[q].status = "running"
    /\ ~requests[q].ctx
    /\ requests' = [requests EXCEPT ![q].status = "error"]
    /\ UNCHANGED <<pings, pending, waiting, table, overlap>>

Gateway == \E q \in DOMAIN requests :
              \/ \E i \in DOMAIN requests[q].items : 
                    ItemStart(q, i) \/ ItemWritten(q, i) \/ ItemFailed(q, i)
              \/ ContextEnds(q) \/ Respond200(q) \/ RespondError(q)

\* Only the bounds of the model bring it to rest.
DispatcherRest ==
    /\ ~waiting
    /\ Len(pings) = MaxPings
    /\ pending = << >> \/ Len(requests) = MaxRequests
    /\ UNCHANGED dispatcherVars

DispatcherNext ==
    \/ \E r \in Riders : addRiderUpdate(r)
    \/ dispatchBatch \/ DispatchConfirmed \/ DispatchFailed
    \/ Gateway
    \/ DispatcherRest

DispatcherSpec == DispatcherInit /\ [][DispatcherNext]_dispatcherVars

-----------------------------------------------------------------------------
\* Some request answered item p in the given way.
Has(p, state, statuses) ==
    \E q \in DOMAIN requests : \E i \in DOMAIN requests[q].items :
      /\ requests[q].items[i] = p
      /\ requests[q].item[i] = state
      /\ requests[q].status \in statuses

AnyStatus == {"running", "200", "error"}

Applied(p) == Has(p, "ok", AnyStatus)

\* "At-least-once delivery": a ping that has left the buffer was written.
AtLeastOnce == \A p \in DOMAIN pings : p \in Range(pending) \/ Applied(p)

\* What the client does guarantee: a ping that has left the buffer was written,
\* unless the very answer that cleared the buffer carried an error for it.
\* Retries, timeouts on either side and lost answers lose nothing.
DropsOnlyReported ==
    \A p \in DOMAIN pings : p \in Range(pending) \/ Applied(p) \/ Has(p, "failed", {"200"})

Quiet == ~waiting /\ \A q \in DOMAIN requests : ~Unsettled(q)

Newest(r) == LET S == {p \in DOMAIN pings : pings[p] = r}
             IN  IF S = {} THEN 0 ELSE CHOOSE p \in S : \A o \in S : o <= p

\* "Effectively-once behavior": once the client is done and nothing is in
\* flight, the row of a rider whose pings all got through holds the newest.
NewestPingWins ==
    (Quiet /\ pending = << >>) =>
      \A r \in Riders : (\A p \in DOMAIN pings : pings[p] = r => ~Has(p, "failed", {"200"}))
                           => table[r] = Newest(r)

\* That holds as long as the gateway had settled every request before the next
\* one was sent.
NewestWinsWithoutOverlap == ~overlap => NewestPingWins
=============================================================================
