--------------------------- MODULE ReorderBuffer ----------------------------
(***************************************************************************)
(* InOrderReorderBuffer (reorder.go): workers commit operations in any     *)
(* order, one consumer receives them in SeqID order over an unbuffered     *)
(* channel.  Commit holds the mutex while it sends, so a slow consumer     *)
(* holds up every other committer; a send gives up when the context ends.  *)
(*                                                                         *)
(* An operation is represented by its SeqID.  Drain is called once, before *)
(* the first Commit, as NewInOrderReorderBuffer requires and handleBatch   *)
(* does.                                                                   *)
(***************************************************************************)
EXTENDS Integers, Sequences, FiniteSets

CONSTANTS
    Committers,  \* the goroutines that call Commit
    Totals       \* the batch sizes Drain may be called with

ASSUME CommittersAssumption == IsFiniteSet(Committers) /\ Committers # {}
ASSUME TotalsAssumption == Totals \subseteq Nat

VARIABLES
    size,          \* length of the batch whose results pass through the buffer
    mu,            \* who holds the mutex
    pending,       \* SeqIDs buffered out of order
    nextExpected,
    flushed,
    robTotal,      \* the field total
    outClosed,     \* the field closed, and whether out is closed
    robPc,         \* a committer is "out" of Commit or blocked in its "send"
    inflight,      \* the operation it took from pending and is sending
    received,      \* what the consumer got from the channel, in order
    committed,     \* SeqIDs Commit was called with
    consumer,      \* "reading", "finished" (saw the close) or "gone"
    drained,       \* Drain was called
    ctxDone        \* the context given to Drain has ended

robVars == <<size, mu, pending, nextExpected, flushed, robTotal, outClosed, robPc,
             inflight, received, committed, consumer, drained, ctxDone>>

Free == "free"
NoOp == -1

ASSUME FreeAssumption == Free \notin Committers

RobTypeOK ==
    /\ size \in Nat
    /\ mu \in Committers \cup {Free}
    /\ pending \in SUBSET Nat
    /\ nextExpected \in Nat
    /\ flushed \in Nat
    /\ robTotal \in Nat
    /\ outClosed \in BOOLEAN
    /\ robPc \in [Committers -> {"out", "send"}]
    /\ inflight \in [Committers -> Nat \cup {NoOp}]
    /\ received \in Seq(Nat)
    /\ committed \in SUBSET Nat
    /\ consumer \in {"reading", "finished", "gone"}
    /\ drained \in BOOLEAN
    /\ ctxDone \in BOOLEAN

-----------------------------------------------------------------------------
\* NewInOrderReorderBuffer, and a consumer about to range over the channel.
NewBuffer ==
    /\ mu = Free
    /\ pending = {}
    /\ nextExpected = 0
    /\ flushed = 0
    /\ robTotal = 0
    /\ outClosed = FALSE
    /\ robPc = [c \in Committers |-> "out"]
    /\ inflight = [c \in Committers |-> NoOp]
    /\ received = << >>
    /\ committed = {}
    /\ consumer = "reading"
    /\ drained = FALSE

RobInit ==
    /\ NewBuffer
    /\ size \in Totals
    /\ ctxDone = FALSE

\* Mutant: total is off by one.
DrainOffByOne ==
    /\ ~drained
    /\ mu = Free
    /\ drained' = TRUE
    /\ robTotal' = size - 1
    /\ outClosed' = (outClosed \/ size = 0)
    /\ UNCHANGED <<size, mu, pending, nextExpected, flushed, robPc, inflight, received,
                   committed, consumer, ctxDone>>

\* Drain(ctx, size): an empty batch closes the channel at once.
Drain ==
    /\ ~drained
    /\ mu = Free
    /\ drained' = TRUE
    /\ robTotal' = size
    /\ outClosed' = (outClosed \/ size = 0)
    /\ UNCHANGED <<size, mu, pending, nextExpected, flushed, robPc, inflight, received,
                   committed, consumer, ctxDone>>

\* Mutant: an operation that is not the next one is not kept.
FlushNextForgets(c, buffered, next) ==
    IF next \in buffered
    THEN /\ pending' = buffered \ {next}
         /\ inflight' = [inflight EXCEPT ![c] = next]
         /\ robPc' = [robPc EXCEPT ![c] = "send"]
         /\ mu' = c
    ELSE /\ UNCHANGED pending
         /\ inflight' = [inflight EXCEPT ![c] = NoOp]
         /\ robPc' = [robPc EXCEPT ![c] = "out"]
         /\ mu' = Free

\* The top of Commit's loop: take the next operation out of pending and go on
\* to send it, or find a gap, unlock and return.
FlushNext(c, buffered, next) ==
    IF next \in buffered
    THEN /\ pending' = buffered \ {next}
         /\ inflight' = [inflight EXCEPT ![c] = next]
         /\ robPc' = [robPc EXCEPT ![c] = "send"]
         /\ mu' = c
    ELSE /\ pending' = buffered
         /\ inflight' = [inflight EXCEPT ![c] = NoOp]
         /\ robPc' = [robPc EXCEPT ![c] = "out"]
         /\ mu' = Free

\* Mutant: Commit without the lock.
CommitUnlocked(c, seq) ==
    /\ drained
    /\ robPc[c] = "out"
    /\ committed' = committed \cup {seq}
    /\ FlushNext(c, pending \cup {seq}, nextExpected)
    /\ UNCHANGED <<size, nextExpected, flushed, robTotal, outClosed, received,
                   consumer, drained, ctxDone>>

\* Commit takes the lock, buffers the operation and enters the loop.  Up to
\* the send nothing in the critical section blocks.
Commit(c, seq) ==
    /\ drained
    /\ robPc[c] = "out"
    /\ mu = Free
    /\ committed' = committed \cup {seq}
    /\ FlushNext(c, pending \cup {seq}, nextExpected)
    /\ UNCHANGED <<size, nextExpected, flushed, robTotal, outClosed, received,
                   consumer, drained, ctxDone>>

\* Mutant: one operation per Commit, the loop is missing.
FlushSendOnce(c) ==
    /\ robPc[c] = "send"
    /\ consumer = "reading" /\ ~outClosed
    /\ received' = Append(received, inflight[c])
    /\ nextExpected' = nextExpected + 1
    /\ flushed' = flushed + 1
    /\ outClosed' = (flushed + 1 = robTotal)
    /\ inflight' = [inflight EXCEPT ![c] = NoOp]
    /\ robPc' = [robPc EXCEPT ![c] = "out"]
    /\ mu' = Free
    /\ UNCHANGED <<size, pending, robTotal, committed, consumer, drained, ctxDone>>

\* case rb.out <- op: a rendezvous with the consumer, and the next iteration.
FlushSend(c) ==
    /\ robPc[c] = "send"
    /\ consumer = "reading" /\ ~outClosed
    /\ received' = Append(received, inflight[c])
    /\ nextExpected' = nextExpected + 1
    /\ flushed' = flushed + 1
    /\ outClosed' = (flushed + 1 = robTotal)
    /\ FlushNext(c, pending, nextExpected + 1)
    /\ UNCHANGED <<size, robTotal, committed, consumer, drained, ctxDone>>

\* Mutants: the aborted operation counts as delivered; a plain send that does
\* not watch the context.
FlushCancelSkips(c) ==
    /\ robPc[c] = "send"
    /\ ctxDone
    /\ inflight' = [inflight EXCEPT ![c] = NoOp]
    /\ robPc' = [robPc EXCEPT ![c] = "out"]
    /\ mu' = Free
    /\ nextExpected' = nextExpected + 1
    /\ UNCHANGED <<size, pending, flushed, robTotal, outClosed, received,
                   committed, consumer, drained, ctxDone>>

FlushCancelNever(c) == FALSE

\* case <-rb.ctx.Done(): return.  The operation is in neither place any more.
FlushCancel(c) ==
    /\ robPc[c] = "send"
    /\ ctxDone
    /\ inflight' = [inflight EXCEPT ![c] = NoOp]
    /\ robPc' = [robPc EXCEPT ![c] = "out"]
    /\ mu' = Free
    /\ UNCHANGED <<size, pending, nextExpected, flushed, robTotal, outClosed, received,
                   committed, consumer, drained, ctxDone>>

\* The consumer's receive reports the close.
ConsumerEnd ==
    /\ drained
    /\ consumer = "reading"
    /\ outClosed
    /\ consumer' = "finished"
    /\ UNCHANGED <<size, mu, pending, nextExpected, flushed, robTotal, outClosed, robPc,
                   inflight, received, committed, drained, ctxDone>>

\* The consumer's own case <-ctx.Done().
ConsumerLeave ==
    /\ drained
    /\ consumer = "reading"
    /\ ctxDone
    /\ consumer' = "gone"
    /\ UNCHANGED <<size, mu, pending, nextExpected, flushed, robTotal, outClosed, robPc,
                   inflight, received, committed, drained, ctxDone>>

-----------------------------------------------------------------------------
\* The environment of the buffer: every SeqID of the batch is committed at
\* most once, by any committer and in any order; the context may end.
CommitAny(c) == \E seq \in 0 .. (size - 1) :
                   seq \notin committed /\ Commit(c, seq)

RobCancel == /\ ~ctxDone
             /\ ctxDone' = TRUE
             /\ UNCHANGED <<size, mu, pending, nextExpected, flushed, robTotal, outClosed,
                            robPc, inflight, received, committed, consumer, drained>>

Flush(c) == FlushSend(c) \/ FlushCancel(c)

Consume == ConsumerEnd \/ ConsumerLeave

RobQuiet == /\ consumer # "reading"
            /\ mu = Free
            /\ committed = 0 .. (size - 1)
            /\ UNCHANGED robVars

RobNext == \/ Drain
           \/ \E c \in Committers : CommitAny(c) \/ Flush(c)
           \/ Consume
           \/ RobCancel
           \/ RobQuiet

RobSpec == RobInit /\ [][RobNext]_robVars

\* A goroutine inside Commit is scheduled, the consumer stays in its loop, the
\* workers go on committing.  Nothing makes the context end.
RobFairSpec ==
    /\ RobSpec
    /\ WF_robVars(Drain)
    /\ WF_robVars(Consume)
    /\ \A c \in Committers : WF_robVars(CommitAny(c)) /\ WF_robVars(Flush(c))

-----------------------------------------------------------------------------
InFlight == {inflight[c] : c \in Committers} \ {NoOp}

Received == {received[p] : p \in DOMAIN received}

Lost == committed \ (pending \cup InFlight \cup Received)

\* The consumer sees SeqIDs 0, 1, 2, ... without gap or repetition, whatever
\* the order of the commits and whenever the context ends.
InOrder == \A p \in DOMAIN received : received[p] = p - 1

\* As long as the context lasts, the channel is closed exactly when the whole
\* batch has been received, so a consumer that sees the close has all results.
\* The interface lets a cancelled Drain close early; nothing is said of that.
ClosedMeansComplete ==
    ~ctxDone => /\ drained => (outClosed <=> Len(received) = size)
                /\ consumer = "finished" => Len(received) = size

\* Nobody sends on the closed channel, and no two committers are between lock
\* and unlock at once.
CommitExclusive ==
    /\ \A c \in Committers : robPc[c] = "send" => ~outClosed
    /\ \A c \in Committers : robPc[c] # "out" <=> mu = c

\* Nothing committed disappears unless the context ended; then at most the one
\* operation the aborted send held, and nothing after it is ever delivered.
AtMostOneLost ==
    /\ Lost # {} => ctxDone /\ Lost = {nextExpected} /\ InFlight = {}
    /\ \A s \in pending : s >= nextExpected

\* When the flush loop is not running, the buffer holds back nothing that
\* could be delivered.
NoStrandedHead == mu = Free => nextExpected \notin pending

\* A Commit that has the lock returns: a blocked send is ended by the consumer
\* or by the context.  It says nothing of a Commit that waits for the lock;
\* that the waiting ones get it and return as well is NoLeak of the engine.
CommitReturns == \A c \in Committers : (robPc[c] # "out") ~> (robPc[c] = "out")

\* Unless the context ends, the consumer gets everything and sees the close.
AllDelivered == <>(consumer = "finished" \/ ctxDone)
=============================================================================
