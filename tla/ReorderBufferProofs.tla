------------------------- MODULE ReorderBufferProofs ------------------------
(***************************************************************************)
(* The safety properties of ReorderBuffer, for every number of committers  *)
(* and every batch size.                                                   *)
(*                                                                         *)
(* They need to be strengthened by where a committed operation is: before  *)
(* nextExpected it was received, after it it is pending, and at            *)
(* nextExpected it is being sent, or was dropped by a cancelled send.      *)
(***************************************************************************)
EXTENDS ReorderBuffer, TLAPS

\* One goroutine at most is in the flush loop, and it sends nextExpected.
SenderInv ==
    \A c \in Committers :
      /\ robPc[c] = "send" <=> mu = c
      /\ robPc[c] = "send" => inflight[c] = nextExpected /\ nextExpected \in committed
      /\ robPc[c] = "out" => inflight[c] = NoOp

\* The three ways the code counts what was delivered agree.
CountInv ==
    /\ nextExpected = Len(received)
    /\ flushed = Len(received)
    /\ InOrder

\* Before Drain nothing has happened; after it the total is the batch size.
DrainInv ==
    /\ drained => robTotal = size
    /\ drained => (outClosed <=> Len(received) = size)
    /\ ~drained => /\ committed = {} /\ pending = {} /\ received = << >>
                   /\ outClosed = FALSE /\ mu = Free
    /\ consumer = "finished" => drained /\ outClosed

\* Where a committed operation is.
PlaceInv ==
    /\ committed \subseteq 0 .. (size - 1)
    /\ pending \subseteq committed
    /\ \A s \in pending : s >= nextExpected
    /\ \A s \in 0 .. (nextExpected - 1) : s \in committed
    /\ \A s \in committed : s > nextExpected => s \in pending
    /\ nextExpected \notin pending
    /\ (nextExpected \in committed /\ mu = Free) => ctxDone

RobInv ==
    /\ RobTypeOK
    /\ SenderInv
    /\ CountInv
    /\ DrainInv
    /\ PlaceInv

-----------------------------------------------------------------------------
\* A new buffer, before Drain.
LEMMA NewBufferInv == ASSUME NewBuffer, size \in Nat, ctxDone = FALSE PROVE RobInv
  <1>1. RobTypeOK
    <2>1. received \in Seq(Nat)
      BY DEF NewBuffer
    <2>2. /\ robPc \in [Committers -> {"out", "send"}]
          /\ inflight \in [Committers -> Nat \cup {NoOp}]
      BY DEF NewBuffer
    <2> QED BY <2>1, <2>2 DEF NewBuffer, RobTypeOK
  <1>2. SenderInv
    BY FreeAssumption DEF NewBuffer, SenderInv
  <1>3. CountInv
    BY DEF NewBuffer, CountInv, InOrder
  <1>4. DrainInv
    BY DEF NewBuffer, DrainInv
  <1>5. PlaceInv
    BY <1>1 DEF NewBuffer, PlaceInv, RobTypeOK
  <1> QED BY <1>1, <1>2, <1>3, <1>4, <1>5 DEF RobInv

\* The buffer of the specification's initial states.
LEMMA RobInitInv == RobInit => RobInv
  BY NewBufferInv, TotalsAssumption DEF RobInit

\* Drain fixes the total; an empty batch is complete at once.
LEMMA DrainInvStep == ASSUME RobInv, Drain PROVE RobInv'
  <1> USE DEF RobInv, Drain
  <1>1. RobTypeOK'
    BY DEF RobTypeOK
  <1>2. SenderInv'
    BY DEF SenderInv
  <1>3. CountInv'
    BY DEF CountInv, InOrder
  <1>4. DrainInv'
    BY DEF DrainInv, RobTypeOK
  <1>5. PlaceInv'
    BY DEF PlaceInv
  <1> QED BY <1>1, <1>2, <1>3, <1>4, <1>5

\* What the top of the flush loop establishes: with the lock free nothing
\* deliverable is left in the buffer.
LEMMA FlushNextFacts ==
    ASSUME RobTypeOK, NEW c \in Committers, NEW buffered \in SUBSET Nat, NEW next \in Nat,
           FlushNext(c, buffered, next)
    PROVE  /\ pending' = buffered \ {next}
           /\ mu' \in {c, Free}
           /\ mu' = c <=> next \in buffered
           /\ robPc' = [robPc EXCEPT ![c] = IF next \in buffered THEN "send" ELSE "out"]
           /\ inflight' = [inflight EXCEPT ![c] = IF next \in buffered THEN next ELSE NoOp]
  BY FreeAssumption DEF FlushNext

\* Commit: the new operation is the next one and is sent, or it waits.
LEMMA CommitInvStep ==
    ASSUME RobInv, NEW c \in Committers, NEW seq \in 0 .. (size - 1),
           seq \notin committed, Commit(c, seq)
    PROVE  RobInv'
  <1>1. /\ RobTypeOK /\ SenderInv /\ CountInv /\ DrainInv /\ PlaceInv
        /\ seq \in Nat /\ nextExpected \in Nat /\ size \in Nat
        /\ pending \cup {seq} \in SUBSET Nat
        /\ \A d \in Committers : robPc[d] = "out"
    BY FreeAssumption DEF RobInv, RobTypeOK, Commit, SenderInv
  <1>2. /\ pending' = (pending \cup {seq}) \ {nextExpected}
        /\ mu' \in {c, Free}
        /\ mu' = c <=> seq = nextExpected
        /\ robPc' = [robPc EXCEPT ![c] = IF seq = nextExpected THEN "send" ELSE "out"]
        /\ inflight' = [inflight EXCEPT ![c] = IF seq = nextExpected THEN nextExpected ELSE NoOp]
    <2>1. FlushNext(c, pending \cup {seq}, nextExpected)
      BY DEF Commit
    <2>2. nextExpected \in pending \cup {seq} <=> seq = nextExpected
      BY <1>1 DEF PlaceInv
    <2> DEFINE B == pending \cup {seq}
    <2>3. B \in SUBSET Nat /\ FlushNext(c, B, nextExpected)
      BY <1>1, <2>1
    <2>4. nextExpected \in B <=> seq = nextExpected
      BY <2>2
    <2> HIDE DEF B
    <2>5. /\ pending' = B \ {nextExpected}
          /\ mu' \in {c, Free}
          /\ mu' = c <=> nextExpected \in B
          /\ robPc' = [robPc EXCEPT ![c] = IF nextExpected \in B THEN "send" ELSE "out"]
          /\ inflight' = [inflight EXCEPT ![c] = IF nextExpected \in B
                                                 THEN nextExpected ELSE NoOp]
      BY <1>1, <2>3, FlushNextFacts
    <2>6. CASE seq = nextExpected
      BY <2>4, <2>5, <2>6 DEF B
    <2>7. CASE seq # nextExpected
      BY <2>4, <2>5, <2>7 DEF B
    <2> QED BY <2>6, <2>7
  <1>3. /\ committed' = committed \cup {seq} /\ drained /\ mu = Free
        /\ UNCHANGED <<size, nextExpected, flushed, robTotal, outClosed, received,
                       consumer, drained, ctxDone>>
    BY DEF Commit
  <1>4. RobTypeOK'
    BY <1>1, <1>2, <1>3 DEF RobTypeOK
  <1>5. SenderInv'
    BY <1>1, <1>2, <1>3, FreeAssumption DEF SenderInv, RobTypeOK
  <1>6. CountInv' /\ DrainInv'
    <2>1. CountInv'
      BY <1>1, <1>3 DEF CountInv, InOrder
    <2>2. DrainInv'
      BY <1>1, <1>3 DEF DrainInv
    <2> QED BY <2>1, <2>2
  <1>7. PlaceInv'
    BY <1>1, <1>2, <1>3, FreeAssumption DEF PlaceInv
  <1> QED BY <1>4, <1>5, <1>6, <1>7 DEF RobInv

\* The send succeeds: nextExpected moves past what was delivered.
LEMMA FlushSendInvStep ==
    ASSUME RobInv, NEW c \in Committers, FlushSend(c)
    PROVE  RobInv'
  <1>1. /\ RobTypeOK /\ SenderInv /\ CountInv /\ DrainInv /\ PlaceInv
        /\ nextExpected \in Nat /\ size \in Nat /\ nextExpected + 1 \in Nat
        /\ pending \in SUBSET Nat
        /\ mu = c /\ robPc[c] = "send" /\ inflight[c] = nextExpected
        /\ nextExpected \in committed
        /\ \A d \in Committers : d # c => robPc[d] = "out" /\ inflight[d] = NoOp
    BY DEF RobInv, RobTypeOK, FlushSend, SenderInv
  <1>2. /\ pending' = pending \ {nextExpected + 1}
        /\ mu' \in {c, Free}
        /\ mu' = c <=> nextExpected + 1 \in pending
        /\ robPc' = [robPc EXCEPT ![c] = IF nextExpected + 1 \in pending THEN "send" ELSE "out"]
        /\ inflight' = [inflight EXCEPT ![c] = IF nextExpected + 1 \in pending
                                               THEN nextExpected + 1 ELSE NoOp]
    BY <1>1, FlushNextFacts DEF FlushSend
  <1>3. /\ received' = Append(received, nextExpected)
        /\ nextExpected' = nextExpected + 1
        /\ flushed' = flushed + 1
        /\ outClosed' = (flushed + 1 = robTotal)
        /\ UNCHANGED <<size, robTotal, committed, consumer, drained, ctxDone>>
        /\ ~outClosed /\ consumer = "reading"
    BY <1>1 DEF FlushSend
  <1>4. RobTypeOK'
    BY <1>1, <1>2, <1>3 DEF RobTypeOK
  <1>5. drained
    BY <1>1, FreeAssumption DEF DrainInv
  <1>6. SenderInv'
    BY <1>1, <1>2, <1>3, FreeAssumption DEF SenderInv, RobTypeOK, PlaceInv
  <1>7. CountInv'
    BY <1>1, <1>3 DEF CountInv, InOrder, RobTypeOK
  <1>8. DrainInv'
    <2>1. /\ Len(received') = Len(received) + 1 /\ flushed = Len(received)
          /\ robTotal = size /\ robTotal' = size' /\ drained'
      BY <1>1, <1>3, <1>5 DEF DrainInv, CountInv, RobTypeOK
    <2>2. outClosed' <=> Len(received') = size'
      BY <1>3, <2>1
    <2>3. consumer' # "finished"
      BY <1>3
    <2> QED BY <2>1, <2>2, <2>3 DEF DrainInv
  <1>9. PlaceInv'
    BY <1>1, <1>2, <1>3, FreeAssumption DEF PlaceInv
  <1> QED BY <1>4, <1>6, <1>7, <1>8, <1>9 DEF RobInv

\* The send is abandoned: the operation is dropped and leaves a gap at
\* nextExpected that is never filled.
LEMMA FlushCancelInvStep ==
    ASSUME RobInv, NEW c \in Committers, FlushCancel(c)
    PROVE  RobInv'
  <1>1. /\ RobTypeOK /\ SenderInv /\ CountInv /\ DrainInv /\ PlaceInv
        /\ mu = c /\ drained
        /\ \A d \in Committers : d # c => robPc[d] = "out" /\ inflight[d] = NoOp
    BY FreeAssumption DEF RobInv, FlushCancel, SenderInv, RobTypeOK, DrainInv
  <1>2. RobTypeOK'
    BY <1>1 DEF RobTypeOK, FlushCancel
  <1>3. SenderInv'
    BY <1>1, FreeAssumption DEF SenderInv, FlushCancel, RobTypeOK
  <1>4. CountInv' /\ DrainInv'
    BY <1>1 DEF CountInv, DrainInv, InOrder, FlushCancel
  <1>5. PlaceInv'
    BY <1>1 DEF PlaceInv, FlushCancel
  <1> QED BY <1>2, <1>3, <1>4, <1>5 DEF RobInv

\* Steps of the consumer and of the context.
LEMMA ConsumerInvStep == ASSUME RobInv, Consume \/ RobCancel PROVE RobInv'
  <1> USE DEF RobInv
  <1>1. UNCHANGED <<size, mu, pending, nextExpected, flushed, robTotal, outClosed, robPc,
                    inflight, received, committed, drained>>
    BY DEF Consume, ConsumerEnd, ConsumerLeave, RobCancel
  <1>2. RobTypeOK'
    BY DEF RobTypeOK, Consume, ConsumerEnd, ConsumerLeave, RobCancel
  <1>3. SenderInv' /\ CountInv'
    BY <1>1 DEF SenderInv, CountInv, InOrder
  <1>4. DrainInv'
    BY DEF DrainInv, Consume, ConsumerEnd, ConsumerLeave, RobCancel
  <1>5. PlaceInv'
    BY DEF PlaceInv, Consume, ConsumerEnd, ConsumerLeave, RobCancel
  <1> QED BY <1>2, <1>3, <1>4, <1>5

\* Every step of the buffer and of its environment preserves the invariant.
LEMMA RobStepInv == RobInv /\ [RobNext]_robVars => RobInv'
  <1> SUFFICES ASSUME RobInv, [RobNext]_robVars PROVE RobInv'
    OBVIOUS
  <1>1. CASE Drain
    BY <1>1, DrainInvStep
  <1>2. ASSUME NEW c \in Committers, CommitAny(c) PROVE RobInv'
    BY <1>2, CommitInvStep DEF CommitAny
  <1>3. ASSUME NEW c \in Committers, Flush(c) PROVE RobInv'
    BY <1>3, FlushSendInvStep, FlushCancelInvStep DEF Flush
  <1>4. CASE Consume \/ RobCancel
    BY <1>4, ConsumerInvStep
  <1>5. CASE RobQuiet \/ UNCHANGED robVars
    <2>1. UNCHANGED <<size, mu, pending, nextExpected, flushed, robTotal, outClosed, robPc,
                      inflight, received, committed, consumer, drained, ctxDone>>
      BY <1>5 DEF RobQuiet, robVars
    <2>2. RobTypeOK' /\ SenderInv'
      BY <2>1 DEF RobInv, RobTypeOK, SenderInv
    <2>3. CountInv' /\ DrainInv' /\ PlaceInv'
      BY <2>1 DEF RobInv, CountInv, InOrder, DrainInv, PlaceInv
    <2> QED BY <2>2, <2>3 DEF RobInv
  <1> QED BY <1>1, <1>2, <1>3, <1>4, <1>5 DEF RobNext

-----------------------------------------------------------------------------
\* The inductive invariant holds throughout.
THEOREM RobInvariant == RobSpec => []RobInv
  BY RobInitInv, RobStepInv, PTL DEF RobSpec

\* The fields of the buffer keep their types.
THEOREM RobTypeCorrect == RobSpec => []RobTypeOK
  <1>1. RobInv => RobTypeOK
    BY DEF RobInv
  <1> QED BY <1>1, RobInvariant, PTL

\* The consumer receives SeqIDs 0, 1, 2, ... without gap or repetition,
\* whatever the order of the commits and whenever the context ends.
THEOREM DeliveryInOrder == RobSpec => []InOrder
  <1>1. RobInv => InOrder
    BY DEF RobInv, CountInv
  <1> QED BY <1>1, RobInvariant, PTL

\* While the context lasts, Commit and Drain close the channel exactly when
\* everything was received.
THEOREM CloseIsComplete == RobSpec => []ClosedMeansComplete
  <1>1. RobInv => ClosedMeansComplete
    BY DEF RobInv, DrainInv, ClosedMeansComplete
  <1> QED BY <1>1, RobInvariant, PTL

\* Nobody sends on the closed channel; the lock is exclusive.
THEOREM CommitsExclude == RobSpec => []CommitExclusive
  <1>1. ASSUME RobInv PROVE CommitExclusive
    <2>1. \A c \in Committers : robPc[c] # "out" <=> mu = c
      BY <1>1 DEF RobInv, SenderInv, RobTypeOK
    <2>2. ASSUME NEW c \in Committers, robPc[c] = "send" PROVE ~outClosed
      <3>1. nextExpected < size /\ drained /\ nextExpected = Len(received)
        BY <1>1, <2>2, FreeAssumption DEF RobInv, SenderInv, PlaceInv, DrainInv, CountInv, RobTypeOK
      <3> QED BY <1>1, <3>1 DEF RobInv, DrainInv, RobTypeOK
    <2> QED BY <2>1, <2>2 DEF CommitExclusive
  <1> QED BY <1>1, RobInvariant, PTL

\* What is lost is at most the operation whose send was abandoned.
THEOREM LossIsBounded == RobSpec => []AtMostOneLost
  <1>1. ASSUME RobInv PROVE AtMostOneLost
    <2>1. RobTypeOK /\ SenderInv /\ CountInv /\ PlaceInv
      BY <1>1 DEF RobInv
    <2>2. ASSUME NEW s \in Lost PROVE s = nextExpected
      <3>1. s \in committed /\ s \notin pending /\ s \notin Received /\ s \in Nat
        BY <2>1, <2>2 DEF Lost, RobTypeOK
      <3>2. ~(s > nextExpected)
        BY <2>1, <3>1 DEF PlaceInv
      <3>3. ASSUME s < nextExpected PROVE FALSE
        <4>1. s + 1 \in DOMAIN received
          BY <2>1, <3>1, <3>3 DEF CountInv, RobTypeOK
        <4>2. received[s + 1] = s
          BY <2>1, <3>1, <4>1 DEF CountInv, InOrder
        <4> QED BY <3>1, <4>1, <4>2 DEF Received
      <3> QED BY <2>1, <3>1, <3>2, <3>3 DEF RobTypeOK
    <2>3. ASSUME Lost # {} PROVE ctxDone /\ Lost = {nextExpected} /\ InFlight = {}
      <3>1. Lost = {nextExpected} /\ nextExpected \in committed /\ nextExpected \notin InFlight
        BY <2>2, <2>3 DEF Lost
      <3>2. \A c \in Committers : inflight[c] = NoOp /\ robPc[c] = "out"
        BY <2>1, <3>1 DEF SenderInv, InFlight, RobTypeOK, NoOp
      <3>3. mu = Free
        BY <2>1, <3>2 DEF SenderInv, RobTypeOK
      <3> QED BY <2>1, <3>1, <3>2, <3>3 DEF PlaceInv, InFlight
    <2> QED BY <2>1, <2>3 DEF AtMostOneLost, PlaceInv
  <1> QED BY <1>1, RobInvariant, PTL

\* With the lock free, nothing deliverable is held back.
THEOREM HeadNeverStranded == RobSpec => []NoStrandedHead
  <1>1. RobInv => NoStrandedHead
    BY DEF RobInv, PlaceInv, NoStrandedHead
  <1> QED BY <1>1, RobInvariant, PTL
=============================================================================
