---------------------------- MODULE RequestProofs ---------------------------
(***************************************************************************)
(* A batch request at its two ends.                                        *)
(*                                                                         *)
(* translateRequest, for every request body.  The invariant says what the  *)
(* first loop has done with the first idx items: their seq_ids are in      *)
(* range and distinct, so there are idx of them, and each has placed its   *)
(* operation.  At the end of the loop idx positions out of idx are taken.  *)
(*                                                                         *)
(* The PHP client against the gateway, for any number of riders, pings and *)
(* requests.  The invariant relates the buffer to the history of pings and *)
(* to the last request, and the rows to the items of that request.         *)
(***************************************************************************)
EXTENDS Gateway, Dispatcher, DAGProofs

\* The items the loop has gone through.
Handled == 0 .. (idx - 1)

SeenInv ==
    /\ idx <= Size
    /\ seen = {items[n].SeqID : n \in Handled}
    /\ Cardinality(seen) = idx

\* Each handled item passed the checks and its operation is in its place.
PlacedInv ==
    \A n \in Handled : /\ items[n].RiderID # NoRider
                       /\ parseOperationType(items[n].OperationType) # UnknownOp
                       /\ ops[items[n].SeqID] = Translated(items[n])

BuildInv == phase = "build" => seen = DOMAIN items /\ idx = Size

GatewayInv == GatewayTypeOK /\ SeenInv /\ PlacedInv /\ BuildInv

-----------------------------------------------------------------------------
\* A body is a slice of request items.
LEMMA BodyFacts ==
    ASSUME items \in Bodies
    PROVE  /\ IsFiniteSet(DOMAIN items)
           /\ Size \in Nat
           /\ DOMAIN items = 0 .. (Size - 1)
           /\ \A n \in DOMAIN items : items[n] \in BatchRequestItem
  <1>1. IsFiniteSet(DOMAIN items) /\ items \in [0 .. (Len0(items) - 1) -> BatchRequestItem]
    BY BodiesAssumption
  <1>2. Len0(items) \in Nat
    BY <1>1, FS_CardinalityType DEF Len0
  <1> QED BY <1>1, <1>2 DEF Size

\* Whatever the client writes is parsed as some operation type.
LEMMA ParsedType == ASSUME NEW raw PROVE parseOperationType(raw) \in OperationType
  BY Zenon DEF parseOperationType, OperationType

\* A request starts with an empty slice of operations.
LEMMA GatewayInitInv == GatewayInit => GatewayInv
  <1> SUFFICES ASSUME GatewayInit PROVE GatewayInv
    OBVIOUS
  <1>1. items \in Bodies /\ idx = 0 /\ seen = {} /\ Handled = {}
    BY DEF GatewayInit, Handled
  <1>2. GatewayTypeOK
    BY DEF GatewayInit, GatewayTypeOK
  <1>3. SeenInv
    BY <1>1, BodyFacts, FS_EmptySet DEF SeenInv
  <1>4. PlacedInv /\ BuildInv
    BY <1>1 DEF PlacedInv, BuildInv, GatewayInit
  <1> QED BY <1>2, <1>3, <1>4 DEF GatewayInv

\* An accepted item takes a position of its own.
LEMMA TranslateItemInv == ASSUME GatewayInv, TranslateItem PROVE GatewayInv'
  <1> DEFINE it == items[idx]
  <1>1. /\ GatewayTypeOK /\ SeenInv /\ PlacedInv
        /\ items \in Bodies /\ idx \in Nat /\ idx < Size
        /\ phase = "translate"
    BY DEF GatewayInv, GatewayTypeOK, TranslateItem
  <1>2. /\ IsFiniteSet(DOMAIN items) /\ Size \in Nat /\ DOMAIN items = 0 .. (Size - 1)
        /\ idx \in DOMAIN items /\ it \in BatchRequestItem
    BY <1>1, BodyFacts
  <1>3. /\ it.SeqID \in DOMAIN items /\ it.SeqID \notin seen
        /\ parseOperationType(it.OperationType) # UnknownOp
        /\ it.RiderID # NoRider
    BY <1>1, <1>2 DEF TranslateItem, ItemRefused, BatchRequestItem
  <1>4. /\ seen' = seen \cup {it.SeqID} /\ idx' = idx + 1
        /\ ops' = [ops EXCEPT ![it.SeqID] = Translated(it)]
        /\ UNCHANGED <<items, phase, status>> /\ Size' = Size
    BY DEF TranslateItem, Size
  <1>5. Handled' = Handled \cup {idx}
    BY <1>1, <1>4 DEF Handled
  <1>6. Translated(it) \in Operation
    BY <1>2, <1>3, ParsedType DEF Translated, Operation, BatchRequestItem
  <1>7. GatewayTypeOK'
    BY <1>1, <1>2, <1>3, <1>4, <1>6 DEF GatewayTypeOK
  <1>8. SeenInv'
    <2>1. IsFiniteSet(seen)
      BY <1>1, <1>2, FS_Subset DEF GatewayTypeOK
    <2>2. Cardinality(seen') = idx'
      BY <1>1, <1>3, <1>4, <2>1, FS_AddElement DEF SeenInv
    <2>3. seen' = {items[n].SeqID : n \in Handled'}
      BY <1>1, <1>4, <1>5 DEF SeenInv
    <2>4. items' = items /\ idx' <= Size'
      BY <1>1, <1>2, <1>4
    <2> QED BY <2>2, <2>3, <2>4 DEF SeenInv
  <1>9. PlacedInv'
    <2>1. SUFFICES ASSUME NEW n \in Handled \cup {idx}
                   PROVE  /\ items[n].RiderID # NoRider
                          /\ parseOperationType(items[n].OperationType) # UnknownOp
                          /\ ops'[items[n].SeqID] = Translated(items[n])
      BY <1>4, <1>5 DEF PlacedInv, Translated
    <2>2. DOMAIN ops = DOMAIN items
      BY <1>1 DEF GatewayTypeOK
    <2>3. CASE n = idx
      BY <1>3, <1>4, <2>2, <2>3
    <2>4. CASE n \in Handled
      <3>1. items[n].SeqID \in seen
        BY <1>1, <2>4 DEF SeenInv
      <3>2. items[n].SeqID # it.SeqID /\ items[n].SeqID \in DOMAIN items
        BY <1>1, <1>3, <3>1 DEF GatewayTypeOK
      <3> QED BY <1>1, <1>4, <2>2, <2>4, <3>2 DEF PlacedInv
    <2> QED BY <2>1, <2>3, <2>4
  <1>10. BuildInv'
    BY <1>1, <1>4 DEF BuildInv
  <1> QED BY <1>7, <1>8, <1>9, <1>10 DEF GatewayInv

\* Once every item is handled all positions are taken.
LEMMA AllTaken ==
    ASSUME GatewayInv, idx >= Size
    PROVE  seen = DOMAIN items /\ idx = Size
  <1>1. /\ items \in Bodies /\ idx \in Nat /\ idx <= Size
        /\ Cardinality(seen) = idx /\ seen \subseteq DOMAIN items
    BY DEF GatewayInv, GatewayTypeOK, SeenInv
  <1>2. IsFiniteSet(DOMAIN items) /\ Size \in Nat /\ Size = Cardinality(DOMAIN items)
    BY <1>1, BodyFacts DEF Size, Len0
  <1>3. idx = Size
    BY <1>1, <1>2
  <1> QED BY <1>1, <1>2, <1>3, FS_Subset

\* Steps that leave the loop's state alone.
LEMMA OtherStepsInv ==
    ASSUME GatewayInv, UNCHANGED <<items, idx, ops, seen>>, GatewayTypeOK',
           phase' = "build" => phase = "build" \/ idx >= Size
    PROVE  GatewayInv'
  <1>1. SeenInv' /\ PlacedInv'
    BY DEF GatewayInv, SeenInv, PlacedInv, Handled, Size, Translated
  <1>2. BuildInv'
    <2>1. phase = "build" => seen = DOMAIN items /\ idx = Size
      BY DEF GatewayInv, BuildInv
    <2> QED BY <2>1, AllTaken DEF BuildInv, Size
  <1> QED BY <1>1, <1>2 DEF GatewayInv

\* Every step of the front half of handleBatch preserves the invariant.
LEMMA GatewayStepInv == GatewayInv /\ [GatewayNext]_gatewayVars => GatewayInv'
  <1> SUFFICES ASSUME GatewayInv, [GatewayNext]_gatewayVars PROVE GatewayInv'
    OBVIOUS
  <1>1. CASE TranslateItem
    BY <1>1, TranslateItemInv
  <1>2. CASE DecodeFails \/ DecodeEmpty \/ DecodeItems \/ TranslateRefuse
    <2>1. UNCHANGED <<items, idx, ops, seen>> /\ phase' # "build" /\ GatewayTypeOK'
      BY <1>2 DEF DecodeFails, DecodeEmpty, DecodeItems, TranslateRefuse, Respond,
                  GatewayInv, GatewayTypeOK
    <2> QED BY <2>1, OtherStepsInv
  <1>3. CASE TranslateCheck
    <2>1. UNCHANGED <<items, idx, ops, seen>> /\ idx >= Size /\ GatewayTypeOK'
      BY <1>3 DEF TranslateCheck, Respond, GatewayInv, GatewayTypeOK
    <2> QED BY <2>1, OtherStepsInv
  <1>4. CASE GatewayDone \/ UNCHANGED gatewayVars
    <2>1. UNCHANGED <<items, idx, ops, seen, phase, status>>
      BY <1>4 DEF GatewayDone, gatewayVars
    <2>2. GatewayTypeOK'
      BY <2>1 DEF GatewayInv, GatewayTypeOK
    <2> QED BY <2>1, <2>2, OtherStepsInv
  <1> QED BY <1>1, <1>2, <1>3, <1>4 DEF GatewayNext

-----------------------------------------------------------------------------
\* The inductive invariant holds for every request.
THEOREM GatewayInvariant == GatewaySpec => []GatewayInv
  BY GatewayInitInv, GatewayStepInv, PTL DEF GatewaySpec

\* No index of the translation leaves the slices it is used on: seen and ops
\* are only ever written at positions of the body.
THEOREM GatewayTypeCorrect == GatewaySpec => []GatewayTypeOK
  <1>1. GatewayInv => GatewayTypeOK
    BY DEF GatewayInv
  <1> QED BY <1>1, GatewayInvariant, PTL

\* "missing seq_id" is never answered: the second loop of translateRequest
\* cannot find a gap.
THEOREM NoMissingSeqID == GatewaySpec => []MissingIsUnreachable
  <1>1. GatewayInv => MissingIsUnreachable
    BY AllTaken DEF MissingIsUnreachable
  <1> QED BY <1>1, GatewayInvariant, PTL

\* Every batch that reaches Build is one Build accepts.
THEOREM TranslationAccepted == GatewaySpec => []TranslatedIsAccepted
  <1>1. ASSUME GatewayInv PROVE TranslatedIsAccepted
    <2>1. SUFFICES ASSUME phase = "build", NEW i \in DOMAIN items
                   PROVE  ops[i] \in Operation /\ ops[i].SeqID = i /\ ops[i].Type # UnknownOp
      BY DEF TranslatedIsAccepted
    <2>2. PICK n \in Handled : i = items[n].SeqID
      BY <1>1, <2>1 DEF GatewayInv, BuildInv, SeenInv
    <2>3. ops[i] = Translated(items[n]) /\ items[n].RiderID # NoRider
          /\ parseOperationType(items[n].OperationType) # UnknownOp
      BY <1>1, <2>2 DEF GatewayInv, PlacedInv
    <2>4. items[n] \in BatchRequestItem
      BY <1>1, <2>1, <2>2, BodyFacts DEF GatewayInv, GatewayTypeOK, BuildInv, Handled
    <2> QED BY <2>2, <2>3, <2>4, ParsedType DEF Translated, Operation, BatchRequestItem
  <1> QED BY <1>1, GatewayInvariant, PTL

\* The operations handed to Build are the items of the body in seq_id order.
THEOREM TranslationPermutes == GatewaySpec => []TranslationIsPermutation
  <1>1. ASSUME GatewayInv PROVE TranslationIsPermutation
    <2>1. SUFFICES ASSUME phase = "build"
                   PROVE  /\ \A n \in DOMAIN items : ops[items[n].SeqID] = Translated(items[n])
                          /\ \A i \in DOMAIN items : \E n \in DOMAIN items : ops[i] = Translated(items[n])
      BY DEF TranslationIsPermutation
    <2>2. Handled = DOMAIN items /\ seen = DOMAIN items
      BY <1>1, <2>1, BodyFacts DEF GatewayInv, GatewayTypeOK, BuildInv, Handled
    <2>3. \A n \in DOMAIN items : ops[items[n].SeqID] = Translated(items[n])
      BY <1>1, <2>2 DEF GatewayInv, PlacedInv
    <2>4. \A i \in DOMAIN items : \E n \in DOMAIN items : i = items[n].SeqID
      BY <1>1, <2>2 DEF GatewayInv, SeenInv
    <2> QED BY <2>3, <2>4
  <1> QED BY <1>1, GatewayInvariant, PTL

\* Every body that is not refused is translated exactly: nothing is lost,
\* invented or misplaced, and Build accepts the result.
THEOREM TranslationExact == GatewaySpec => []TranslationIsExact
  BY TranslationAccepted, TranslationPermutes, PTL DEF TranslationIsExact

-----------------------------------------------------------------------------
\* The request that was sent last, and the items that have been executed.
Last == Len(requests)

Done == {"ok", "failed"}

SameRider(q, i, j) == pings[requests[q].items[i]] = pings[requests[q].items[j]]

\* A request has one state per item; once it is answered with 200 every item
\* has been executed.  Items of one rider are executed in order.
RequestsInv ==
    \A q \in DOMAIN requests :
      /\ DOMAIN requests[q].item = DOMAIN requests[q].items
      /\ requests[q].status = "200" =>
           \A i \in DOMAIN requests[q].items : requests[q].item[i] \in Done
      /\ \A i, j \in DOMAIN requests[q].items :
           (i < j /\ SameRider(q, i, j) /\ requests[q].item[j] # "queued")
             => requests[q].item[i] \in Done

\* The buffer is the end of the history: a ping leaves it together with all
\* the older ones.
BufferInv ==
    /\ Len(pending) <= Len(pings)
    /\ \A i \in DOMAIN pending : pending[i] = Len(pings) - Len(pending) + i

\* The client waits for the answer to what it has in the buffer, and an item
\* of the last request that is still to be executed is still in the buffer.
SentInv ==
    /\ waiting => /\ requests # << >>
                  /\ requests[Last].status # "error" => requests[Last].items = pending
    /\ (requests # << >> /\ Unsettled(Last)) => Range(requests[Last].items) \subseteq Range(pending)

\* Without overlap only the last request writes ...
OnlyLastInv == ~overlap => \A q \in DOMAIN requests : q # Last => ~Unsettled(q)

\* ... the row of a rider holds the last item that was written for it ...
LastWrittenInv ==
    (~overlap /\ requests # << >>) =>
      \A i \in DOMAIN requests[Last].items :
        (/\ requests[Last].item[i] = "ok"
         /\ \A j \in DOMAIN requests[Last].items :
              (i < j /\ SameRider(Last, i, j)) => requests[Last].item[j] \notin Done)
        => table[pings[requests[Last].items[i]]] = requests[Last].items[i]

\* ... and a rider with no ping in the buffer has its newest ping in its row.
ConfirmedInv ==
    ~overlap =>
      \A r \in Riders :
        (\A p \in DOMAIN pings : pings[p] = r => p \notin Range(pending)
                                                 /\ ~Has(p, "failed", {"200"}))
          => table[r] = Newest(r)

DispatcherInv ==
    /\ DispatcherTypeOK
    /\ RequestsInv
    /\ BufferInv
    /\ SentInv
    /\ DropsOnlyReported
    /\ OnlyLastInv
    /\ LastWrittenInv
    /\ ConfirmedInv

-----------------------------------------------------------------------------
\* The history, the buffer and the fields of a request, as typed.
LEMMA DispatcherFacts ==
    ASSUME DispatcherTypeOK
    PROVE  /\ Len(pings) \in Nat /\ DOMAIN pings = 1 .. Len(pings)
           /\ Len(pending) \in Nat /\ DOMAIN pending = 1 .. Len(pending)
           /\ Last \in Nat /\ DOMAIN requests = 1 .. Last
           /\ requests # << >> <=> Last > 0
           /\ \A q \in DOMAIN requests :
                /\ requests[q] \in Request
                /\ requests[q].items \in Seq(DOMAIN pings)
                /\ requests[q].item \in Seq(Item)
                /\ requests[q].ctx \in BOOLEAN
                /\ requests[q].status \in AnyStatus
           /\ \A p \in DOMAIN pings : pings[p] \in Riders
  <1>1. /\ pings \in Seq(Riders) /\ pending \in Seq(DOMAIN pings) /\ requests \in Seq(Request)
    BY DEF DispatcherTypeOK
  <1>2. \A q \in DOMAIN requests : requests[q] \in Request
    BY <1>1
  <1> QED BY <1>1, <1>2 DEF Request, Last, AnyStatus

\* A rider's newest ping is the largest number it has in the history.
LEMMA NewestIs ==
    ASSUME DispatcherTypeOK, NEW r, NEW p \in DOMAIN pings, pings[p] = r,
           \A o \in DOMAIN pings : pings[o] = r => o <= p
    PROVE  Newest(r) = p
  <1> DEFINE S == {o \in DOMAIN pings : pings[o] = r}
             max == CHOOSE x \in S : \A o \in S : o <= x
  <1>1. p \in S /\ \A o \in S : o <= p /\ o \in Nat
    BY DispatcherFacts
  <1>2. max \in S /\ \A o \in S : o <= max
    BY <1>1
  <1>3. max = p
    <2> HIDE DEF max
    <2> QED BY <1>1, <1>2
  <1> QED BY <1>1, <1>3 DEF Newest

\* What was done stays done: no step takes back an executed item or a 200.
Grows ==
    \A q \in DOMAIN requests :
      /\ q \in DOMAIN requests'
      /\ requests'[q].items = requests[q].items
      /\ \A i \in DOMAIN requests[q].items :
           requests[q].item[i] \in Done => requests'[q].item[i] = requests[q].item[i]
      /\ requests[q].status = "200" => requests'[q].status = "200"

\* So an answer that a ping has got is never lost.
LEMMA HasGrows ==
    ASSUME DispatcherTypeOK', Grows, NEW p
    PROVE  /\ Applied(p) => Applied(p)'
           /\ Has(p, "failed", {"200"}) => Has(p, "failed", {"200"})'
  <1>1. \A q \in DOMAIN requests' : requests'[q].status \in AnyStatus
    <2>1. requests' \in Seq(Request')
      BY DEF DispatcherTypeOK
    <2>2. \A q \in DOMAIN requests' : requests'[q] \in Request'
      BY <2>1
    <2> QED BY <2>2 DEF Request, AnyStatus
  <1>2. ASSUME Applied(p) PROVE Applied(p)'
    <2>1. PICK q \in DOMAIN requests : \E i \in DOMAIN requests[q].items :
             /\ requests[q].items[i] = p
             /\ requests[q].item[i] = "ok"
      BY <1>2 DEF Applied, Has
    <2>2. PICK i \in DOMAIN requests[q].items : requests[q].items[i] = p /\ requests[q].item[i] = "ok"
      BY <2>1
    <2>3. /\ q \in DOMAIN requests' /\ i \in DOMAIN requests'[q].items
          /\ requests'[q].items[i] = p /\ requests'[q].item[i] = "ok"
      BY <2>2 DEF Grows, Done
    <2> QED BY <2>3, <1>1 DEF Applied, Has, AnyStatus
  <1>3. ASSUME Has(p, "failed", {"200"}) PROVE Has(p, "failed", {"200"})'
    <2>1. PICK q \in DOMAIN requests : \E i \in DOMAIN requests[q].items :
             /\ requests[q].items[i] = p
             /\ requests[q].item[i] = "failed"
             /\ requests[q].status = "200"
      BY <1>3 DEF Has
    <2>2. PICK i \in DOMAIN requests[q].items :
             requests[q].items[i] = p /\ requests[q].item[i] = "failed" /\ requests[q].status = "200"
      BY <2>1
    <2>3. /\ q \in DOMAIN requests' /\ i \in DOMAIN requests'[q].items
          /\ requests'[q].items[i] = p /\ requests'[q].item[i] = "failed"
          /\ requests'[q].status = "200"
      BY <2>2 DEF Grows, Done
    <2> QED BY <2>3 DEF Has
  <1> QED BY <1>2, <1>3

\* Steps that leave the history and the buffer alone keep the two promises
\* about pings that have left it: no answer is lost, and the rows they write
\* are those of riders with a ping in the buffer.
LEMMA PromisesKept ==
    ASSUME DispatcherInv, DispatcherTypeOK', Grows, pings' = pings, pending' = pending,
           overlap => overlap',
           \A r \in Riders : (~overlap' /\ table'[r] # table[r])
              => \E p \in Range(pending) : p \in DOMAIN pings /\ pings[p] = r
    PROVE  DropsOnlyReported' /\ ConfirmedInv'
  <1>1. DropsOnlyReported'
    BY HasGrows DEF DispatcherInv, DropsOnlyReported
  <1>2. ConfirmedInv'
    <2> SUFFICES ASSUME ~overlap', NEW r \in Riders,
                        \A p \in DOMAIN pings : pings[p] = r => p \notin Range(pending)
                                                  /\ ~Has(p, "failed", {"200"})'
                 PROVE  table'[r] = Newest(r)
      <3>1. ~overlap' => \A r \in Riders :
               (\A p \in DOMAIN pings : pings[p] = r => p \notin Range(pending)
                                                  /\ ~Has(p, "failed", {"200"})')
                 => table'[r] = Newest(r)
        OBVIOUS
      <3>2. \A r : Newest(r)' = Newest(r)
        BY DEF Newest
      <3> QED BY <3>1, <3>2 DEF ConfirmedInv
    <2>1. \A p \in DOMAIN pings : pings[p] = r => p \notin Range(pending)
                                                  /\ ~Has(p, "failed", {"200"})
      BY HasGrows
    <2>2. table[r] = Newest(r)
      BY <2>1 DEF DispatcherInv, ConfirmedInv
    <2>3. table'[r] = table[r]
      BY <2>1
    <2> QED BY <2>2, <2>3
  <1> QED BY <1>1, <1>2

\* While no ping is added, a request is what it was.
LEMMA SameHistory == ASSUME pings' = pings PROVE Request' = Request
  BY DEF Request

\* SetItem changes the state of one item and nothing else.
LEMMA SetItemFacts ==
    ASSUME DispatcherTypeOK, RequestsInv, NEW q \in DOMAIN requests,
           NEW i \in DOMAIN requests[q].items, NEW to \in Item, SetItem(q, i, to)
    PROVE  /\ requests' \in Seq(Request)
           /\ Len(requests') = Len(requests)
           /\ DOMAIN requests' = DOMAIN requests
           /\ \A n \in DOMAIN requests : /\ requests'[n].items = requests[n].items
                                         /\ requests'[n].status = requests[n].status
                                         /\ DOMAIN requests'[n].item = DOMAIN requests[n].item
           /\ \A n \in DOMAIN requests : \A j \in DOMAIN requests[n].items :
                requests'[n].item[j] = IF n = q /\ j = i THEN to ELSE requests[n].item[j]
  <1> DEFINE R == requests[q]
             it == [R.item EXCEPT ![i] = to]
             R2 == [R EXCEPT !.item = it]
  <1>1. /\ R \in Request /\ R.items \in Seq(DOMAIN pings) /\ R.item \in Seq(Item)
        /\ DOMAIN R.item = DOMAIN R.items
    BY DispatcherFacts DEF RequestsInv
  <1>2. /\ it \in Seq(Item) /\ DOMAIN it = DOMAIN R.item
        /\ \A j \in DOMAIN R.items : it[j] = IF j = i THEN to ELSE R.item[j]
    BY <1>1
  <1>3. /\ R2 \in Request /\ R2.items = R.items /\ R2.status = R.status /\ R2.item = it
    <2> HIDE DEF it
    <2> QED BY <1>1, <1>2 DEF Request
  <1>4. requests' = [requests EXCEPT ![q] = R2]
    BY DEF SetItem
  <1> HIDE DEF R2, it
  <1>5. requests \in Seq(Request)
    BY DEF DispatcherTypeOK
  <1>6. /\ requests' \in Seq(Request)
        /\ Len(requests') = Len(requests)
        /\ DOMAIN requests' = DOMAIN requests
        /\ requests'[q] = R2
        /\ \A n \in DOMAIN requests : n # q => requests'[n] = requests[n]
    BY <1>3, <1>4, <1>5
  <1>7. ASSUME NEW n \in DOMAIN requests
        PROVE  /\ requests'[n].items = requests[n].items
               /\ requests'[n].status = requests[n].status
               /\ DOMAIN requests'[n].item = DOMAIN requests[n].item
               /\ \A j \in DOMAIN requests[n].items :
                    requests'[n].item[j] = IF n = q /\ j = i THEN to ELSE requests[n].item[j]
    <2>1. CASE n = q
      BY <2>1, <1>2, <1>3, <1>6
    <2>2. CASE n # q
      BY <2>2, <1>6
    <2> QED BY <2>1, <2>2
  <1> QED BY <1>6, <1>7

\* An item is taken or its call ends.  The items before it of the same rider
\* have been executed, those after it have not been taken, so the row gets the
\* last value written; and without overlap the item is still in the buffer.
LEMMA ItemStepInv ==
    ASSUME DispatcherInv, NEW q \in DOMAIN requests, NEW i \in DOMAIN requests[q].items,
           NEW to \in Item, SetItem(q, i, to),
           requests[q].item[i] \in {"queued", "calling"}, to # "queued",
           \A j \in DOMAIN requests[q].items : (j < i /\ SameRider(q, j, i))
              => requests[q].item[j] \in Done,
           table' \in {table, [table EXCEPT ![pings[requests[q].items[i]]] = requests[q].items[i]]},
           to = "calling" => table' = table,
           to = "ok" => table'[pings[requests[q].items[i]]] = requests[q].items[i],
           UNCHANGED <<pings, pending, waiting, overlap>>
    PROVE  DispatcherInv'
  <1> DEFINE p == requests[q].items[i]
  <1>1. /\ p \in DOMAIN pings /\ pings[p] \in Riders
        /\ DOMAIN requests[q].item = DOMAIN requests[q].items
        /\ requests[q].items \in Seq(DOMAIN pings)
        /\ table \in [Riders -> {0} \cup DOMAIN pings]
        /\ Unsettled(q) /\ requests[q].status # "200"
        /\ i \in Nat
    <2>1. /\ requests[q].items \in Seq(DOMAIN pings)
          /\ DOMAIN requests[q].item = DOMAIN requests[q].items
          /\ requests[q].status = "200" =>
               \A j \in DOMAIN requests[q].items : requests[q].item[j] \in Done
      BY DispatcherFacts DEF DispatcherInv, RequestsInv
    <2>2. p \in DOMAIN pings /\ i \in Nat
      BY <2>1
    <2>3. requests[q].status # "200"
      BY <2>1 DEF Done
    <2> QED BY <2>1, <2>2, <2>3, DispatcherFacts DEF DispatcherInv, DispatcherTypeOK, Unsettled
  <1>2. /\ requests' \in Seq(Request)
        /\ Last' = Last
        /\ DOMAIN requests' = DOMAIN requests
        /\ \A n \in DOMAIN requests : /\ requests'[n].items = requests[n].items
                                      /\ requests'[n].status = requests[n].status
                                      /\ DOMAIN requests'[n].item = DOMAIN requests[n].item
        /\ \A n \in DOMAIN requests : \A j \in DOMAIN requests[n].items :
             requests'[n].item[j] = IF n = q /\ j = i THEN to ELSE requests[n].item[j]
    BY SetItemFacts DEF DispatcherInv, Last
  <1>3. DispatcherTypeOK'
    BY <1>1, <1>2, SameHistory DEF DispatcherInv, DispatcherTypeOK
  <1>4. Grows
    BY <1>2 DEF Grows, Done
  <1>5. RequestsInv'
    <2> SUFFICES ASSUME NEW n \in DOMAIN requests
                 PROVE  /\ DOMAIN requests'[n].item = DOMAIN requests[n].items
                        /\ requests[n].status = "200" =>
                             \A j \in DOMAIN requests[n].items : requests'[n].item[j] \in Done
                        /\ \A j, k \in DOMAIN requests[n].items :
                             (j < k /\ SameRider(n, j, k) /\ requests'[n].item[k] # "queued")
                               => requests'[n].item[j] \in Done
      BY <1>2 DEF RequestsInv, SameRider
    <2>1. /\ DOMAIN requests[n].item = DOMAIN requests[n].items
          /\ requests[n].status = "200" =>
               \A j \in DOMAIN requests[n].items : requests[n].item[j] \in Done
          /\ \A j, k \in DOMAIN requests[n].items :
               (j < k /\ SameRider(n, j, k) /\ requests[n].item[k] # "queued")
                 => requests[n].item[j] \in Done
      BY DEF DispatcherInv, RequestsInv
    <2>2. CASE n # q
      BY <2>1, <2>2, <1>2
    <2>3. CASE n = q
      <3>1. ASSUME NEW j \in DOMAIN requests[q].items, NEW k \in DOMAIN requests[q].items,
                   j < k, SameRider(q, j, k), requests'[q].item[k] # "queued"
            PROVE  requests'[q].item[j] \in Done
        <4>0. j \in Nat /\ k \in Nat
          BY <1>1
        <4>1. CASE k = i
          BY <4>0, <4>1, <3>1, <1>2
        <4>2. CASE k # i
          <5>1. requests[q].item[j] \in Done
            BY <4>2, <3>1, <2>1, <2>3, <1>2
          <5>2. j # i
            BY <5>1 DEF Done
          <5> QED BY <5>1, <5>2, <1>2
        <4> QED BY <4>1, <4>2
      <3> QED BY <3>1, <2>1, <2>3, <1>1, <1>2
    <2> QED BY <2>2, <2>3
  <1>6. BufferInv'
    BY DEF DispatcherInv, BufferInv
  <1>7. \A n \in DOMAIN requests : Unsettled(n)' => Unsettled(n)
    <2> SUFFICES ASSUME NEW n \in DOMAIN requests, Unsettled(n)', n # q PROVE Unsettled(n)
      BY <1>1
    <2>1. DOMAIN requests[n].item = DOMAIN requests[n].items
      BY DEF DispatcherInv, RequestsInv
    <2> QED BY <2>1, <1>2 DEF Unsettled
  <1>8. SentInv'
    <2>1. requests' # << >> <=> requests # << >>
      BY <1>2, <1>3, DispatcherFacts DEF DispatcherInv, Last, DispatcherTypeOK
    <2>2. requests # << >> => Last \in DOMAIN requests
      BY DispatcherFacts DEF DispatcherInv
    <2>3. waiting => /\ requests # << >>
                     /\ requests[Last].status # "error" => requests[Last].items = pending
      BY DEF DispatcherInv, SentInv
    <2>4. (requests # << >> /\ Unsettled(Last)) => Range(requests[Last].items) \subseteq Range(pending)
      BY DEF DispatcherInv, SentInv
    <2>5. Unsettled(Last)' => (requests # << >> => Unsettled(Last))
      BY <2>2, <1>2, <1>7 DEF Unsettled
    <2> QED BY <2>1, <2>2, <2>3, <2>4, <2>5, <1>2 DEF SentInv
  <1>9. OnlyLastInv'
    <2>1. ~overlap => \A n \in DOMAIN requests : n # Last => ~Unsettled(n)
      BY DEF DispatcherInv, OnlyLastInv
    <2>2. \A n \in DOMAIN requests : ~Unsettled(n) => ~Unsettled(n)'
      BY <1>7
    <2> QED BY <2>1, <2>2, <1>2 DEF OnlyLastInv
  <1>10. ~overlap => q = Last /\ requests # << >> /\ p \in Range(pending)
    <2>1. SUFFICES ASSUME ~overlap PROVE q = Last /\ requests # << >> /\ p \in Range(pending)
      OBVIOUS
    <2>2. q = Last
      BY <1>1, <2>1 DEF DispatcherInv, OnlyLastInv
    <2>3. requests # << >>
      OBVIOUS
    <2>4. p \in Range(requests[q].items)
      BY DEF Range
    <2> QED BY <2>2, <2>3, <2>4, <1>1 DEF DispatcherInv, SentInv
  <1>11. DropsOnlyReported' /\ ConfirmedInv'
    <2>1. \A r \in Riders : table'[r] # table[r] => r = pings[p]
      BY <1>1
    <2> QED BY <2>1, <1>1, <1>3, <1>4, <1>10, PromisesKept
  <1>12. LastWrittenInv'
    <2> SUFFICES ASSUME ~overlap, NEW k \in DOMAIN requests[q].items,
                        requests'[q].item[k] = "ok",
                        \A j \in DOMAIN requests[q].items :
                          (k < j /\ SameRider(q, k, j)) => requests'[q].item[j] \notin Done
                 PROVE  table'[pings[requests[q].items[k]]] = requests[q].items[k]
      BY <1>2, <1>10 DEF LastWrittenInv, SameRider
    <2>0. k \in Nat /\ requests[q].items[k] \in DOMAIN pings
      BY <1>1
    <2>1. CASE k = i
      <3>1. to = "ok"
        BY <2>1, <1>2
      <3> QED BY <2>1, <3>1, <1>1
    <2>2. CASE k # i
      <3>1. requests[q].item[k] = "ok"
        BY <2>2, <1>2
      <3>2. ~(i < k /\ SameRider(q, i, k))
        <4>1. (i < k /\ SameRider(q, i, k)) => requests[q].item[i] \in Done
          BY <3>1 DEF DispatcherInv, RequestsInv
        <4> QED BY <4>1 DEF Done
      <3>3. \A j \in DOMAIN requests[q].items :
              (k < j /\ SameRider(q, k, j)) => requests[q].item[j] \notin Done
        BY <1>2 DEF Done
      <3>4. table[pings[requests[q].items[k]]] = requests[q].items[k]
        BY <3>1, <3>3, <1>10 DEF DispatcherInv, LastWrittenInv
      <3>5. CASE SameRider(q, k, i)
        <4>1. k < i
          BY <2>0, <2>2, <3>2, <3>5, <1>1 DEF SameRider
        <4>2. to \notin Done
          BY <4>1, <3>5, <1>2
        <4>3. to = "calling"
          BY <4>2 DEF Item, Done
        <4> QED BY <4>3, <3>4
      <3>6. CASE ~SameRider(q, k, i)
        <4>1. pings[requests[q].items[k]] \in Riders /\ pings[requests[q].items[k]] # pings[p]
          BY <3>6, <2>0, DispatcherFacts DEF DispatcherInv, SameRider
        <4>2. table'[pings[requests[q].items[k]]] = table[pings[requests[q].items[k]]]
          BY <4>1, <1>1
        <4> QED BY <3>4, <4>2
      <3> QED BY <3>5, <3>6
    <2> QED BY <2>1, <2>2
  <1> QED BY <1>3, <1>5, <1>6, <1>8, <1>9, <1>11, <1>12 DEF DispatcherInv

\* The three gateway steps on items.
LEMMA ItemsInv ==
    ASSUME DispatcherInv, NEW q \in DOMAIN requests, NEW i \in DOMAIN requests[q].items,
           ItemStart(q, i) \/ ItemWritten(q, i) \/ ItemFailed(q, i)
    PROVE  DispatcherInv'
  <1> DEFINE p == requests[q].items[i]
  <1>1. /\ requests[q].items \in Seq(DOMAIN pings)
        /\ DOMAIN requests[q].items = 1 .. Len(requests[q].items)
        /\ Len(requests[q].items) \in Nat
        /\ i \in Nat /\ p \in DOMAIN pings /\ pings[p] \in Riders
        /\ table \in [Riders -> {0} \cup DOMAIN pings]
    <2>1. requests[q].items \in Seq(DOMAIN pings)
      BY DispatcherFacts DEF DispatcherInv
    <2>2. p \in DOMAIN pings
      BY <2>1
    <2> QED BY <2>1, <2>2, DispatcherFacts DEF DispatcherInv, DispatcherTypeOK
  <1>2. CASE ItemStart(q, i)
    <2> DEFINE to == IF requests[q].ctx THEN "calling" ELSE "failed"
    <2>1. \A j \in DOMAIN requests[q].items : (j < i /\ SameRider(q, j, i))
             => requests[q].item[j] \in Done
      <3>1. \A j \in DOMAIN requests[q].items : j < i => j \in 1 .. (i - 1)
        BY <1>1
      <3> QED BY <3>1, <1>2 DEF ItemStart, ItemReady, SameRider, Done
    <2>2. to \in Item /\ to # "queued" /\ to # "ok"
      BY DEF Item
    <2>3. /\ SetItem(q, i, to) /\ requests[q].item[i] = "queued" /\ table' = table
          /\ UNCHANGED <<pings, pending, waiting, overlap>>
      BY <1>2 DEF ItemStart, ItemReady
    <2> HIDE DEF to
    <2> QED BY <2>1, <2>2, <2>3, ItemStepInv
  <1>3. CASE ItemWritten(q, i) \/ ItemFailed(q, i)
    <2>1. \A j \in DOMAIN requests[q].items : (j < i /\ SameRider(q, j, i))
             => requests[q].item[j] \in Done
      <3>1. requests[q].item[i] = "calling"
        BY <1>3 DEF ItemWritten, ItemFailed
      <3> QED BY <3>1 DEF DispatcherInv, RequestsInv
    <2>2. CASE ItemWritten(q, i)
      <3>1. /\ SetItem(q, i, "ok") /\ requests[q].item[i] = "calling"
            /\ table' = [table EXCEPT ![pings[p]] = p]
            /\ UNCHANGED <<pings, pending, waiting, overlap>>
        BY <2>2 DEF ItemWritten
      <3>2. table'[pings[p]] = p /\ "ok" \in Item
        BY <3>1, <1>1 DEF Item
      <3> QED BY <2>1, <3>1, <3>2, ItemStepInv
    <2>3. CASE ItemFailed(q, i)
      <3>1. /\ SetItem(q, i, "failed") /\ requests[q].item[i] = "calling"
            /\ table' \in {table, [table EXCEPT ![pings[p]] = p]}
            /\ UNCHANGED <<pings, pending, waiting, overlap>>
            /\ "failed" \in Item
        BY <2>3 DEF ItemFailed, Item
      <3> QED BY <2>1, <3>1, ItemStepInv
    <2> QED BY <1>3, <2>2, <2>3
  <1> QED BY <1>2, <1>3

\* The context of a request ends, or the request is answered: no item changes,
\* and the answer is 200 only when all of them have been executed.
LEMMA AnswerInv ==
    ASSUME DispatcherInv, NEW q \in DOMAIN requests,
           ContextEnds(q) \/ Respond200(q) \/ RespondError(q)
    PROVE  DispatcherInv'
  <1>0. /\ requests \in Seq(Request) /\ requests[q] \in Request
        /\ requests[q].status = "running"
        /\ UNCHANGED <<pings, pending, waiting, table, overlap>>
    BY DispatcherFacts DEF DispatcherInv, DispatcherTypeOK, ContextEnds, Respond200, RespondError
  <1>1. PICK R \in Request : /\ requests' = [requests EXCEPT ![q] = R]
                             /\ R.items = requests[q].items /\ R.item = requests[q].item
                             /\ R.status = "200" => ~Unsettled(q)
    <2>1. CASE ContextEnds(q)
      <3> DEFINE R == [requests[q] EXCEPT !.ctx = FALSE]
      <3>1. /\ R \in Request /\ R.items = requests[q].items /\ R.item = requests[q].item
            /\ R.status = "running"
        BY <1>0 DEF Request
      <3>2. requests' = [requests EXCEPT ![q] = R]
        BY <2>1 DEF ContextEnds
      <3> HIDE DEF R
      <3> QED BY <3>1, <3>2
    <2>2. CASE Respond200(q)
      <3> DEFINE R == [requests[q] EXCEPT !.status = "200", !.ctx = FALSE]
      <3>1. /\ R \in Request /\ R.items = requests[q].items /\ R.item = requests[q].item
        BY <1>0 DEF Request
      <3>2. requests' = [requests EXCEPT ![q] = R] /\ ~Unsettled(q)
        BY <2>2, <1>0 DEF Respond200
      <3> HIDE DEF R
      <3> QED BY <3>1, <3>2
    <2>3. CASE RespondError(q)
      <3> DEFINE R == [requests[q] EXCEPT !.status = "error"]
      <3>1. /\ R \in Request /\ R.items = requests[q].items /\ R.item = requests[q].item
            /\ R.status = "error"
        BY <1>0 DEF Request
      <3>2. requests' = [requests EXCEPT ![q] = R]
        BY <2>3 DEF RespondError
      <3> HIDE DEF R
      <3> QED BY <3>1, <3>2
    <2> QED BY <2>1, <2>2, <2>3
  <1>2. /\ requests' \in Seq(Request)
        /\ Last' = Last
        /\ DOMAIN requests' = DOMAIN requests
        /\ \A n \in DOMAIN requests : /\ requests'[n].items = requests[n].items
                                      /\ requests'[n].item = requests[n].item
                                      /\ n # q => requests'[n] = requests[n]
        /\ requests'[q].status = "200" => ~Unsettled(q)
    BY <1>0, <1>1 DEF Last
  <1>3. DispatcherTypeOK'
    BY <1>0, <1>2, SameHistory DEF DispatcherInv, DispatcherTypeOK
  <1>4. Grows
    <2>1. \A n \in DOMAIN requests : requests[n].status = "200" => requests'[n].status = "200"
      BY <1>0, <1>2
    <2> QED BY <2>1, <1>2 DEF Grows
  <1>5. \A n \in DOMAIN requests : Unsettled(n)' <=> Unsettled(n)
    BY <1>2 DEF Unsettled
  <1>6. RequestsInv'
    <2> SUFFICES ASSUME NEW n \in DOMAIN requests
                 PROVE  /\ DOMAIN requests[n].item = DOMAIN requests[n].items
                        /\ requests'[n].status = "200" =>
                             \A j \in DOMAIN requests[n].items : requests[n].item[j] \in Done
                        /\ \A j, k \in DOMAIN requests[n].items :
                             (j < k /\ SameRider(n, j, k) /\ requests[n].item[k] # "queued")
                               => requests[n].item[j] \in Done
      BY <1>0, <1>2 DEF RequestsInv, SameRider
    <2>1. /\ DOMAIN requests[n].item = DOMAIN requests[n].items
          /\ requests[n].status = "200" =>
               \A j \in DOMAIN requests[n].items : requests[n].item[j] \in Done
          /\ \A j, k \in DOMAIN requests[n].items :
               (j < k /\ SameRider(n, j, k) /\ requests[n].item[k] # "queued")
                 => requests[n].item[j] \in Done
      BY DEF DispatcherInv, RequestsInv
    <2>2. requests'[n].status = "200" =>
            \A j \in DOMAIN requests[n].items : requests[n].item[j] \in Done
      <3>1. CASE n # q
        BY <3>1, <2>1, <1>2
      <3>2. CASE n = q
        <4>1. \A j \in DOMAIN requests[n].item : requests[n].item[j] \in Item
          BY DispatcherFacts DEF DispatcherInv
        <4> QED BY <4>1, <3>2, <2>1, <1>2 DEF Unsettled, Item, Done
      <3> QED BY <3>1, <3>2
    <2> QED BY <2>1, <2>2
  <1>7. BufferInv'
    BY <1>0 DEF DispatcherInv, BufferInv
  <1>8. requests # << >> /\ requests' # << >> /\ Last \in DOMAIN requests
    BY <1>2, DispatcherFacts DEF DispatcherInv
  <1>9. SentInv'
    <2>1. requests'[Last].status # "error" => requests[Last].status # "error"
      BY <1>0, <1>2, <1>8
    <2>2. /\ waiting => (requests[Last].status # "error" => requests[Last].items = pending)
          /\ Unsettled(Last) => Range(requests[Last].items) \subseteq Range(pending)
      BY <1>8 DEF DispatcherInv, SentInv
    <2>3. Unsettled(Last)' => Unsettled(Last)
      BY <1>2, <1>8 DEF Unsettled
    <2> QED BY <2>1, <2>2, <2>3, <1>0, <1>2, <1>8 DEF SentInv
  <1>10. OnlyLastInv'
    <2>1. ~overlap => \A n \in DOMAIN requests : n # Last => ~Unsettled(n)
      BY DEF DispatcherInv, OnlyLastInv
    <2> QED BY <2>1, <1>0, <1>2, <1>5 DEF OnlyLastInv
  <1>11. LastWrittenInv'
    BY <1>0, <1>2, <1>8 DEF DispatcherInv, LastWrittenInv, SameRider
  <1>12. DropsOnlyReported' /\ ConfirmedInv'
    BY <1>0, <1>3, <1>4, PromisesKept
  <1> QED BY <1>3, <1>6, <1>7, <1>9, <1>10, <1>11, <1>12 DEF DispatcherInv

\* A new ping goes to the end of the history and of the buffer.
LEMMA addRiderUpdateInv ==
    ASSUME DispatcherInv, NEW r \in Riders, addRiderUpdate(r)
    PROVE  DispatcherInv'
  <1> DEFINE new == Len(pings) + 1
  <1>0. /\ pings \in Seq(Riders) /\ Len(pings) \in Nat /\ DOMAIN pings = 1 .. Len(pings)
        /\ pending \in Seq(DOMAIN pings) /\ Len(pending) \in Nat
        /\ DOMAIN pending = 1 .. Len(pending)
        /\ pings' = Append(pings, r) /\ pending' = Append(pending, new)
        /\ waiting = FALSE
        /\ UNCHANGED <<waiting, requests, table, overlap>>
    BY DispatcherFacts DEF DispatcherInv, DispatcherTypeOK, addRiderUpdate
  <1>1. /\ pings' \in Seq(Riders) /\ Len(pings') = new /\ DOMAIN pings' = 1 .. new
        /\ \A p \in DOMAIN pings : p \in DOMAIN pings' /\ pings'[p] = pings[p]
        /\ pings'[new] = r /\ new \in DOMAIN pings' /\ new \notin DOMAIN pings
        /\ DOMAIN pings' = DOMAIN pings \cup {new}
    BY <1>0
  <1> HIDE DEF new
  <1>2. \A q : q \in Seq(DOMAIN pings) => q \in Seq(DOMAIN pings')
    BY <1>1
  <1>3. /\ pending' \in Seq(DOMAIN pings') /\ Len(pending') = Len(pending) + 1
        /\ DOMAIN pending' = 1 .. (Len(pending) + 1)
        /\ \A i \in DOMAIN pending : pending'[i] = pending[i]
        /\ pending'[Len(pending) + 1] = new
    <2>1. pending \in Seq(DOMAIN pings')
      BY <1>0, <1>2
    <2> QED BY <2>1, <1>0, <1>1
  <1>4. Range(pending) \subseteq Range(pending') /\ new \in Range(pending')
    <2>1. \A i \in DOMAIN pending : i \in DOMAIN pending' /\ pending'[i] = pending[i]
      BY <1>0, <1>3
    <2>2. Len(pending) + 1 \in DOMAIN pending'
      BY <1>0, <1>3
    <2> QED BY <2>1, <2>2, <1>3 DEF Range
  <1>5. DispatcherTypeOK'
    <2>1. ASSUME NEW R \in Request PROVE R \in Request'
      BY <2>1, <1>2 DEF Request
    <2>2. requests \in Seq(Request)
      BY DEF DispatcherInv, DispatcherTypeOK
    <2>3. requests' \in Seq(Request')
      BY <1>0, <2>1, <2>2
    <2> QED BY <1>0, <1>1, <1>3, <2>3 DEF DispatcherInv, DispatcherTypeOK
  <1>6. ASSUME NEW q \in DOMAIN requests, NEW i \in DOMAIN requests[q].items
        PROVE  requests[q].items[i] \in DOMAIN pings
    <2>1. requests[q].items \in Seq(DOMAIN pings)
      BY DispatcherFacts DEF DispatcherInv
    <2> QED BY <2>1
  <1>7. \A q \in DOMAIN requests : \A i, j \in DOMAIN requests[q].items :
           SameRider(q, i, j)' <=> SameRider(q, i, j)
    BY <1>0, <1>1, <1>6 DEF SameRider
  <1>8. RequestsInv'
    BY <1>0, <1>2, <1>7 DEF DispatcherInv, RequestsInv
  <1>9. BufferInv'
    <2>1. /\ Len(pending) <= Len(pings)
          /\ \A i \in DOMAIN pending : pending[i] = Len(pings) - Len(pending) + i
      BY DEF DispatcherInv, BufferInv
    <2>2. \A i \in DOMAIN pending' : pending'[i] = Len(pings) - Len(pending) + i
      BY <2>1, <1>0, <1>3 DEF new
    <2> QED BY <2>1, <2>2, <1>0, <1>1, <1>3 DEF BufferInv, new
  <1>10. SentInv'
    BY <1>0, <1>4 DEF DispatcherInv, SentInv, Unsettled, Last
  <1>11. OnlyLastInv'
    BY <1>0 DEF DispatcherInv, OnlyLastInv, Unsettled, Last
  <1>12. LastWrittenInv'
    <2> SUFFICES ASSUME ~overlap, requests # << >>, NEW i \in DOMAIN requests[Last].items,
                        requests[Last].item[i] = "ok",
                        \A j \in DOMAIN requests[Last].items :
                          (i < j /\ pings'[requests[Last].items[i]] = pings'[requests[Last].items[j]])
                             => requests[Last].item[j] \notin Done
                 PROVE  table[pings'[requests[Last].items[i]]] = requests[Last].items[i]
      BY <1>0 DEF LastWrittenInv, SameRider, Last
    <2>1. Last \in DOMAIN requests
      BY DispatcherFacts DEF DispatcherInv
    <2>2. table[pings[requests[Last].items[i]]] = requests[Last].items[i]
      BY <2>1, <1>1, <1>6 DEF DispatcherInv, LastWrittenInv, SameRider
    <2> QED BY <2>1, <2>2, <1>1, <1>6
  <1>13. \A p, st, ss : Has(p, st, ss)' <=> Has(p, st, ss)
    BY <1>0 DEF Has
  <1>14. DropsOnlyReported'
    <2>1. \A p : Applied(p)' <=> Applied(p)
      BY <1>13 DEF Applied, AnyStatus
    <2> QED BY <2>1, <1>1, <1>4, <1>13 DEF DispatcherInv, DropsOnlyReported
  <1>15. ConfirmedInv'
    <2> SUFFICES ASSUME ~overlap, NEW s \in Riders,
                        \A p \in DOMAIN pings' : pings'[p] = s =>
                           p \notin Range(pending') /\ ~Has(p, "failed", {"200"})
                 PROVE  table[s] = Newest(s)'
      BY <1>0, <1>13 DEF ConfirmedInv
    <2>1. s # r
      BY <1>1, <1>4
    <2>2. {p \in DOMAIN pings' : pings'[p] = s} = {p \in DOMAIN pings : pings[p] = s}
      BY <2>1, <1>1
    <2>3. Newest(s)' = Newest(s)
      <3> DEFINE max(S) == IF S = {} THEN 0 ELSE CHOOSE p \in S : \A o \in S : o <= p
      <3>1. /\ Newest(s) = max({p \in DOMAIN pings : pings[p] = s})
            /\ Newest(s)' = max({p \in DOMAIN pings' : pings'[p] = s})
        BY DEF Newest
      <3> HIDE DEF max
      <3> QED BY <2>2, <3>1
    <2>4. \A p \in DOMAIN pings : pings[p] = s => p \notin Range(pending) /\ ~Has(p, "failed", {"200"})
      BY <1>1, <1>4
    <2>5. table[s] = Newest(s)
      BY <2>4 DEF DispatcherInv, ConfirmedInv
    <2> QED BY <2>3, <2>5
  <1> QED BY <1>5, <1>8, <1>9, <1>10, <1>11, <1>12, <1>14, <1>15 DEF DispatcherInv

\* The buffer is sent: the new request has no executed item, and overlap
\* records whether an older one still has items to execute.
LEMMA dispatchBatchInv == ASSUME DispatcherInv, dispatchBatch PROVE DispatcherInv'
  <1>0. /\ requests \in Seq(Request) /\ Last \in Nat /\ DOMAIN requests = 1 .. Last
        /\ pending \in Seq(DOMAIN pings) /\ DOMAIN pending = 1 .. Len(pending)
        /\ Len(pending) \in Nat /\ overlap \in BOOLEAN
        /\ \A p \in DOMAIN pings : p \in Nat
        /\ UNCHANGED <<pings, pending, table>>
        /\ overlap' = (overlap \/ \E q \in DOMAIN requests : Unsettled(q))
    BY DispatcherFacts DEF DispatcherInv, DispatcherTypeOK, dispatchBatch
  <1>1. PICK R \in Request :
           /\ requests' = Append(requests, R)
           /\ R.items \in Seq(DOMAIN pings) /\ DOMAIN R.item = DOMAIN R.items
           /\ R.status # "200" /\ (R.status # "error" => R.items = pending)
           /\ \A i \in DOMAIN R.items : R.item[i] = "queued"
           /\ Range(R.items) \subseteq Range(pending)
    <2>1. CASE Len(pending) > BodyLimit
      <3> DEFINE R == [items |-> << >>, item |-> << >>, ctx |-> FALSE, status |-> "error"]
      <3>1. R \in Request /\ Range(R.items) = {}
        BY DEF Request, Range
      <3>2. /\ R.items \in Seq(DOMAIN pings) /\ DOMAIN R.items = {} /\ DOMAIN R.item = {}
            /\ R.status = "error"
        OBVIOUS
      <3>3. requests' = Append(requests, R)
        BY <2>1 DEF dispatchBatch
      <3> HIDE DEF R
      <3> QED BY <3>1, <3>2, <3>3
    <2>2. CASE ~(Len(pending) > BodyLimit)
      <3> DEFINE it == [i \in DOMAIN pending |-> "queued"]
                 R == [items |-> pending, item |-> it, ctx |-> TRUE, status |-> "running"]
      <3>1. it \in Seq(Item) /\ DOMAIN it = DOMAIN pending /\ \A i \in DOMAIN pending : it[i] = "queued"
        BY <1>0 DEF Item
      <3>2. pending \in Seq(DOMAIN pings)
        BY <1>0
      <3>3. requests' = Append(requests, R)
        BY <2>2 DEF dispatchBatch
      <3> HIDE DEF it
      <3>4. /\ R \in Request /\ R.items = pending /\ R.item = it /\ R.status = "running"
        BY <3>1, <3>2 DEF Request
      <3> HIDE DEF R
      <3> QED BY <3>1, <3>3, <3>4, <1>0
    <2> QED BY <2>1, <2>2
  <1>2. /\ requests' \in Seq(Request) /\ Last' = Last + 1
        /\ DOMAIN requests' = 1 .. (Last + 1)
        /\ \A q \in DOMAIN requests : requests'[q] = requests[q] /\ q # Last'
        /\ requests'[Last + 1] = R
    BY <1>0, <1>1 DEF Last
  <1>3. DispatcherTypeOK'
    <2>1. waiting' \in BOOLEAN /\ overlap' \in BOOLEAN
      BY <1>0 DEF dispatchBatch
    <2> QED BY <2>1, <1>0, <1>2, SameHistory DEF DispatcherInv, DispatcherTypeOK
  <1>4. Grows
    BY <1>0, <1>2 DEF Grows
  <1>5. RequestsInv'
    <2> SUFFICES ASSUME NEW q \in DOMAIN requests'
                 PROVE  /\ DOMAIN requests'[q].item = DOMAIN requests'[q].items
                        /\ requests'[q].status = "200" =>
                             \A i \in DOMAIN requests'[q].items : requests'[q].item[i] \in Done
                        /\ \A i, j \in DOMAIN requests'[q].items :
                             (i < j /\ SameRider(q, i, j)' /\ requests'[q].item[j] # "queued")
                               => requests'[q].item[i] \in Done
      BY <1>0 DEF RequestsInv
    <2>1. CASE q \in DOMAIN requests
      BY <2>1, <1>0, <1>2 DEF DispatcherInv, RequestsInv, SameRider
    <2>2. CASE q = Last + 1
      BY <2>2, <1>1, <1>2
    <2> QED BY <2>1, <2>2, <1>0, <1>2
  <1>6. BufferInv'
    BY <1>0 DEF DispatcherInv, BufferInv
  <1>7. SentInv'
    <2>1. requests' # << >>
      BY <1>0, <1>2
    <2> QED BY <2>1, <1>0, <1>1, <1>2 DEF SentInv
  <1>8. OnlyLastInv'
    <2>1. ~overlap' => \A q \in DOMAIN requests : ~Unsettled(q)
      BY <1>0
    <2>2. \A q \in DOMAIN requests : Unsettled(q)' <=> Unsettled(q)
      BY <1>2 DEF Unsettled
    <2>3. \A q \in DOMAIN requests' : q # Last' => q \in DOMAIN requests
      BY <1>0, <1>2
    <2> QED BY <2>1, <2>2, <2>3 DEF OnlyLastInv
  <1>9. LastWrittenInv'
    BY <1>1, <1>2 DEF LastWrittenInv
  <1>10. DropsOnlyReported' /\ ConfirmedInv'
    BY <1>0, <1>3, <1>4, PromisesKept
  <1> QED BY <1>3, <1>5, <1>6, <1>7, <1>8, <1>9, <1>10 DEF DispatcherInv

\* Nothing of the state but waiting changes when a dispatch fails.
LEMMA DispatchFailedInv == ASSUME DispatcherInv, DispatchFailed PROVE DispatcherInv'
  <1>0. waiting' = FALSE /\ UNCHANGED <<pings, pending, requests, table, overlap>>
    BY DEF DispatchFailed
  <1>1. DispatcherTypeOK'
    BY <1>0, SameHistory DEF DispatcherInv, DispatcherTypeOK
  <1>2. Grows
    BY <1>0 DEF Grows
  <1>3. DropsOnlyReported' /\ ConfirmedInv'
    BY <1>0, <1>1, <1>2, PromisesKept
  <1>4. RequestsInv' /\ BufferInv' /\ OnlyLastInv' /\ LastWrittenInv'
    BY <1>0 DEF DispatcherInv, RequestsInv, SameRider, BufferInv, OnlyLastInv, LastWrittenInv,
                Unsettled, Last
  <1>5. SentInv'
    BY <1>0 DEF DispatcherInv, SentInv, Unsettled, Last
  <1> QED BY <1>1, <1>3, <1>4, <1>5 DEF DispatcherInv

\* A 200 clears the buffer.  The request it answers carried the whole buffer
\* and has executed all of it: each ping in it was written or has its error in
\* the answer, and the last item of each rider is the one in its row.
LEMMA DispatchConfirmedInv == ASSUME DispatcherInv, DispatchConfirmed PROVE DispatcherInv'
  <1>0. /\ waiting' = FALSE /\ pending' = << >>
        /\ UNCHANGED <<pings, requests, table, overlap>>
        /\ waiting /\ requests[Last].status = "200"
    BY DEF DispatchConfirmed, Answer, Last
  <1>1. /\ requests # << >> /\ Last \in DOMAIN requests
        /\ requests[Last].items = pending
        /\ \A i \in DOMAIN pending : requests[Last].item[i] \in Done
        /\ DOMAIN requests[Last].item = DOMAIN pending
        /\ Len(pings) \in Nat /\ DOMAIN pings = 1 .. Len(pings)
        /\ Len(pending) \in Nat /\ DOMAIN pending = 1 .. Len(pending)
    <2>1. requests # << >> /\ requests[Last].items = pending
      BY <1>0 DEF DispatcherInv, SentInv
    <2>2. Last \in DOMAIN requests
      BY <2>1, DispatcherFacts DEF DispatcherInv
    <2> QED BY <2>1, <2>2, <1>0, DispatcherFacts DEF DispatcherInv, RequestsInv
  <1>2. /\ Range(pending') = {} /\ Len(pending') = 0 /\ DOMAIN pending' = {}
        /\ pending' \in Seq(DOMAIN pings')
    BY <1>0 DEF Range
  <1>3. DispatcherTypeOK'
    BY <1>0, <1>2, SameHistory DEF DispatcherInv, DispatcherTypeOK
  <1>4. RequestsInv' /\ OnlyLastInv' /\ LastWrittenInv'
    BY <1>0 DEF DispatcherInv, RequestsInv, SameRider, OnlyLastInv, LastWrittenInv, Unsettled, Last
  <1>5. BufferInv'
    BY <1>0, <1>1, <1>2 DEF BufferInv
  <1>6. ~Unsettled(Last)'
    <2>1. ~Unsettled(Last)
      BY <1>1 DEF Unsettled, Done
    <2> QED BY <2>1, <1>0 DEF Unsettled, Last
  <1>7. SentInv'
    BY <1>0, <1>6 DEF SentInv
  <1>8. \A p, st, ss : Has(p, st, ss)' <=> Has(p, st, ss)
    BY <1>0 DEF Has
  <1>9. DropsOnlyReported'
    <2>1. ASSUME NEW p \in Range(pending) PROVE Applied(p) \/ Has(p, "failed", {"200"})
      <3>1. PICK i \in DOMAIN pending : pending[i] = p
        BY DEF Range
      <3>2. requests[Last].item[i] = "ok" \/ requests[Last].item[i] = "failed"
        BY <1>1 DEF Done
      <3> QED BY <3>1, <3>2, <1>0, <1>1 DEF Applied, Has, AnyStatus
    <2>2. \A p \in DOMAIN pings : Applied(p) \/ Has(p, "failed", {"200"})
      BY <2>1 DEF DispatcherInv, DropsOnlyReported
    <2>3. \A p : Applied(p)' <=> Applied(p)
      BY <1>8 DEF Applied, AnyStatus
    <2> QED BY <2>2, <2>3, <1>0, <1>8 DEF DropsOnlyReported
  <1>10. ConfirmedInv'
    <2> SUFFICES ASSUME ~overlap, NEW r \in Riders,
                        \A p \in DOMAIN pings : pings[p] = r => ~Has(p, "failed", {"200"})
                 PROVE  table[r] = Newest(r)
      <3>1. \A r : Newest(r)' = Newest(r)
        BY <1>0 DEF Newest
      <3> QED BY <3>1, <1>0, <1>8 DEF ConfirmedInv
    <2>1. CASE \A p \in DOMAIN pings : pings[p] = r => p \notin Range(pending)
      BY <2>1 DEF DispatcherInv, ConfirmedInv
    <2>2. CASE \E p \in DOMAIN pings : pings[p] = r /\ p \in Range(pending)
      <3> DEFINE S == {p \in DOMAIN pings : pings[p] = r}
      <3>0. \A i \in DOMAIN pending : pending[i] \in DOMAIN pings
        BY DEF DispatcherInv, DispatcherTypeOK
      <3>1. PICK top \in S : \A p \in S : p <= top
        <4>1. S \in SUBSET (1 .. Len(pings)) /\ S # {}
          BY <2>2, <1>1
        <4> HIDE DEF S
        <4> QED BY <4>1, <1>1, GreatestNatural
      <3>2. Newest(r) = top
        BY <3>1, NewestIs DEF DispatcherInv
      <3>3. /\ Len(pending) <= Len(pings)
            /\ \A i \in DOMAIN pending : pending[i] = Len(pings) - Len(pending) + i
        BY DEF DispatcherInv, BufferInv
      <3>4. PICK i \in DOMAIN pending : pending[i] = top
        <4>1. PICK p \in S, h \in DOMAIN pending : pending[h] = p
          BY <2>2 DEF Range
        <4>2. p <= top /\ top <= Len(pings) /\ top \in Nat
          BY <3>1, <1>1
        <4> DEFINE i == top - (Len(pings) - Len(pending))
        <4>3. i \in DOMAIN pending /\ pending[i] = top
          BY <4>1, <4>2, <3>3, <1>1
        <4> QED BY <4>3
      <3>5. requests[Last].item[i] = "ok"
        <4>1. ~Has(top, "failed", {"200"})
          BY <3>1
        <4> QED BY <4>1, <3>4, <1>0, <1>1 DEF Has, Done
      <3>6. ASSUME NEW j \in DOMAIN pending, i < j PROVE ~SameRider(Last, i, j)
        <4>1. pending[j] > top
          BY <3>3, <3>4, <3>6, <1>1
        <4>2. top \in Nat /\ pending[j] \in Nat
          BY <3>0, <3>1, <1>1
        <4>3. pending[j] \notin S
          BY <4>1, <4>2, <3>1
        <4> QED BY <4>3, <3>0, <3>1, <3>4, <1>1 DEF SameRider
      <3>7. table[pings[pending[i]]] = pending[i]
        BY <3>5, <3>6, <1>1 DEF DispatcherInv, LastWrittenInv
      <3> QED BY <3>1, <3>2, <3>4, <3>7
    <2> QED BY <2>1, <2>2
  <1> QED BY <1>3, <1>4, <1>5, <1>7, <1>9, <1>10 DEF DispatcherInv

-----------------------------------------------------------------------------
\* The client starts with an empty history.
LEMMA DispatcherInitInv == DispatcherInit => DispatcherInv
  <1> SUFFICES ASSUME DispatcherInit PROVE DispatcherInv
    OBVIOUS
  <1>0. /\ DOMAIN pings = {} /\ DOMAIN pending = {} /\ DOMAIN requests = {}
        /\ Len(pings) = 0 /\ Len(pending) = 0 /\ requests = << >>
        /\ \A r \in Riders : table[r] = 0
        /\ ~waiting
    BY DEF DispatcherInit
  <1>1. DispatcherTypeOK
    <2>1. pings \in Seq(Riders) /\ pending \in Seq(DOMAIN pings) /\ requests \in Seq(Request)
      BY DEF DispatcherInit
    <2> QED BY <2>1 DEF DispatcherInit, DispatcherTypeOK
  <1>2. RequestsInv /\ BufferInv /\ SentInv /\ OnlyLastInv /\ LastWrittenInv
    BY <1>0 DEF RequestsInv, BufferInv, SentInv, OnlyLastInv, LastWrittenInv
  <1>3. DropsOnlyReported
    BY <1>0 DEF DropsOnlyReported
  <1>4. \A r \in Riders : Newest(r) = 0
    BY <1>0 DEF Newest
  <1> QED BY <1>0, <1>1, <1>2, <1>3, <1>4 DEF DispatcherInv, ConfirmedInv

\* Every step of the client or of the gateway keeps the invariant.
LEMMA DispatcherNextInv ==
    ASSUME DispatcherInv, [DispatcherNext]_dispatcherVars PROVE DispatcherInv'
  <1>1. CASE \E r \in Riders : addRiderUpdate(r)
    BY <1>1, addRiderUpdateInv
  <1>2. CASE dispatchBatch
    BY <1>2, dispatchBatchInv
  <1>3. CASE DispatchConfirmed
    BY <1>3, DispatchConfirmedInv
  <1>4. CASE DispatchFailed
    BY <1>4, DispatchFailedInv
  <1>5. CASE Gateway
    <2>1. PICK q \in DOMAIN requests :
             \/ \E i \in DOMAIN requests[q].items :
                   ItemStart(q, i) \/ ItemWritten(q, i) \/ ItemFailed(q, i)
             \/ ContextEnds(q) \/ Respond200(q) \/ RespondError(q)
      BY <1>5 DEF Gateway
    <2> QED BY <2>1, ItemsInv, AnswerInv
  <1>6. CASE UNCHANGED dispatcherVars
    <2>0. UNCHANGED <<pings, pending, waiting, requests, table, overlap>>
      BY <1>6 DEF dispatcherVars
    <2>1. DispatcherTypeOK'
      BY <2>0, SameHistory DEF DispatcherInv, DispatcherTypeOK
    <2>2. Grows
      BY <2>0 DEF Grows
    <2>3. DropsOnlyReported' /\ ConfirmedInv'
      BY <2>0, <2>1, <2>2, PromisesKept
    <2>4. RequestsInv' /\ BufferInv' /\ OnlyLastInv' /\ LastWrittenInv' /\ SentInv'
      BY <2>0 DEF DispatcherInv, RequestsInv, SameRider, BufferInv, OnlyLastInv, LastWrittenInv,
                  SentInv, Unsettled, Last
    <2> QED BY <2>1, <2>3, <2>4 DEF DispatcherInv
  <1> QED BY <1>1, <1>2, <1>3, <1>4, <1>5, <1>6 DEF DispatcherNext, DispatcherRest

-----------------------------------------------------------------------------
\* The inductive invariant of the client and the gateway, for any number of
\* riders, pings and requests.
THEOREM DispatcherInvariant == DispatcherSpec => []DispatcherInv
  <1> QED BY DispatcherInitInv, DispatcherNextInv, PTL DEF DispatcherSpec

\* What is in the buffer of the dispatcher, in a request that dispatchBatch has
\* sent and in a row is a ping that addRiderUpdate has accepted.
THEOREM DispatcherTypeCorrect == DispatcherSpec => []DispatcherTypeOK
  <1>1. DispatcherInv => DispatcherTypeOK
    BY DEF DispatcherInv
  <1> QED BY <1>1, DispatcherInvariant, PTL

\* A ping that has left the buffer was written, or the answer that cleared the
\* buffer carried its error: retries, timeouts and lost answers lose nothing.
THEOREM DropsAreReported == DispatcherSpec => []DropsOnlyReported
  <1>1. DispatcherInv => DropsOnlyReported
    BY DEF DispatcherInv
  <1> QED BY <1>1, DispatcherInvariant, PTL

\* If every request was settled before the next one was sent, the row of a
\* rider whose pings all got through holds the newest of them.
THEOREM NewestWins == DispatcherSpec => []NewestWinsWithoutOverlap
  <1>1. ASSUME DispatcherInv PROVE NewestWinsWithoutOverlap
    <2> SUFFICES ASSUME ~overlap, pending = << >>, NEW r \in Riders,
                        \A p \in DOMAIN pings : pings[p] = r => ~Has(p, "failed", {"200"})
                 PROVE  table[r] = Newest(r)
      BY DEF NewestWinsWithoutOverlap, NewestPingWins
    <2>1. Range(pending) = {}
      BY DEF Range
    <2> QED BY <2>1, <1>1 DEF DispatcherInv, ConfirmedInv
  <1> QED BY <1>1, DispatcherInvariant, PTL
=============================================================================
