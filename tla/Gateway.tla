------------------------------- MODULE Gateway ------------------------------
(***************************************************************************)
(* The front half of handleBatch (server.go): decode the body, answer an   *)
(* empty batch, translate the items into operations.  translateRequest     *)
(* accepts items in any order and places each one at its seq_id; what it   *)
(* returns must be a batch that Build accepts.                             *)
(*                                                                         *)
(* One action is one iteration of a loop.  An item keeps of its text what  *)
(* the code branches on: its operation_type as written, whether rider_id   *)
(* is empty, whether there is a payload.                                   *)
(***************************************************************************)
EXTENDS Operations

CONSTANT Bodies  \* decoded request bodies: functions 0..n-1 -> BatchRequestItem

\* operation_type as a client may write it: parseOperationType trims blanks
\* and ignores case.
RawType == {"READ", "WRITE", " write ", "DELETE", "bogus"}

parseOperationType(raw) ==
    CASE raw = "READ"                  -> OpRead
      [] raw \in {"WRITE", " write "}  -> OpWrite
      [] raw = "DELETE"                -> OpDelete
      [] OTHER                         -> UnknownOp

NoRider == "no rider"

BatchRequestItem ==
    [SeqID : Nat, OperationType : RawType, RiderID : Keys \cup {NoRider}, Payload : BOOLEAN]

ASSUME BodiesAssumption ==
    \A b \in Bodies : /\ IsFiniteSet(DOMAIN b)
                      /\ b \in [0 .. (Len0(b) - 1) -> BatchRequestItem]
ASSUME NoRiderAssumption == NoRider \notin Keys

VARIABLES
    items,    \* the decoded body
    idx,      \* loop index of translateRequest
    ops,      \* operations placed so far; NoOperation is Go's zero value
    seen,     \* the positions already taken
    phase,    \* "decode", "translate", "build" or "responded"
    status    \* the response: "none", "200" or "400"

gatewayVars == <<items, idx, ops, seen, phase, status>>

\* Operation{}: OpRead is the zero OperationType.
NoOperation == [SeqID |-> 0, Key |-> NoRider, Type |-> OpRead]

Size == Len0(items)

GatewayTypeOK ==
    /\ items \in Bodies
    /\ idx \in Nat
    /\ ops \in [DOMAIN items -> Operation \cup {NoOperation}]
    /\ seen \in SUBSET DOMAIN items
    /\ phase \in {"decode", "translate", "build", "responded"}
    /\ status \in {"none", "200", "400"}

GatewayInit ==
    /\ items \in Bodies
    /\ idx = 0
    /\ ops = [i \in DOMAIN items |-> NoOperation]
    /\ seen = {}
    /\ phase = "decode"
    /\ status = "none"

-----------------------------------------------------------------------------
Respond(code) == phase' = "responded" /\ status' = code

\* The body is over the limit, is no JSON array or has an unknown field.
DecodeFails ==
    /\ phase = "decode"
    /\ Respond("400")
    /\ UNCHANGED <<items, idx, ops, seen>>

\* An empty batch is answered at once.
DecodeEmpty ==
    /\ phase = "decode"
    /\ Size = 0
    /\ Respond("200")
    /\ UNCHANGED <<items, idx, ops, seen>>

DecodeItems ==
    /\ phase = "decode"
    /\ Size # 0
    /\ phase' = "translate"
    /\ UNCHANGED <<items, idx, ops, seen, status>>

\* Mutant: duplicates pass.
ItemRefusedDuplicates(it) ==
    \/ it.SeqID >= Size
    \/ parseOperationType(it.OperationType) = UnknownOp
    \/ it.RiderID = NoRider
    \/ parseOperationType(it.OperationType) = OpWrite /\ ~it.Payload

\* The checks of the loop body, in the code's order; each ends in 400.
ItemRefused(it) ==
    \/ it.SeqID >= Size
    \/ it.SeqID \in seen
    \/ parseOperationType(it.OperationType) = UnknownOp
    \/ it.RiderID = NoRider
    \/ parseOperationType(it.OperationType) = OpWrite /\ ~it.Payload

Translated(it) == [SeqID |-> it.SeqID, Key |-> it.RiderID,
                   Type |-> parseOperationType(it.OperationType)]

\* Mutant: operations are placed in the order the items arrive.
TranslateItemInArrivalOrder ==
    /\ phase = "translate"
    /\ idx < Size
    /\ ~ItemRefused(items[idx])
    /\ seen' = seen \cup {items[idx].SeqID}
    /\ ops' = [ops EXCEPT ![idx] = Translated(items[idx])]
    /\ idx' = idx + 1
    /\ UNCHANGED <<items, phase, status>>

TranslateItem ==
    /\ phase = "translate"
    /\ idx < Size
    /\ ~ItemRefused(items[idx])
    /\ seen' = seen \cup {items[idx].SeqID}
    /\ ops' = [ops EXCEPT ![items[idx].SeqID] = Translated(items[idx])]
    /\ idx' = idx + 1
    /\ UNCHANGED <<items, phase, status>>

TranslateRefuse ==
    /\ phase = "translate"
    /\ idx < Size
    /\ ItemRefused(items[idx])
    /\ Respond("400")
    /\ UNCHANGED <<items, idx, ops, seen>>

\* The second loop: a position nobody took ends in 400.
TranslateCheck ==
    /\ phase = "translate"
    /\ idx >= Size
    /\ IF seen = DOMAIN items THEN phase' = "build" /\ UNCHANGED status
                              ELSE Respond("400")
    /\ UNCHANGED <<items, idx, ops, seen>>

GatewayDone ==
    /\ phase \in {"build", "responded"}
    /\ UNCHANGED gatewayVars

GatewayNext == \/ DecodeFails \/ DecodeEmpty \/ DecodeItems
               \/ TranslateItem \/ TranslateRefuse \/ TranslateCheck
               \/ GatewayDone

GatewaySpec == GatewayInit /\ [][GatewayNext]_gatewayVars

-----------------------------------------------------------------------------
\* What reaches Build is a batch that Build accepts (BuildAcceptsExactly): the
\* 400 "failed to build dependency graph" is never sent, and no zero-valued
\* operation is left where an item was not placed.
TranslatedIsAccepted ==
    phase = "build" =>
      \A i \in DOMAIN items : /\ ops[i] \in Operation
                              /\ ops[i].SeqID = i
                              /\ ops[i].Type # UnknownOp

\* Translation loses nothing and invents nothing: the operations are the items
\* in seq_id order.
TranslationIsPermutation ==
    phase = "build" =>
      /\ \A n \in DOMAIN items : ops[items[n].SeqID] = Translated(items[n])
      /\ \A i \in DOMAIN items : \E n \in DOMAIN items : ops[i] = Translated(items[n])

\* Both: every item that is not refused reaches Build once, in its place, as an
\* operation that Build accepts.
TranslationIsExact == TranslatedIsAccepted /\ TranslationIsPermutation

\* "missing seq_id" cannot happen: n items that are in range and distinct take
\* all n positions.
MissingIsUnreachable ==
    (phase = "translate" /\ idx >= Size) => seen = DOMAIN items
=============================================================================
