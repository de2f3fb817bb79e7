----------------------------- MODULE Operations -----------------------------
(***************************************************************************)
(* The vocabulary of types.go: operation types, operations and the hazard  *)
(* relation between the operations of one batch.                           *)
(*                                                                         *)
(* A batch ([]Operation) is a function from 0..n-1 to operations, indexed  *)
(* as the Go slice is.  Keys are rider identifiers; the engine only ever   *)
(* compares them.  Value, Result and Err are not part of an operation      *)
(* here: the modules that execute operations keep them.                    *)
(***************************************************************************)
EXTENDS Integers, FiniteSets

CONSTANTS
    Keys,     \* rider identifiers
    Batches   \* the batches a caller may submit

\* OperationType is a uint8: UnknownOp stands for every value that is none
\* of the three the package declares.
OpRead    == "READ"
OpWrite   == "WRITE"
OpDelete  == "DELETE"
UnknownOp == "unknown"

OperationType == {OpRead, OpWrite, OpDelete, UnknownOp}

\* SeqID is a uint64 that the caller chooses.
Operation == [SeqID : Nat, Key : Keys, Type : OperationType]

\* "at least one of them is a write (OpWrite or OpDelete)"
IsMutation(op) == op.Type \in {OpWrite, OpDelete}

Len0(b) == Cardinality(DOMAIN b)

\* A batch is a slice: its indices are 0 .. len-1.
IsBatch(b) == /\ IsFiniteSet(DOMAIN b)
              /\ b \in [0 .. (Len0(b) - 1) -> Operation]

ASSUME BatchesAssumption == \A b \in Batches : IsBatch(b)

-----------------------------------------------------------------------------
(***************************************************************************)
(* The hazard relation, defined from the operations alone.  It is the      *)
(* reference that the graph built by hazard.go is compared with.           *)
(***************************************************************************)

\* Positions i and j must keep their order: RAW, WAR or WAW on one key.
Conflict(b, i, j) == /\ b[i].Key = b[j].Key
                     /\ IsMutation(b[i]) \/ IsMutation(b[j])

\* j conflicts with i and no write of that key stands between them.  The
\* other conflicts follow from these by transitivity.
DirectHazard(b, i, j) ==
    /\ i < j
    /\ Conflict(b, i, j)
    /\ \A m \in DOMAIN b :
          (i < m /\ m < j /\ b[m].Key = b[j].Key) => ~IsMutation(b[m])
=============================================================================
