-------------------------- MODULE MCHazardResolver --------------------------
(***************************************************************************)
(* Every batch of at most MaxLen operations over the given keys and all    *)
(* operation types, with dense SeqIDs, and every batch of at most          *)
(* MaxBadLen operations with arbitrary small SeqIDs.                       *)
(***************************************************************************)
EXTENDS HazardResolver

CONSTANTS MaxLen, MaxBadLen

DenseBatches ==
    UNION {{[i \in 0 .. (n - 1) |-> [SeqID |-> i, Key |-> s[i].Key, Type |-> s[i].Type]] :
              s \in [0 .. (n - 1) -> [Key : Keys, Type : OperationType \ {UnknownOp}]]} :
            n \in 0 .. MaxLen}

AnySeqBatches ==
    UNION {[0 .. (n - 1) -> [SeqID : 0 .. MaxBadLen, Key : Keys, Type : OperationType]] :
            n \in 0 .. MaxBadLen}

MCBatches == DenseBatches \cup AnySeqBatches
=============================================================================
