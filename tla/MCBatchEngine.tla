--------------------------- MODULE MCBatchEngine ----------------------------
(***************************************************************************)
(* Every dense batch of known types: of at most MaxLen operations over all *)
(* keys, and of at most MaxSoloLen operations on a single key, where every *)
(* pair with a write conflicts.  The store starts with that key present    *)
(* and the others absent.                                                  *)
(***************************************************************************)
EXTENDS BatchEngine, TLC

CONSTANTS MaxLen, MaxSoloLen, PresentKey

DenseBatches(keys, max) ==
    UNION {{[i \in 0 .. (n - 1) |-> [SeqID |-> i, Key |-> s[i].Key, Type |-> s[i].Type]] :
              s \in [0 .. (n - 1) -> [Key : keys, Type : OperationType \ {UnknownOp}]]} :
            n \in 1 .. max}

MCBatches == DenseBatches(Keys, MaxLen) \cup DenseBatches({PresentKey}, MaxSoloLen)

MCInitialStore == [k \in Keys |-> IF k = PresentKey THEN Old ELSE Absent]

WorkerSymmetry == Permutations(Workers)
=============================================================================
