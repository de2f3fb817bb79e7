------------------------------ MODULE Storage -------------------------------
(***************************************************************************)
(* What one storage call does, whichever StorageEngine performs it: its    *)
(* effect on the content and what executeNode stores in the node.          *)
(*                                                                         *)
(* The operation at position i writes the value i.  The engine never looks *)
(* at a value, so all that matters is that the writes of a batch are told  *)
(* apart from each other and from what was there before.                   *)
(***************************************************************************)
EXTENDS Operations

CONSTANTS
    InitialStore,  \* content of the storage engine when the batch starts
    Faults         \* TRUE: the storage engine is remote, a call may fail

Absent == -1
Old    == -2
Value  == Nat \cup {Absent, Old}

ASSUME StoreAssumption == InitialStore \in [Keys -> Value]
ASSUME FaultsAssumption == Faults \in BOOLEAN

\* Result and Err of a node: Pending until its worker has written them.
Pending == [state |-> "pending", val |-> Absent]
Ok(v)   == [state |-> "ok", val |-> v]
Failed  == [state |-> "failed", val |-> Absent]

Outcome == [state : {"pending", "ok", "failed"}, val : Value]

\* Set, Delete and Get on the content s.
Effect(b, i, s) ==
    CASE b[i].Type = OpWrite  -> [s EXCEPT ![b[i].Key] = i]
      [] b[i].Type = OpDelete -> [s EXCEPT ![b[i].Key] = Absent]
      [] OTHER                -> s

\* What executeNode puts into Result.  A miss is a successful read of nil, a
\* write confirms its value, a delete has no result.
Observed(b, i, s) ==
    CASE b[i].Type = OpRead  -> s[b[i].Key]
      [] b[i].Type = OpWrite -> i
      [] OTHER               -> Absent

\* simulateSequentially of the integration test: the batch run in SeqID order
\* on a plain map.  The value at i is the content before position i.
simulateSequentially(b) ==
    LET before[i \in 0 .. Len0(b)] ==
          IF i = 0 THEN InitialStore ELSE Effect(b, i - 1, before[i - 1])
    IN  before
=============================================================================
