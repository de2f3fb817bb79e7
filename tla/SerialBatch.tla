---------------------------- MODULE SerialBatch -----------------------------
(***************************************************************************)
(* What the engine promises about one batch, without graph, workers or     *)
(* channels: each operation takes effect atomically, at most once, and     *)
(* only after every earlier operation it conflicts with.  Operations on    *)
(* different keys, and reads between two writes, run in any order.  An     *)
(* operation may fail, or never run at all when the batch is cut short.    *)
(*                                                                         *)
(* The reference it is held against is simulateSequentially of the         *)
(* integration test: the batch run in SeqID order on a plain map.          *)
(***************************************************************************)
EXTENDS Storage

VARIABLES batch, store, outcome

serialVars == <<batch, store, outcome>>

SerialTypeOK ==
    /\ batch \in Batches
    /\ store \in [Keys -> Value]
    /\ outcome \in [DOMAIN batch -> Outcome]

SerialInit ==
    /\ batch \in Batches
    /\ store = InitialStore
    /\ outcome = [i \in DOMAIN batch |-> Pending]

\* Every earlier operation that conflicts with i has been dealt with.
Ready(i) ==
    /\ outcome[i] = Pending
    /\ \A j \in DOMAIN batch : (j < i /\ Conflict(batch, j, i)) => outcome[j] # Pending

Apply(i) ==
    /\ Ready(i)
    /\ outcome' = [outcome EXCEPT ![i] = Ok(Observed(batch, i, store))]
    /\ store' = Effect(batch, i, store)
    /\ UNCHANGED batch

\* The call is refused because the context has ended, or its answer is an
\* error: a remote store may have performed it all the same.
Fail(i) ==
    /\ Ready(i)
    /\ outcome' = [outcome EXCEPT ![i] = Failed]
    /\ store' \in {store} \cup (IF Faults THEN {Effect(batch, i, store)} ELSE {})
    /\ UNCHANGED batch

SerialNext == (\E i \in DOMAIN batch : Apply(i) \/ Fail(i)) \/ UNCHANGED serialVars

SerialSpec == SerialInit /\ [][SerialNext]_serialVars
=============================================================================
