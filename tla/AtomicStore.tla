---------------------------- MODULE AtomicStore -----------------------------
(***************************************************************************)
(* What a StorageEngine in memory promises: a plain map on which every     *)
(* call takes effect at one instant between its invocation and its return. *)
(* This is what BatchEngine builds on: there a storage call is one step.   *)
(***************************************************************************)
CONSTANTS
    Keys,     \* what is stored under
    Values,   \* what Set may store
    Callers,  \* goroutines that use the store
    Absent    \* the key is not in the map

NoCall  == [op |-> "none"]
Pending == [done |-> FALSE]

Calls == [op : {"get", "delete"}, key : Keys]
           \cup [op : {"set"}, key : Keys, value : Values]

VARIABLES
    content,  \* key -> value, or Absent
    call,     \* the call each goroutine is in, or NoCall
    reply     \* its answer, once it has taken effect; Pending before

storeVars == <<content, call, reply>>

StoreInit ==
    /\ content = [k \in Keys |-> Absent]
    /\ call = [c \in Callers |-> NoCall]
    /\ reply = [c \in Callers |-> Pending]

\* The content after call o, and what o answers.
After(o, m) ==
    CASE o.op = "set"    -> [m EXCEPT ![o.key] = o.value]
      [] o.op = "delete" -> [m EXCEPT ![o.key] = Absent]
      [] OTHER           -> m

AnswerOf(o, m) == [val |-> IF o.op = "get" THEN m[o.key] ELSE Absent]

Invoke(c) ==
    /\ call[c] = NoCall
    /\ \E o \in Calls : call' = [call EXCEPT ![c] = o]
    /\ UNCHANGED <<content, reply>>

TakeEffect(c) ==
    /\ call[c] # NoCall /\ reply[c] = Pending
    /\ content' = After(call[c], content)
    /\ reply' = [reply EXCEPT ![c] = AnswerOf(call[c], content)]
    /\ UNCHANGED call

Return(c) ==
    /\ reply[c] # Pending
    /\ call' = [call EXCEPT ![c] = NoCall]
    /\ reply' = [reply EXCEPT ![c] = Pending]
    /\ UNCHANGED content

StoreNext == \E c \in Callers : Invoke(c) \/ TakeEffect(c) \/ Return(c)

StoreSpec == StoreInit /\ [][StoreNext]_storeVars
=============================================================================
