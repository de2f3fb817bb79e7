------------------------------ MODULE MCGateway -----------------------------
(***************************************************************************)
(* Every body of at most MaxItems items; SeqIDs run past the batch size.   *)
(***************************************************************************)
EXTENDS Gateway

CONSTANT MaxItems

MCItem == [SeqID : 0 .. MaxItems, OperationType : RawType, RiderID : Keys \cup {NoRider},
           Payload : BOOLEAN]

\* Three items differ only where the code compares items with each other.
PlainItem == [SeqID : 0 .. MaxItems + 1, OperationType : {"WRITE", "bogus"}, RiderID : Keys,
              Payload : {TRUE}]

MCBodies == (UNION {[0 .. (n - 1) -> MCItem] : n \in 0 .. 2})
            \cup [0 .. (MaxItems - 1) -> PlainItem]
=============================================================================
