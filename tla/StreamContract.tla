--------------------------- MODULE StreamContract ---------------------------
(***************************************************************************)
(* What ConnectJsonTransport.server_stream promises the code that iterates *)
(* over it, without bytes, frames or sockets.  The bridge logs messages,   *)
(* numbered from 1, and then says at most once how its log ends.  The      *)
(* reader is handed the messages one by one in the order of the log, none  *)
(* skipped and none twice, and is told "ended" only when it has the whole  *)
(* of a log that ended in order.  Giving up is always allowed.             *)
(***************************************************************************)
EXTENDS Naturals, Sequences

VARIABLES logged,     \* how many messages the bridge has logged
          marker,     \* "none", "end", "error" or "garbled"
          delivered,  \* the messages the reader was handed
          outcome     \* "open", "ended", "raised", "escaped" or "left"

contractVars == <<logged, marker, delivered, outcome>>

ContractInit ==
    logged = 0 /\ marker = "none" /\ delivered = <<>> /\ outcome = "open"

Log ==
    /\ marker = "none"
    /\ logged' = logged + 1
    /\ UNCHANGED <<marker, delivered, outcome>>

EndLog ==
    /\ marker = "none"
    /\ marker' \in {"end", "error", "garbled"}
    /\ UNCHANGED <<logged, delivered, outcome>>

Deliver ==
    /\ outcome = "open" /\ Len(delivered) < logged
    /\ delivered' = Append(delivered, Len(delivered) + 1)
    /\ UNCHANGED <<logged, marker, outcome>>

End ==
    /\ outcome = "open" /\ marker = "end" /\ Len(delivered) = logged
    /\ outcome' = "ended"
    /\ UNCHANGED <<logged, marker, delivered>>

GiveUp ==
    /\ outcome = "open"
    /\ outcome' \in {"raised", "escaped", "left"}
    /\ UNCHANGED <<logged, marker, delivered>>

ContractNext == Log \/ EndLog \/ Deliver \/ End \/ GiveUp

ContractSpec == ContractInit /\ [][ContractNext]_contractVars

=============================================================================
