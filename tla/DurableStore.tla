---------------------------- MODULE DurableStore ----------------------------
(***************************************************************************)
(* What the persistence of a node promises, whenever it loses power: each  *)
(* segment of its data is kept as a whole. After a restart a segment holds *)
(* what was last stored, or its default; the default for sure if storing   *)
(* it was interrupted.                                                     *)
(***************************************************************************)
CONSTANTS
    Segment, Value,
    Default,        \* the contents of a segment that cannot be restored
    Lost            \* no contents

VARIABLES
    up,             \* is the node running?
    value,          \* the node's copy of each segment
    durable         \* what a restart can restore

storeVars == <<up, value, durable>>

StoreInit ==
    /\ up = FALSE
    /\ value = [s \in Segment |-> Default]
    /\ durable = [s \in Segment |-> Lost]

Update ==
    /\ up
    /\ value' \in [Segment -> Value]
    /\ UNCHANGED <<up, durable>>

BeginStore(s) ==
    /\ up
    /\ durable' = [durable EXCEPT ![s] = Lost]
    /\ UNCHANGED <<up, value>>

EndStore(s) ==
    /\ up /\ durable[s] = Lost
    /\ durable' = [durable EXCEPT ![s] = value[s]]
    /\ UNCHANGED <<up, value>>

PowerDown ==
    /\ up
    /\ up' = FALSE
    /\ UNCHANGED <<value, durable>>

PowerUp ==
    /\ ~up
    /\ up' = TRUE
    /\ value' \in {v \in [Segment -> Value] :
                      \A s \in Segment : v[s] \in {Default, durable[s]}}
    /\ UNCHANGED durable

StoreNext ==
    \/ Update \/ PowerDown \/ PowerUp
    \/ \E s \in Segment : BeginStore(s) \/ EndStore(s)

StoreSpec == StoreInit /\ [][StoreNext]_storeVars
=============================================================================
