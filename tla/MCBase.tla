------------------------------- MODULE MCBase -------------------------------
(* Model checking of the two structures every layer is built on, LonTimer    *)
(* and LcsQueue, side by side: a counter of 16 ticks, so that every duration *)
(* is started at every counter value and the counter wraps while it runs,    *)
(* and a queue of four places, so that three entries are committed while     *)
(* head and tail wrap independently of each other.                           *)
EXTENDS LonTimer, LcsQueue
CONSTANTS e1, e2
MCEntry == {e1, e2}

allVars == <<vars, queueVars>>

\* A step of a layer is an operation on its timer or on its queue.
BaseNext ==
    \/ Next /\ UNCHANGED queueVars
    \/ QueueNext /\ UNCHANGED vars

BaseInit == Init /\ QueueInit

BaseSpec == BaseInit /\ [][BaseNext]_allVars
=============================================================================
