--------------------------- MODULE MCApplication ---------------------------
(* Model checking of Application: an array of two outputs, the first with an *)
(* alias that is sent unacknowledged, the second only turned around; a       *)
(* polled input with an alias; and an input that is only turned around.      *)
(* Explicit messages: one of each way through TryMsgSend, with the           *)
(* unacknowledged one that is too long, which it completes and keeps.        *)
EXTENDS Application

Entry(primary, base, dir, selector, address) ==
    [primary |-> primary, base |-> base, dir |-> dir, selector |-> selector, address |-> address,
     turnaround |-> address = "turnaround", unackd |-> FALSE, priority |-> FALSE]

MCNv == [i \in 0 .. 5 |->
    CASE i = 0 -> [Entry(0, 0, "out", 1, "assigned") EXCEPT !.priority = TRUE]
      [] i = 1 -> Entry(1, 0, "out", 2, "turnaround")
      [] i = 2 -> Entry(2, 2, "in", 3, "assigned")
      [] i = 3 -> Entry(3, 3, "in", 2, "turnaround")
      [] i = 4 -> [Entry(0, 0, "out", 5, "assigned") EXCEPT !.unackd = TRUE]
      [] i = 5 -> Entry(2, 2, "in", 4, "turnaround")]
Explicit(service, form) == [service |-> service, priority |-> FALSE, form |-> form]
MCMessage ==
    [m \in {"asked", "sent", "tooLong", "nowhere", "kept"} |->
        CASE m = "asked"   -> Explicit("request", "ok")
          [] m = "sent"    -> Explicit("unackd", "ok")
          [] m = "tooLong" -> Explicit("ackd", "long")
          [] m = "nowhere" -> Explicit("request", "unassigned")
          [] m = "kept"    -> Explicit("unackd", "long")]
MCIncoming == [m \in {"request", "poll", "update"} |-> [kind |-> m]]
============================================================================
