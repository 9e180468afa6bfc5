--------------------------- MODULE MessageService ---------------------------
(***************************************************************************)
(* What an application may rely on when it sends messages through the      *)
(* transport and session layers: a message is delivered at its destination *)
(* at most once, and its sender is told the outcome at most once; success  *)
(* means that it was delivered, unless its service does not ask for that.  *)
(* A message that is reported as failed may be delivered all the same.     *)
(***************************************************************************)
EXTENDS Naturals, Sequences

CONSTANTS
    Message,     \* the messages that may be sent
    Confirmed    \* those whose success reports their delivery

VARIABLES
    sent,        \* messages the sender has handed over
    received,    \* how many times each message was delivered
    reports      \* the outcomes its sender was told, in order

serviceVars == <<sent, received, reports>>

ServiceInit ==
    /\ sent = {}
    /\ received = [m \in Message |-> 0]
    /\ reports = [m \in Message |-> <<>>]

SendMessage(m) ==
    /\ m \notin sent
    /\ sent' = sent \union {m}
    /\ UNCHANGED <<received, reports>>

DeliverMessage(m) ==
    /\ m \in sent
    /\ received[m] = 0
    /\ received' = [received EXCEPT ![m] = 1]
    /\ UNCHANGED <<sent, reports>>

ReportOutcome(m, success) ==
    /\ m \in sent
    /\ reports[m] = <<>>
    /\ success /\ m \in Confirmed => received[m] = 1
    /\ reports' = [reports EXCEPT ![m] = <<success>>]
    /\ UNCHANGED <<sent, received>>

ServiceNext ==
    \E m \in Message :
        \/ SendMessage(m)
        \/ DeliverMessage(m)
        \/ \E success \in BOOLEAN : ReportOutcome(m, success)

ServiceSpec == ServiceInit /\ [][ServiceNext]_serviceVars
=============================================================================
