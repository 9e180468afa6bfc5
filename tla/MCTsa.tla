------------------------------- MODULE MCTsa -------------------------------
(* Model checking of Tsa: message sets for the runs. All messages have the   *)
(* same contents, so that only transaction numbers tell them apart.          *)
EXTENDS Tsa

CONSTANTS nodeA, nodeB, nodeC, pri, nonpri, contents, n1, goodKey, badKey, AppInCnt, AppCeRspCnt, QueueCnt

Msg(i, src, dst, service, priority, auth, check) ==
    [id |-> i, src |-> src, dst |-> dst, service |-> service, priority |-> priority,
     auth |-> auth, check |-> check, apdu |-> contents]

MCTwoNodes == {nodeA, nodeB}
MCThreeNodes == {nodeA, nodeB, nodeC}
MCSender == {nodeA}
MCNonPri == {nonpri}
MCBoth == {pri, nonpri}

\* Requests.
MCTwoRequests == {Msg(i, nodeA, nodeB, "request", nonpri, FALSE, "ok") : i \in 1 .. 2}

\* Acknowledged messages.
MCTwoAckd == {Msg(i, nodeA, nodeB, "ackd", nonpri, FALSE, "ok") : i \in 1 .. 2}
MCThreeAckd == {Msg(i, nodeA, nodeB, "ackd", nonpri, FALSE, "ok") : i \in 1 .. 3}

\* Authenticated messages to nodeC, where nodeB has another key and the two sources
\* share one receive record, and the completion of an update, with priority.
MCAuthenticated == {Msg(1, nodeA, nodeC, "ackd", nonpri, TRUE, "ok"),
                    Msg(2, nodeB, nodeC, "unack_rpt", nonpri, TRUE, "ok"),
                    Msg(3, nodeA, nodeB, "ackd", pri, FALSE, "lastTag")}

MCCnt == [nwOut |-> QueueCnt, tsaIn |-> QueueCnt, tsaOut |-> QueueCnt,
          tsaResp |-> QueueCnt, appIn |-> AppInCnt, appCeRsp |-> AppCeRspCnt]
MCKey == [n \in Node |-> IF n = nodeB THEN badKey ELSE goodKey]
=============================================================================
