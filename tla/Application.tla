---------------------------- MODULE Application ----------------------------
(***************************************************************************)
(* The application layer (lcs/lcs_app.c): the updates and polls of network *)
(* variables (datapoints), which go out one message at a time, the         *)
(* explicit messages and responses of the application, and the completion  *)
(* events and messages that come back, with the part of lcs/lcs_node.c and *)
(* IzotApi.c that calls it.                                                *)
(*                                                                         *)
(* The service loop calls DoApp, AppLayerSend and AppLayerReceive in turns *)
(* with the layers below; each call is one action here, in any order. The  *)
(* application's own calls come in between. The transaction layers and the *)
(* network layer, modelled in Tsa, are reduced to what they put in the     *)
(* queues of this layer.                                                   *)
(*                                                                         *)
(* The values of network variables are left out: synchronous and other     *)
(* datapoints are queued alike. Buffers are large enough for every message *)
(* that is not marked too long.                                            *)
(***************************************************************************)
EXTENDS Integers, Sequences, FiniteSets, SequencesExt

CONSTANTS
    Nv,         \* network variables, then alias entries: index to configuration
    Message,    \* explicit messages the application sends, each once: id to form
    Incoming,   \* messages the layers below deliver, each once: id to form
    NvOutCnt,   \* MAX_NV_OUT, 5
    NvInCnt,    \* MAX_NV_IN, 50
    QueueCnt,   \* the counts of all other queues
    MaxLoad,    \* bound on updates, polls, messages sent and messages received together
    MaxChanges, \* bound on changes of the node's state and resets
    RunUnconfig,\* IZOT_READONLY_RUN_UNCONFIG
    None

Directions == {"out", "in"}
States == {"ApplicationUnconfig", "ConfigOnLine", "ConfigOffLine"}
IndexQCnt == [out |-> NvOutCnt, in |-> NvInCnt]
Primaries == {i \in DOMAIN Nv : Nv[i].primary = i}

ASSUME ApplicationAssumption ==
    /\ \A i \in DOMAIN Nv :
          /\ Nv[i].primary \in Primaries /\ Nv[i].base \in Primaries
          /\ Nv[i].dir \in Directions
          /\ Nv[i].address \in {"none", "turnaround", "assigned"}
          /\ {Nv[i].turnaround, Nv[i].unackd, Nv[i].priority} \subseteq BOOLEAN
    /\ \A m \in DOMAIN Message :
          /\ Message[m].service \in {"ackd", "unackd", "request"} /\ Message[m].priority \in BOOLEAN
          /\ Message[m].form \in {"ok", "long", "unassigned", "bad"}
    /\ \A m \in DOMAIN Incoming :
          Incoming[m].kind \in {"poll", "shortPoll", "update", "request", "message"}
    /\ {NvOutCnt, NvInCnt, QueueCnt, MaxLoad, MaxChanges} \subseteq Nat
    /\ RunUnconfig \in BOOLEAN

VARIABLES
    app,        \* protocolStackDataGbl: the fields and queues of this layer, and history
    changes

vars == <<app, changes>>

Marker == -1        \* ends the entries of one call in nvOutIndexQ and nvInIndexQ
LastTag == "last"      \* the kind of NV_UPDATE_LAST_TAG_VALUE and NV_POLL_LAST_TAG_VALUE

\* QueueWrite leaves one place of the array free, which QueueFull does not know:
\* it never says that a queue is full.
QueueWrite(q, e, cnt) == IF Len(q) < cnt - 1 THEN Append(q, e) ELSE q

AppPgmRuns(a) ==
    /\ a.mode = "ON_LINE"
    /\ a.state = "ConfigOnLine" \/ (a.state = "ApplicationUnconfig" /\ RunUnconfig)

NodeUnConfigured(a) == a.state # "ConfigOnLine"

TurnAroundOnly(i) == Nv[i].address # "assigned"

IsNVBound(nv) == \E i \in DOMAIN Nv : Nv[i].primary = nv /\ Nv[i].address # "none"

InOrder(indices) == SetToSortSeq(indices, <)

----------------------------------------------------------------------------
(* Calls of the application. calls has one record for each accepted update   *)
(* or poll, and the entries and tags of a call carry its number: both are    *)
(* history.                                                                  *)

\* PropagateThisIndex and PollThisIndex for a variable and its aliases, while the
\* queue has more than one free place.
Scheduled(q, nv, d, call) ==
    FoldLeft(LAMBDA r, i : IF IndexQCnt[d] - Len(r) > 1 /\ Nv[i].dir = d
                           THEN Append(r, [nv |-> i, call |-> call]) ELSE r,
             q, InOrder({i \in DOMAIN Nv : Nv[i].primary = nv}))

\* PropagateThisPrimary and PollThisPrimary. A call that nothing is scheduled for
\* completes at once. The end marker is written whether or not there is room.
ThisPrimary(a, d, nv) ==
    LET call == Len(a.calls[d]) + 1
        q == Scheduled(a.nvQ[d], nv, d, call)
    IN  IF ~IsNVBound(nv) \/ q = a.nvQ[d] THEN a
        ELSE [a EXCEPT !.nvQ[d] = QueueWrite(q, [nv |-> Marker, call |-> call], IndexQCnt[d]),
                       !.calls[d] = Append(@, [nv |-> nv, failed |-> FALSE, updated |-> FALSE])]

\* IsArrayNV: the base of an array stands for all its elements.
Elements(nv) == {i \in Primaries : nv \in {i, Nv[i].base}}

Load == Len(app.calls.out) + Len(app.calls.in) + Cardinality(app.sent) + Cardinality(app.arrived)

\* PropagateNV and PollNV.
Call(d, nv) ==
    /\ Load + Cardinality(Elements(nv)) <= MaxLoad
    /\ app' = FoldLeft(LAMBDA a, i : ThisPrimary(a, d, i), app, InOrder(Elements(nv)))
    /\ UNCHANGED changes

\* MsgCompletes: completed is history, counted up to 2, which is once too often.
MsgCompletes(a, m) == [a EXCEPT !.completed[m] = IF @ = 2 THEN 2 ELSE @ + 1]

\* IzotSendMsg: MsgSend with its arguments.
MsgSend(m) ==
    /\ m \notin app.sent /\ Load < MaxLoad
    /\ app' = [app EXCEPT !.sent = @ \cup {m},
                          !.appOutQ[Message[m].priority] = QueueWrite(@, m, QueueCnt)]
    /\ UNCHANGED changes

\* AllocSendResponse: it tells the caller that all went well even if the queue is full.
AllocSendResponse(a, m) == [a EXCEPT !.tsaRespQ = QueueWrite(@, m, QueueCnt)]

\* IzotSendResponse: RespSend with the correlator of a request the application has.
RespSend(m) ==
    /\ m \in app.correlators
    /\ app' = AllocSendResponse([app EXCEPT !.correlators = @ \ {m}], m)
    /\ UNCHANGED changes

\* IzotMsgArrived gets the message; a request also gives a correlator.
DoApp ==
    /\ app' = IF ~AppPgmRuns(app) THEN app
              ELSE [app EXCEPT !.msgIn = None, !.respIn = FALSE,
                               !.correlators = IF app.msgIn # None /\ Incoming[app.msgIn].kind = "request"
                                               THEN @ \cup {app.msgIn} ELSE @]
    /\ UNCHANGED changes

----------------------------------------------------------------------------
(* AppLayerSend.                                                             *)

Tag(kind, d, nv, call) == [kind |-> kind, dir |-> d, nv |-> nv, call |-> call]

ToTsa(a, priority, tag) == [a EXCEPT !.tsaOutQ[priority] = QueueWrite(@, tag, QueueCnt)]
ToNetwork(a, priority, tag) == [a EXCEPT !.nwOutQ[priority] = QueueWrite(@, tag, QueueCnt)]

\* The head of an index queue is taken, and nothing more until this is completed.
OneAtATime(a, d) == [a EXCEPT !.nvQ[d] = Tail(@), !.canSchedule[d] = FALSE]

NvSchedulable(a, d) == a.canSchedule[d] /\ a.nvQ[d] # <<>> /\ a.state # "ApplicationUnconfig"

LastOf(a, d) == ToTsa(OneAtATime(a, d), FALSE, Tag(LastTag, d, None, Head(a.nvQ[d]).call))

\* Faulty variant: the index of an entry that is not sent is not kept.
SendVarForgetful(a) ==
    LET e == Head(a.nvQ.out)
        tag == Tag("nv", "out", Nv[e.nv].primary, e.call)
    IN  IF ~NvSchedulable(a, "out") THEN a
        ELSE IF e.nv = Marker THEN LastOf(a, "out")
        ELSE IF TurnAroundOnly(e.nv) THEN [a EXCEPT !.nvQ.out = Tail(@)]
        ELSE IF Nv[e.nv].unackd THEN ToNetwork(OneAtATime(a, "out"), Nv[e.nv].priority, tag)
        ELSE ToTsa(OneAtATime(a, "out"), Nv[e.nv].priority, tag)

SendVar(a) ==
    LET e == Head(a.nvQ.out)
        tag == Tag("nv", "out", Nv[e.nv].primary, e.call)
    IN  IF ~NvSchedulable(a, "out") THEN a
        ELSE IF e.nv = Marker THEN LastOf(a, "out")
        ELSE IF TurnAroundOnly(e.nv) THEN [a EXCEPT !.index.out = Nv[e.nv].primary, !.nvQ.out = Tail(@)]
        ELSE IF Nv[e.nv].unackd THEN ToNetwork(OneAtATime(a, "out"), Nv[e.nv].priority, tag)
        ELSE ToTsa(OneAtATime(a, "out"), Nv[e.nv].priority, tag)

\* A poll of a variable that is only turned around succeeds if an output matches.
TurnedAround(i) ==
    Nv[i].turnaround /\ \E o \in DOMAIN Nv : Nv[o].dir = "out" /\ Nv[o].selector = Nv[i].selector

PollVar(a) ==
    LET e == Head(a.nvQ.in)
    IN  IF ~NvSchedulable(a, "in") THEN a
        ELSE IF e.nv = Marker THEN LastOf(a, "in")
        ELSE IF TurnAroundOnly(e.nv)
        THEN [a EXCEPT !.index.in = Nv[e.nv].primary, !.nvQ.in = Tail(@),
                       !.hasData = @ \/ TurnedAround(e.nv),
                       !.calls.in[e.call].updated = @ \/ TurnedAround(e.nv)]
        ELSE ToTsa(OneAtATime(a, "in"), Nv[e.nv].priority, Tag("nv", "in", Nv[e.nv].primary, e.call))

\* TryMsgSend for the head of a queue, which AppLayerSend drops unless it fails.
TryMsgSend(a, priority) ==
    LET m == Head(a.appOutQ[priority])
        sent == [a EXCEPT !.appOutQ[priority] = Tail(@)]
        tag == Tag("msg", "out", m, None)
    IN  IF a.appOutQ[priority] = <<>> THEN a
        ELSE IF Message[m].form = "unassigned" THEN MsgCompletes(sent, m)
        ELSE IF Message[m].service = "unackd"
        THEN IF Message[m].form = "long" THEN MsgCompletes(a, m)
             ELSE IF Message[m].form = "bad" THEN a
             ELSE ToNetwork(sent, priority, tag)
        ELSE IF Message[m].form = "long" THEN MsgCompletes(sent, m)
        ELSE ToTsa(sent, priority, tag)

AppLayerSend ==
    /\ app' = TryMsgSend(PollVar(SendVar(TryMsgSend(app, TRUE))), FALSE)
    /\ UNCHANGED changes

----------------------------------------------------------------------------
(* AppLayerReceive.                                                          *)

\* reports is history: the calls that are over, and what the event says. Its
\* Boolean argument is given the status, and the status for no error is 0.
Report(a, d, ok, call) ==
    [a EXCEPT !.reports[d] = Append(@, [call |-> call, nv |-> a.index[d], ok |-> ok, success |-> ~ok])]

\* Faulty variant: the status of the last message is reported.
HandleMsgCompletionOfLast(a, c) ==
    LET d == c.tag.dir
        b == [a EXCEPT !.ceRspQ = Tail(@), !.canSchedule[d] = TRUE]
    IN  IF c.tag.kind = "msg" THEN MsgCompletes([a EXCEPT !.ceRspQ = Tail(@)], c.tag.nv)
        ELSE IF c.tag.kind = LastTag
        THEN Report([b EXCEPT !.failed[d] = FALSE, !.hasData = @ /\ d = "out"],
                    d, ~a.failed[d] /\ (d = "in" => a.hasData), c.tag.call)
        ELSE [b EXCEPT !.index[d] = c.tag.nv, !.failed[d] = ~c.success]

\* Faulty variant: the end of a call sets the index too.
HandleMsgCompletionIndexed(a, c) ==
    LET d == c.tag.dir
        b == [a EXCEPT !.ceRspQ = Tail(@), !.canSchedule[d] = TRUE, !.index[d] = c.tag.nv]
    IN  IF c.tag.kind = "msg" THEN MsgCompletes([a EXCEPT !.ceRspQ = Tail(@)], c.tag.nv)
        ELSE IF c.tag.kind = LastTag
        THEN Report([b EXCEPT !.failed[d] = FALSE, !.hasData = @ /\ d = "out"],
                    d, ~a.failed[d] /\ (d = "in" => a.hasData), c.tag.call)
        ELSE [b EXCEPT !.failed[d] = @ \/ ~c.success]

\* Faulty variant: a poll leaves its data status behind.
HandleMsgCompletionSticky(a, c) ==
    LET d == c.tag.dir
        b == [a EXCEPT !.ceRspQ = Tail(@), !.canSchedule[d] = TRUE]
    IN  IF c.tag.kind = "msg" THEN MsgCompletes([a EXCEPT !.ceRspQ = Tail(@)], c.tag.nv)
        ELSE IF c.tag.kind = LastTag
        THEN Report([b EXCEPT !.failed[d] = FALSE], d, ~a.failed[d] /\ (d = "in" => a.hasData), c.tag.call)
        ELSE [b EXCEPT !.index[d] = c.tag.nv, !.failed[d] = @ \/ ~c.success]

\* Faulty variant: a failure does not let the next message go.
HandleMsgCompletionStops(a, c) ==
    LET d == c.tag.dir
        b == [a EXCEPT !.ceRspQ = Tail(@), !.canSchedule[d] = c.success]
    IN  IF c.tag.kind = "msg" THEN MsgCompletes([a EXCEPT !.ceRspQ = Tail(@)], c.tag.nv)
        ELSE IF c.tag.kind = LastTag
        THEN Report([b EXCEPT !.failed[d] = FALSE, !.hasData = @ /\ d = "out"],
                    d, ~a.failed[d] /\ (d = "in" => a.hasData), c.tag.call)
        ELSE [b EXCEPT !.index[d] = c.tag.nv, !.failed[d] = @ \/ ~c.success]

HandleMsgCompletion(a, c) ==
    LET d == c.tag.dir
        b == [a EXCEPT !.ceRspQ = Tail(@), !.canSchedule[d] = TRUE]
    IN  IF c.tag.kind = "msg" THEN MsgCompletes([a EXCEPT !.ceRspQ = Tail(@)], c.tag.nv)
        ELSE IF c.tag.kind = LastTag
        THEN Report([b EXCEPT !.failed[d] = FALSE, !.hasData = @ /\ d = "out"],
                    d, ~a.failed[d] /\ (d = "in" => a.hasData), c.tag.call)
        ELSE [b EXCEPT !.index[d] = c.tag.nv, !.failed[d] = @ \/ ~c.success]

\* A response waits while the application has not taken the one before.
HandleResponse(a) ==
    IF NodeUnConfigured(a) THEN [a EXCEPT !.ceRspQ = Tail(@)]
    ELSE IF a.respIn THEN a
    ELSE [a EXCEPT !.respIn = TRUE, !.ceRspQ = Tail(@)]

\* ProcessNVUpdate for the response to a poll.
ProcessNVResponse(a, r) ==
    LET b == [a EXCEPT !.ceRspQ = Tail(@)]
    IN  IF a.state = "ApplicationUnconfig" \/ ~r.data THEN b
        ELSE [b EXCEPT !.hasData = TRUE, !.calls.in[r.tag.call].updated = TRUE]

APPRspReceive(a) ==
    LET r == Head(a.ceRspQ)
    IN  IF a.ceRspQ = <<>> THEN a
        ELSE IF r.indication = "completion" THEN HandleMsgCompletion(a, r)
        ELSE IF r.tag.kind = "msg" THEN HandleResponse(a)
        ELSE ProcessNVResponse(a, r)

\* Faulty variant: a request that arrives off line is answered again and again.
HandleNormalRepeats(a, m) ==
    LET dropped == [a EXCEPT !.appInQ = Tail(@)]
    IN  IF ~AppPgmRuns(a)
        THEN IF Incoming[m].kind = "request" THEN AllocSendResponse(a, m) ELSE dropped
        ELSE IF a.msgIn # None THEN a
        ELSE [dropped EXCEPT !.msgIn = m]

\* Off line a request gets a response that says so. On line the message waits
\* while the application has not taken the one before.
HandleNormal(a, m) ==
    LET dropped == [a EXCEPT !.appInQ = Tail(@)]
    IN  IF ~AppPgmRuns(a)
        THEN IF Incoming[m].kind = "request" THEN AllocSendResponse(dropped, m) ELSE dropped
        ELSE IF a.msgIn # None THEN a
        ELSE [dropped EXCEPT !.msgIn = m]

\* ProcessNVPoll and ProcessNVUpdate. A poll gets a response with data, without or null.
ProcessNV(a, m) ==
    LET dropped == [a EXCEPT !.appInQ = Tail(@)]
    IN  IF Incoming[m].kind = "poll" THEN AllocSendResponse(dropped, m) ELSE dropped

APPMsgReceive(a) ==
    LET m == Head(a.appInQ)
    IN  IF a.appInQ = <<>> THEN a
        ELSE IF Incoming[m].kind \in {"request", "message"} THEN HandleNormal(a, m)
        ELSE ProcessNV(a, m)

AppLayerReceive ==
    /\ app' = APPMsgReceive(APPRspReceive(app))
    /\ UNCHANGED changes

----------------------------------------------------------------------------
(* The layers below. A message stays at the head of tsaOutQ until it is      *)
(* completed; an unacknowledged one completes when the network layer has     *)
(* passed it on, or could not.                                               *)

\* History: a message of the call was not delivered.
Failure(a, tag, success) ==
    IF success \/ tag.kind # "nv" THEN a ELSE [a EXCEPT !.calls[tag.dir][tag.call].failed = TRUE]

Completion(tag, success) == [indication |-> "completion", tag |-> tag, success |-> success]

IsRequest(tag) ==
    \/ tag.kind = "nv" /\ tag.dir = "in"
    \/ tag.kind = "msg" /\ Message[tag.nv].service = "request"

\* TerminateTrans, and CompleteAtOnce of Tsa for a last tag: SendCompletion.
TsaComplete(priority, success) ==
    /\ app.tsaOutQ[priority] # <<>>
    /\ LET tag == Head(app.tsaOutQ[priority])
       IN  /\ tag.kind = LastTag => success
           /\ IsRequest(tag) /\ success => app.responded[priority]
           /\ app' = Failure([app EXCEPT !.tsaOutQ[priority] = Tail(@),
                                         !.responded[priority] = FALSE,
                                         !.ceRspQ = QueueWrite(@, Completion(tag, success), QueueCnt)],
                             tag, success)
    /\ UNCHANGED changes

\* A response for the request in progress; the owner of a variable may send no data.
TsaRespond(priority, data) ==
    /\ app.tsaOutQ[priority] # <<>> /\ ~app.responded[priority]
    /\ LET tag == Head(app.tsaOutQ[priority])
       IN  /\ IsRequest(tag)
           /\ app' = [app EXCEPT !.responded[priority] = TRUE,
                                 !.ceRspQ = QueueWrite(@, [indication |-> "response", tag |-> tag, data |-> data],
                                                       QueueCnt)]
    /\ UNCHANGED changes

\* NetworkLayerSend for an APDU.
NetworkSend(priority, success) ==
    /\ app.nwOutQ[priority] # <<>>
    /\ LET tag == Head(app.nwOutQ[priority])
       IN  app' = Failure([app EXCEPT !.nwOutQ[priority] = Tail(@),
                                      !.ceRspQ = QueueWrite(@, Completion(tag, success), QueueCnt)],
                          tag, success)
    /\ UNCHANGED changes

Arrive(m) ==
    /\ m \notin app.arrived /\ Load < MaxLoad
    /\ app' = [app EXCEPT !.arrived = @ \cup {m}, !.appInQ = QueueWrite(@, m, QueueCnt)]
    /\ UNCHANGED changes

\* The session layer sends a response.
TsaSendResponse ==
    /\ app.tsaRespQ # <<>>
    /\ app' = [app EXCEPT !.tsaRespQ = Tail(@), !.answered[Head(app.tsaRespQ)] = @ + 1]
    /\ UNCHANGED changes

----------------------------------------------------------------------------
\* AppLayerReset, with the queues of the layers below that this layer writes.
AppLayerReset(state, mode) ==
    [state |-> state, mode |-> mode,
     nvQ |-> [d \in Directions |-> <<>>],
     canSchedule |-> [d \in Directions |-> TRUE], failed |-> [d \in Directions |-> FALSE],
     index |-> [d \in Directions |-> 0], hasData |-> FALSE,
     msgIn |-> None, respIn |-> FALSE,
     appOutQ |-> [p \in BOOLEAN |-> <<>>], appInQ |-> <<>>, ceRspQ |-> <<>>,
     tsaOutQ |-> [p \in BOOLEAN |-> <<>>], nwOutQ |-> [p \in BOOLEAN |-> <<>>], tsaRespQ |-> <<>>,
     responded |-> [p \in BOOLEAN |-> FALSE],
     calls |-> [d \in Directions |-> <<>>], reports |-> [d \in Directions |-> <<>>],
     sent |-> {}, completed |-> [m \in DOMAIN Message |-> 0],
     correlators |-> {}, arrived |-> {}, answered |-> [m \in DOMAIN Incoming |-> 0]]

Change(a) == changes < MaxChanges /\ changes' = changes + 1 /\ app' = a

\* A configured node comes on line, unless its application is not running.
NodeReset ==
    Change(AppLayerReset(app.state, IF NodeUnConfigured(app) THEN "OFF_LINE" ELSE "ON_LINE"))

\* IzotSetNodeMode.
SetMode(mode) == app.mode # mode /\ Change([app EXCEPT !.mode = mode])
ChangeState(state) == app.state # state /\ Change([app EXCEPT !.state = state])

Init ==
    /\ app = AppLayerReset("ConfigOnLine", "ON_LINE")
    /\ changes = 0

Next ==
    \/ \E nv \in Primaries : \E d \in Directions : Call(d, nv)
    \/ \E m \in DOMAIN Message : MsgSend(m)
    \/ \E m \in DOMAIN Incoming : RespSend(m) \/ Arrive(m)
    \/ DoApp
    \/ AppLayerSend
    \/ AppLayerReceive
    \/ \E p, ok \in BOOLEAN : TsaComplete(p, ok) \/ TsaRespond(p, ok) \/ NetworkSend(p, ok)
    \/ TsaSendResponse
    \/ NodeReset
    \/ \E mode \in {"ON_LINE", "OFF_LINE"} : SetMode(mode)
    \/ \E state \in States : ChangeState(state)

Spec == Init /\ [][Next]_vars

\* The service loop keeps calling each layer, and every transaction ends.
FairSpec ==
    /\ Spec
    /\ WF_vars(DoApp) /\ WF_vars(AppLayerSend) /\ WF_vars(AppLayerReceive)
    /\ \A p \in BOOLEAN : /\ WF_vars(\E ok \in BOOLEAN : TsaComplete(p, ok))
                          /\ WF_vars(\E ok \in BOOLEAN : NetworkSend(p, ok))
----------------------------------------------------------------------------
TypeOK ==
    /\ app.state \in States /\ app.mode \in {"ON_LINE", "OFF_LINE"}
    /\ \A d \in Directions : /\ Len(app.nvQ[d]) < IndexQCnt[d]
                             /\ app.index[d] \in Primaries \cup {0}
                             /\ {app.canSchedule[d], app.failed[d]} \subseteq BOOLEAN
    /\ \A p \in BOOLEAN : {Len(app.appOutQ[p]), Len(app.tsaOutQ[p]), Len(app.nwOutQ[p])} \subseteq 0 .. QueueCnt - 1
    /\ {Len(app.appInQ), Len(app.ceRspQ), Len(app.tsaRespQ)} \subseteq 0 .. QueueCnt - 1
    /\ app.msgIn \in DOMAIN Incoming \cup {None} /\ {app.hasData, app.respIn} \subseteq BOOLEAN

(* Each completion event is for the datapoint of its call, although the      *)
(* event takes the index from the message that completed last: calls for     *)
(* several datapoints, whose entries may send nothing, never get mixed       *)
(* (HandleMsgCompletion, SendVar, PollVar).                                  *)
CompletionIsForItsCall ==
    \A d \in Directions : \A k \in DOMAIN app.reports[d] :
       LET r == app.reports[d][k] IN r.nv = app.calls[d][r.call].nv

(* "An NVUpdate for a primary succeeds if all the transactions for scheduled *)
(* for the NVUpdates succeed": the status is that of all the messages of the *)
(* call, for the variable and its aliases, and of no other (nvOutStatus).    *)
UpdateStatusIsTrue ==
    \A k \in DOMAIN app.reports.out :
       LET r == app.reports.out[k] IN r.ok <=> ~app.calls.out[r.call].failed

(* "will generate a <IzotDatapointUpdateCompleted> event with the success    *)
(* parameter set to TRUE": that is what the event says of a call that went   *)
(* well, and only of one (HandleMsgCompletion, IzotDatapointUpdateCompleted).*)
EventSaysSuccess ==
    \A d \in Directions : \A k \in DOMAIN app.reports[d] :
       LET r == app.reports[d][k] IN r.success <=> r.ok

(* A poll that completes with success has brought a value since it was asked *)
(* for, and none of its requests failed (nvInDataStatus, nvInTranStatus).    *)
PollSuccessMeansUpdated ==
    \A k \in DOMAIN app.reports.in :
       LET r == app.reports.in[k] IN
       r.ok => app.calls.in[r.call].updated /\ ~app.calls.in[r.call].failed

\* How often a request is somewhere on its way to its response.
Occurrences(m) ==
    Len(SelectSeq(app.appInQ \o <<app.msgIn>> \o app.tsaRespQ, LAMBDA x : x = m))
    + Cardinality(app.correlators \cap {m}) + app.answered[m]

RequestIsAnswered(m) == Incoming[m].kind \in {"poll", "request"} => Occurrences(m) = 1

\* "Losing this packet as it is too large", says TryMsgSend of an unacknowledged
\* message, and does not: it stays in msgOut and completes at every pass.
KeptAsTooLong(m) == Message[m].service = "unackd" /\ Message[m].form = "long"

(* Nothing is done twice and no request forgotten: every request is answered *)
(* once, on line or off line, across changes of mode while it waits, and a   *)
(* message that was sent completes at most once, also while one that is      *)
(* KeptAsTooLong, and completes again and again, is ahead of it              *)
(* (HandleNormal, ProcessNVPoll, DoApp, RespSend; TryMsgSend,                *)
(* HandleMsgCompletion; lcs_app.c:1052-1055).                                *)
AnsweredAndCompletedOnce ==
    /\ \A m \in app.arrived : RequestIsAnswered(m)
    /\ \A m \in DOMAIN Message : app.completed[m] <= 1 \/ KeptAsTooLong(m)

AllReported == \A d \in Directions : Len(app.reports[d]) = Len(app.calls[d])

(* "If IzotPropagateByIndex() returns LonStatusNoError, the                  *)
(* <IzotDatapointUpdateCompleted> event will be triggered when the datapoint *)
(* update has successfully completed or failed": while the application runs, *)
(* every update and every poll comes to its end (SendVar, PollVar,           *)
(* HandleMsgCompletion).                                                     *)
EveryCallCompletes == []<>(AppPgmRuns(app) => AllReported)
============================================================================
